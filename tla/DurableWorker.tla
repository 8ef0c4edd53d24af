---------------------------- MODULE DurableWorker ----------------------------
(***************************************************************************)
(* processNext of apps/worker/src/runtime.ts over the durable stores of    *)
(* the canonical service: the SQLite queue (sqlite-job-queue.ts) and the   *)
(* SQLite result registry (sqlite-result-registry.ts), two databases whose *)
(* commits are separate.                                                   *)
(*                                                                         *)
(* An action is one database commit or one settled await.  The calls       *)
(* registry.store, queue.acknowledge and queue.reject follow one another   *)
(* in one continuation: only a crash of the process, or the failure of the *)
(* commit itself, can come between them.  JobRuntime shows that there is   *)
(* one such worker at a time and that it never sleeps through an enqueue.  *)
(*                                                                         *)
(* A job is numbered by its place in the queue's order (enqueued_at,       *)
(* job_id).  Every verifySource call mints a fresh verification identity   *)
(* (mvp-application-service.ts), so the identity of an attempt differs     *)
(* from every one in the registry.                                         *)
(*                                                                         *)
(* A definition marked "Faulty" takes no part in the specification: it is  *)
(* a plausible mistake in the operator after it, with which one of the     *)
(* properties must fail.                                                   *)
(***************************************************************************)
EXTENDS Naturals, Sequences, FiniteSets

CONSTANTS
    Jobs,              \* queue jobs, numbered in the order of selectNext
    Ids,               \* verification identities
    NoId,              \* not an identity
    Undecodable,       \* jobs whose stored payload decode() refuses
    Poison,            \* jobs for which the processor always throws
    MaxResults,        \* the registry's maxResults
    MaxFailures,       \* bound on transient processor failures
    MaxStorageFaults,  \* bound on failing commits
    MaxCrashes         \* bound on process crashes

ASSUME DurableAssumption ==
    /\ Jobs \subseteq Nat \ {0}
    /\ NoId \notin Ids
    /\ Undecodable \subseteq Jobs
    /\ Poison \subseteq Jobs
    /\ MaxResults \in Nat \ {0}
    /\ MaxFailures \in Nat
    /\ MaxStorageFaults \in Nat
    /\ MaxCrashes \in Nat

VARIABLES
    row,            \* state column of verification_queue_jobs, or "absent"
    accepted,       \* history: jobs whose INSERT committed
    result,         \* identity verification_results holds per queue_job_id
    retained,       \* queue_job_ids of verification_results by rowid
    completed,      \* history: jobs that had a result committed
    phase,          \* where processNext is
    job,            \* the job processNext holds, 0 when it holds none
    verification,   \* identity of the result in hand, NoId before it
    unrejected,     \* history: jobs whose reject failed in this process
    failures,       \* transient processor failures so far
    storageFaults,  \* failed commits so far
    crashes         \* crashes so far

queue == <<row, accepted>>
registry == <<result, retained, completed>>
worker == <<phase, job, verification, unrejected>>
budget == <<failures, storageFaults, crashes>>
vars == <<queue, registry, worker, budget>>

\* processNext holds a job it has not acknowledged or rejected.
Busy == phase \in {"processing", "storing", "acking", "rejecting"}

\* The event loop is free to run another request.
Responsive == phase \in {"idle", "processing"}

TypeOK ==
    /\ row \in [Jobs -> {"absent", "pending", "processing"}]
    /\ accepted \in SUBSET Jobs
    /\ result \in [Jobs -> Ids \cup {NoId}]
    /\ retained \in Seq(Jobs)
    /\ completed \in SUBSET Jobs
    /\ phase \in {"down", "idle", "processing", "storing", "acking", "rejecting"}
    /\ job \in Jobs \cup {0}
    /\ Busy <=> job \in Jobs
    /\ verification \in Ids \cup {NoId}
    /\ unrejected \in SUBSET Jobs
    /\ failures \in 0..MaxFailures
    /\ storageFaults \in 0..MaxStorageFaults
    /\ crashes \in 0..MaxCrashes

Init ==
    /\ row = [j \in Jobs |-> "absent"]
    /\ accepted = {}
    /\ result = [j \in Jobs |-> NoId]
    /\ retained = <<>>
    /\ completed = {}
    /\ phase = "idle"
    /\ job = 0
    /\ verification = NoId
    /\ unrejected = {}
    /\ failures = 0
    /\ storageFaults = 0
    /\ crashes = 0

-----------------------------------------------------------------------------
(***************************************************************************)
(* The queue.                                                              *)
(***************************************************************************)
Pending == {j \in Jobs : row[j] = "pending"}

\* Faulty: the newest pending row first.
IsLast(j) == j \in Pending /\ \A k \in Pending : k <= j

\* selectNext: the first pending row.
IsNext(j) == j \in Pending /\ \A k \in Pending : j <= k

\* enqueue, from a webhook request: the INSERT commits.
Enqueue(j) ==
    /\ Responsive
    /\ j \notin accepted
    /\ row' = [row EXCEPT ![j] = "pending"]
    /\ accepted' = accepted \cup {j}
    /\ UNCHANGED <<registry, worker, budget>>

\* dequeue in one transaction.  When the first row does not decode it returns
\* null without looking further: the worker stays idle.
Dequeue(j) ==
    /\ phase = "idle"
    /\ IsNext(j)
    /\ j \notin Undecodable
    /\ row' = [row EXCEPT ![j] = "processing"]
    /\ phase' = "processing"
    /\ job' = j
    /\ verification' = NoId
    /\ UNCHANGED <<accepted, registry, unrejected, budget>>

\* processNext returned or threw: runLoop goes on to the next job.
Release == phase' = "idle" /\ job' = 0 /\ verification' = NoId

-----------------------------------------------------------------------------
(***************************************************************************)
(* The processor.                                                          *)
(***************************************************************************)

\* processor.process returns a result with a fresh identity.
ProcessorReturns(v) ==
    /\ phase = "processing"
    /\ job \notin Poison
    /\ \A j \in Jobs : result[j] # v
    /\ phase' = "storing"
    /\ verification' = v
    /\ UNCHANGED <<queue, registry, job, unrejected, budget>>

\* processor.process throws; the catch block calls queue.reject.
ProcessorThrows ==
    /\ phase = "processing"
    /\ \/ /\ job \in Poison
          /\ UNCHANGED failures
       \/ /\ job \notin Poison
          /\ failures < MaxFailures
          /\ failures' = failures + 1
    /\ phase' = "rejecting"
    /\ UNCHANGED <<queue, registry, job, verification, unrejected, storageFaults, crashes>>

-----------------------------------------------------------------------------
(***************************************************************************)
(* The registry.                                                           *)
(***************************************************************************)

\* Faulty: a queue identity may be registered again.
NeverConflicts == FALSE

\* The queue identity belongs to another verification.
QueueJobConflict == result[job] # NoId /\ result[job] # verification

\* registry.store commits: the row is (re)inserted last, the oldest rows
\* beyond maxResults are trimmed.
StoreCommits ==
    /\ phase = "storing"
    /\ ~QueueJobConflict
    /\ LET trimmed == Len(retained) >= MaxResults
       IN /\ retained' = Append(IF trimmed THEN Tail(retained) ELSE retained, job)
          /\ result' = [j \in Jobs |->
                           IF j = job THEN verification
                           ELSE IF trimmed /\ j = Head(retained) THEN NoId
                           ELSE result[j]]
    /\ completed' = completed \cup {job}
    /\ phase' = "acking"
    /\ UNCHANGED <<queue, job, verification, unrejected, budget>>

\* registry.store throws "queue jobId is already registered".
StoreConflicts ==
    /\ phase = "storing"
    /\ QueueJobConflict
    /\ phase' = "rejecting"
    /\ UNCHANGED <<queue, registry, job, verification, unrejected, budget>>

-----------------------------------------------------------------------------
(***************************************************************************)
(* Acknowledgement and rejection.                                          *)
(***************************************************************************)

\* queue.acknowledge deletes the processing row.
Acknowledge ==
    /\ phase = "acking"
    /\ row' = [row EXCEPT ![job] = IF row[job] = "processing" THEN "absent"
                                   ELSE row[job]]
    /\ Release
    /\ UNCHANGED <<accepted, registry, unrejected, budget>>

\* Faulty: a failed job is removed like a completed one.
RejectDrops ==
    /\ phase = "rejecting"
    /\ row' = [row EXCEPT ![job] = "absent"]
    /\ Release
    /\ UNCHANGED <<accepted, registry, unrejected, budget>>

\* queue.reject returns the processing row to pending.
Reject ==
    /\ phase = "rejecting"
    /\ row' = [row EXCEPT ![job] = IF row[job] = "processing" THEN "pending"
                                   ELSE row[job]]
    /\ Release
    /\ UNCHANGED <<accepted, registry, unrejected, budget>>

\* registry.store or queue.acknowledge fails to commit: the catch block calls
\* queue.reject; queue.reject fails: processNext throws, the row is untouched.
StorageFault ==
    /\ storageFaults < MaxStorageFaults
    /\ storageFaults' = storageFaults + 1
    /\ \/ /\ phase \in {"storing", "acking"}
          /\ phase' = "rejecting"
          /\ UNCHANGED <<job, verification, unrejected>>
       \/ /\ phase = "rejecting"
          /\ unrejected' = unrejected \cup {job}
          /\ Release
    /\ UNCHANGED <<queue, registry, failures, crashes>>

-----------------------------------------------------------------------------
(***************************************************************************)
(* The process.                                                            *)
(***************************************************************************)

\* The process dies; the committed rows survive.
Crash ==
    /\ phase # "down"
    /\ crashes < MaxCrashes
    /\ crashes' = crashes + 1
    /\ phase' = "down"
    /\ job' = 0
    /\ verification' = NoId
    /\ unrejected' = {}
    /\ UNCHANGED <<queue, registry, failures, storageFaults>>

\* Faulty: rows in state processing stay as the dead process left them.
RestartUnrecovered ==
    /\ phase = "down"
    /\ phase' = "idle"
    /\ UNCHANGED <<queue, registry, job, verification, unrejected, budget>>

\* createSqliteVerificationJobQueue on the existing file, then automatic
\* processing: every processing row is pending again.
Restart ==
    /\ phase = "down"
    /\ row' = [j \in Jobs |-> IF row[j] = "processing" THEN "pending" ELSE row[j]]
    /\ phase' = "idle"
    /\ UNCHANGED <<accepted, registry, job, verification, unrejected, budget>>

WorkerStep ==
    \/ \E j \in Jobs : Dequeue(j)
    \/ \E v \in Ids : ProcessorReturns(v)
    \/ ProcessorThrows
    \/ StoreCommits
    \/ StoreConflicts
    \/ Acknowledge
    \/ Reject
    \/ Restart

Next ==
    \/ \E j \in Jobs : Enqueue(j)
    \/ WorkerStep
    \/ StorageFault
    \/ Crash

Spec == Init /\ [][Next]_vars

(***************************************************************************)
(* The loop keeps consuming, every await settles and the supervisor        *)
(* restarts a process that died.                                           *)
(***************************************************************************)
FairSpec == Spec /\ WF_vars(WorkerStep)

-----------------------------------------------------------------------------
(***************************************************************************)
(* Properties.                                                             *)
(***************************************************************************)

(***************************************************************************)
(* No accepted job is lost: whatever crash or failing commit interrupts    *)
(* processNext, a job leaves the queue only after a result of it was       *)
(* committed (github-verification-service.ts lines 72-73).                 *)
(***************************************************************************)
NoAcceptedJobLost ==
    \A j \in accepted : row[j] # "absent" \/ j \in completed

(***************************************************************************)
(* selectNext skips a row in state processing.  Under a live worker such a *)
(* row is the one it holds, or one whose reject failed in this process:    *)
(* neither a crash at any point nor a failing store or acknowledge leaves  *)
(* one behind, and a restart brings back those a failed reject left.       *)
(***************************************************************************)
ProcessingIsHeld ==
    phase # "down" =>
        \A j \in Jobs :
            row[j] = "processing" => (Busy /\ job = j) \/ j \in unrejected

(***************************************************************************)
(* A queue job may run several times, but while its result is retained no  *)
(* later attempt replaces it by another verification: readers of           *)
(* /verification-jobs/:queueJobId/result never see the identity change.    *)
(***************************************************************************)
ResultIsFinal ==
    [][\A j \in Jobs :
          result[j] # NoId => result'[j] \in {result[j], NoId}]_vars

\* The result is committed, the row is not removed and nobody is about to.
TornAcknowledgement(j) ==
    result[j] # NoId /\ row[j] # "absent" /\ ~(phase = "acking" /\ job = j)

\* A failed reject left the row in state processing under a live worker.
Stranded(j) ==
    row[j] = "processing" /\ phase # "down" /\ ~(Busy /\ job = j)

Settled(j) == j \in completed /\ row[j] = "absent"

\* Jobs that come before every job that can never be processed.
Unobstructed == {j \in Jobs : \A k \in Undecodable \cup Poison : j < k}

(***************************************************************************)
(* Every accepted job is eventually settled, through processor failures,   *)
(* crashes and failing commits and however late it was accepted, unless    *)
(* one of two things happens to some job: its acknowledgement is torn from *)
(* its stored result, or its rejection fails.                              *)
(***************************************************************************)
SettledUnlessTorn ==
    \A j \in Unobstructed :
        j \in accepted ~> \/ Settled(j)
                          \/ \E k \in Jobs : TornAcknowledgement(k) \/ Stranded(k)

(***************************************************************************)
(* docs/RESULT-STORAGE.md lines 41-43: a job is recovered when the process *)
(* restarts before its acknowledgement, and may run again.  It is then     *)
(* settled like any other.                                                 *)
(***************************************************************************)
RecoveredJobSettles ==
    \A j \in Jobs : j \in accepted ~> Settled(j)

-----------------------------------------------------------------------------
(***************************************************************************)
(* The inductive invariant.                                                *)
(***************************************************************************)

\* Rows and results exist only for accepted jobs.
OnlyAccepted ==
    /\ \A j \in Jobs : row[j] # "absent" => j \in accepted
    /\ completed \subseteq accepted

\* processNext holds a row it marked itself, and acknowledges only a job with
\* a committed result.
HeldRow ==
    /\ Busy => row[job] = "processing"
    /\ phase = "acking" => job \in completed

(***************************************************************************)
(* The invariant from which no job is lost and no row is left behind.      *)
(***************************************************************************)
IInv ==
    /\ OnlyAccepted
    /\ HeldRow
    /\ NoAcceptedJobLost
    /\ ProcessingIsHeld
=============================================================================
