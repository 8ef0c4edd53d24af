------------------------- MODULE DurableWorkerProofs -------------------------
(***************************************************************************)
(* For any number of jobs, crashes, failing commits and any retention: no  *)
(* accepted job is lost, only a failed reject leaves a row in processing   *)
(* behind a live worker, and a retained result keeps its identity.         *)
(***************************************************************************)
EXTENDS DurableWorker, TLAPS

USE DurableAssumption

(***************************************************************************)
(* Empty databases and an idle worker have the right types and satisfy the *)
(* invariant.                                                              *)
(***************************************************************************)
LEMMA InitInv == Init => TypeOK /\ IInv
  <1> SUFFICES ASSUME Init PROVE TypeOK /\ IInv
    OBVIOUS
  <1>1. retained \in Seq(Jobs)
    BY DEF Init
  <1>2. TypeOK
    BY <1>1 DEF Init, TypeOK, Busy
  <1>3. IInv
    BY DEF Init, IInv, OnlyAccepted, HeldRow, NoAcceptedJobLost,
           ProcessingIsHeld, Busy
  <1>4. QED
    BY <1>2, <1>3

(***************************************************************************)
(* Every commit, settled await, fault, crash and restart keeps the types.  *)
(***************************************************************************)
LEMMA NextTypeOK == TypeOK /\ [Next]_vars => TypeOK'
  <1> SUFFICES ASSUME TypeOK, [Next]_vars PROVE TypeOK'
    OBVIOUS
  <1> USE DEF TypeOK, Busy, queue, registry, worker, budget
  <1>1. ASSUME NEW j \in Jobs, Enqueue(j) PROVE TypeOK'
    BY <1>1 DEF Enqueue
  <1>2. ASSUME NEW j \in Jobs, Dequeue(j) PROVE TypeOK'
    BY <1>2 DEF Dequeue
  <1>3. ASSUME NEW v \in Ids, ProcessorReturns(v) PROVE TypeOK'
    BY <1>3 DEF ProcessorReturns
  <1>4. CASE ProcessorThrows
    BY <1>4 DEF ProcessorThrows
  <1>5. CASE StoreCommits
    <2>1. job \in Jobs
      BY <1>5 DEF StoreCommits
    <2>2. Len(retained) >= MaxResults => Tail(retained) \in Seq(Jobs)
      OBVIOUS
    <2>3. retained' \in Seq(Jobs)
      BY <1>5, <2>1, <2>2 DEF StoreCommits
    <2>4. result' \in [Jobs -> Ids \cup {NoId}]
      BY <1>5 DEF StoreCommits
    <2>5. completed' \in SUBSET Jobs
      BY <1>5, <2>1 DEF StoreCommits
    <2>6. QED
      BY <1>5, <2>1, <2>3, <2>4, <2>5 DEF StoreCommits
  <1>6. CASE StoreConflicts
    BY <1>6 DEF StoreConflicts
  <1>7. CASE Acknowledge
    BY <1>7 DEF Acknowledge, Release
  <1>8. CASE Reject
    BY <1>8 DEF Reject, Release
  <1>9. CASE StorageFault
    <2>1. storageFaults' \in 0..MaxStorageFaults
      BY <1>9 DEF StorageFault
    <2>2. CASE phase \in {"storing", "acking"} /\ phase' = "rejecting" /\ UNCHANGED <<job, verification, unrejected>>
      BY <1>9, <2>1, <2>2 DEF StorageFault
    <2>3. CASE phase = "rejecting" /\ unrejected' = unrejected \cup {job} /\ Release
      <3>1. unrejected' \in SUBSET Jobs
        BY <2>3
      <3>2. QED
        BY <1>9, <2>1, <2>3, <3>1 DEF StorageFault, Release
    <2>4. QED
      BY <1>9, <2>2, <2>3 DEF StorageFault
  <1>10. CASE Crash
    BY <1>10 DEF Crash
  <1>11. CASE Restart
    BY <1>11 DEF Restart
  <1>12. CASE UNCHANGED vars
    BY <1>12 DEF vars
  <1>13. QED
    BY <1>1, <1>2, <1>3, <1>4, <1>5, <1>6, <1>7, <1>8, <1>9, <1>10, <1>11,
       <1>12 DEF Next, WorkerStep

(***************************************************************************)
(* Every commit, settled await, fault, crash and restart keeps the         *)
(* invariant.                                                              *)
(***************************************************************************)
LEMMA NextIInv == TypeOK /\ IInv /\ [Next]_vars => IInv'
  <1> SUFFICES ASSUME TypeOK, IInv, [Next]_vars PROVE IInv'
    OBVIOUS
  <1> USE DEF TypeOK, IInv, OnlyAccepted, HeldRow, NoAcceptedJobLost,
              ProcessingIsHeld, Busy, queue, registry, worker, budget
  <1>1. ASSUME NEW j \in Jobs, Enqueue(j) PROVE IInv'
    BY <1>1 DEF Enqueue, Responsive
  <1>2. ASSUME NEW j \in Jobs, Dequeue(j) PROVE IInv'
    BY <1>2 DEF Dequeue, IsNext, Pending
  <1>3. ASSUME NEW v \in Ids, ProcessorReturns(v) PROVE IInv'
    BY <1>3 DEF ProcessorReturns
  <1>4. CASE ProcessorThrows
    BY <1>4 DEF ProcessorThrows
  <1>5. CASE StoreCommits
    BY <1>5 DEF StoreCommits
  <1>6. CASE StoreConflicts
    BY <1>6 DEF StoreConflicts
  <1>7. CASE Acknowledge
    BY <1>7 DEF Acknowledge, Release
  <1>8. CASE Reject
    BY <1>8 DEF Reject, Release
  <1>9. CASE StorageFault
    BY <1>9 DEF StorageFault, Release
  <1>10. CASE Crash
    BY <1>10 DEF Crash
  <1>11. CASE Restart
    BY <1>11 DEF Restart
  <1>12. CASE UNCHANGED vars
    BY <1>12 DEF vars
  <1>13. QED
    BY <1>1, <1>2, <1>3, <1>4, <1>5, <1>6, <1>7, <1>8, <1>9, <1>10, <1>11,
       <1>12 DEF Next, WorkerStep

(***************************************************************************)
(* The types and the invariant hold in every reachable state.              *)
(***************************************************************************)
THEOREM InductiveInvariant == Spec => [](TypeOK /\ IInv)
  <1>1. TypeOK /\ IInv /\ [Next]_vars => (TypeOK /\ IInv)'
    BY NextTypeOK, NextIInv
  <1>2. QED
    BY <1>1, InitInv, PTL DEF Spec

(***************************************************************************)
(* No crash, restart or failing commit makes processNext lose an accepted  *)
(* job: it leaves the queue only after a result was committed.             *)
(***************************************************************************)
THEOREM NothingLost == Spec => []NoAcceptedJobLost
  <1>1. IInv => NoAcceptedJobLost
    BY DEF IInv
  <1>2. QED
    BY <1>1, InductiveInvariant, PTL

(***************************************************************************)
(* Only the job the live worker holds, and one whose reject failed since   *)
(* the process started, is in state processing.                            *)
(***************************************************************************)
THEOREM NothingStranded == Spec => []ProcessingIsHeld
  <1>1. IInv => ProcessingIsHeld
    BY DEF IInv
  <1>2. QED
    BY <1>1, InductiveInvariant, PTL

(***************************************************************************)
(* The conflict check of registry.store keeps the identity of a retained   *)
(* result through every retry of its queue job.                            *)
(***************************************************************************)
THEOREM IdentityIsFinal == Spec => ResultIsFinal
  <1> DEFINE Final == \A j \in Jobs :
                        result[j] # NoId => result'[j] \in {result[j], NoId}
  <1>1. TypeOK /\ [Next]_vars => [Final]_vars
    <2> SUFFICES ASSUME TypeOK, Next PROVE Final
      OBVIOUS
    <2>1. CASE StoreCommits
      <3> SUFFICES ASSUME NEW j \in Jobs, result[j] # NoId
                   PROVE  result'[j] \in {result[j], NoId}
        OBVIOUS
      <3>1. j = job => result[j] = verification
        BY <2>1 DEF StoreCommits, QueueJobConflict
      <3>2. QED
        BY <2>1, <3>1 DEF StoreCommits
    <2>2. CASE UNCHANGED result
      BY <2>2
    <2>3. StoreCommits \/ UNCHANGED result
      BY DEF Next, WorkerStep, Enqueue, Dequeue, ProcessorReturns,
             ProcessorThrows, StoreConflicts, Acknowledge, Reject,
             StorageFault, Crash, Restart, registry
    <2>4. QED
      BY <2>1, <2>2, <2>3
  <1>2. QED
    BY <1>1, InductiveInvariant, PTL DEF Spec, ResultIsFinal
=============================================================================
