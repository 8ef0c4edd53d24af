----------------------- MODULE ServiceLifecycleProofs -----------------------
(***************************************************************************)
(* For any number of overlapping callers of start, stop and close: the     *)
(* transitions exclude each other, a started service serves, a stopped one *)
(* is quiet, and no operation meets closed stores.                         *)
(***************************************************************************)
EXTENDS ServiceLifecycle, TLAPS

USE LifecycleAssumption

(***************************************************************************)
(* Every call, callback and transition step keeps the types.               *)
(***************************************************************************)
LEMMA NextTypeOK == TypeOK /\ [Next]_vars => TypeOK'
  <1> SUFFICES ASSUME TypeOK, [Next]_vars PROVE TypeOK'
    OBVIOUS
  <1> USE DEF TypeOK, service, runtime, transitions, Spinning
  <1>1. CASE OperationBegins \/ OperationEnds
    <2>1. CASE OperationBegins
      BY <2>1 DEF OperationBegins
    <2>2. CASE OperationEnds
      BY <2>2 DEF OperationEnds
    <2>3. QED
      BY <1>1, <2>1, <2>2
  <1>2. ASSUME NEW c \in Callers, StartWaits(c) \/ StartJoins(c) \/ Start(c)
        PROVE  TypeOK'
    <2>1. CASE StartWaits(c) \/ StartJoins(c)
      BY <2>1 DEF StartWaits, StartJoins
    <2>2. CASE Start(c)
      <3>1. caller' \in [Callers -> {"idle", "waiting", "starting", "stopping"}]
        BY <2>2 DEF Start
      <3>2. QED
        BY <2>2, <3>1 DEF Start, BeginStartup
    <2>3. QED
      BY <1>2, <2>1, <2>2
  <1>3. CASE BindSucceeds
    BY <1>3 DEF BindSucceeds, EndStartup
  <1>4. CASE BindFails
    BY <1>4 DEF BindFails
  <1>5. CASE StartupUnwound
    BY <1>5 DEF StartupUnwound, EndStartup
  <1>6. ASSUME NEW c \in Callers, StopJoins(c) PROVE TypeOK'
    BY <1>6 DEF StopJoins
  <1>7. ASSUME NEW c \in Callers, NEW close \in BOOLEAN, Stop(c, close)
        PROVE  TypeOK'
    BY <1>7 DEF Stop, BeginDrain
  <1>8. CASE ShutdownResumes
    BY <1>8 DEF ShutdownResumes, BeginDrain
  <1>9. CASE Drained
    BY <1>9 DEF Drained
  <1>10. CASE SecondCloseThrows
    BY <1>10 DEF SecondCloseThrows
  <1>11. CASE ShutdownCompletes
    BY <1>11 DEF ShutdownCompletes, BeginStartup
  <1>12. CASE Spin \/ UNCHANGED vars
    BY <1>12 DEF Spin, vars
  <1>13. QED
    BY <1>1, <1>2, <1>3, <1>4, <1>5, <1>6, <1>7, <1>8, <1>9, <1>10, <1>11,
       <1>12 DEF Next, StartupStep, ShutdownStep

(***************************************************************************)
(* Every call, callback and transition step keeps the invariant.           *)
(***************************************************************************)
LEMMA NextIInv == TypeOK /\ IInv /\ [Next]_vars => IInv'
  <1> SUFFICES ASSUME TypeOK, IInv, [Next]_vars PROVE IInv'
    OBVIOUS
  <1> USE DEF TypeOK, IInv, TransitionsExclude, NoOperationOnClosedStores,
              StartupInvariant, ShutdownInvariant, RestInvariant, Serving,
              Quiet, service, runtime, transitions, Spinning
  <1>1. CASE OperationBegins \/ OperationEnds
    <2>1. CASE OperationBegins
      BY <2>1 DEF OperationBegins
    <2>2. CASE OperationEnds
      BY <2>2 DEF OperationEnds
    <2>3. QED
      BY <1>1, <2>1, <2>2
  <1>2. ASSUME NEW c \in Callers, StartWaits(c) \/ StartJoins(c) \/ Start(c)
        PROVE  IInv'
    BY <1>2 DEF StartWaits, StartJoins, Start, BeginStartup
  <1>3. CASE BindSucceeds
    BY <1>3 DEF BindSucceeds, EndStartup
  <1>4. CASE BindFails
    BY <1>4 DEF BindFails
  <1>5. CASE StartupUnwound
    BY <1>5 DEF StartupUnwound, EndStartup
  <1>6. ASSUME NEW c \in Callers, StopJoins(c) PROVE IInv'
    BY <1>6 DEF StopJoins
  <1>7. ASSUME NEW c \in Callers, NEW close \in BOOLEAN, Stop(c, close)
        PROVE  IInv'
    BY <1>7 DEF Stop, BeginDrain
  <1>8. CASE ShutdownResumes
    BY <1>8 DEF ShutdownResumes, BeginDrain
  <1>9. CASE Drained
    BY <1>9 DEF Drained
  <1>10. CASE SecondCloseThrows
    BY <1>10 DEF SecondCloseThrows
  <1>11. CASE ShutdownCompletes
    BY <1>11 DEF ShutdownCompletes, BeginStartup
  <1>12. CASE Spin \/ UNCHANGED vars
    BY <1>12 DEF Spin, vars
  <1>13. QED
    BY <1>1, <1>2, <1>3, <1>4, <1>5, <1>6, <1>7, <1>8, <1>9, <1>10, <1>11,
       <1>12 DEF Next, StartupStep, ShutdownStep

(***************************************************************************)
(* The types and the invariant hold in every reachable state.              *)
(***************************************************************************)
THEOREM InductiveInvariant == Spec => [](TypeOK /\ IInv)
  <1>1. Init => TypeOK /\ IInv
    BY DEF Init, TypeOK, IInv, TransitionsExclude, NoOperationOnClosedStores,
           StartupInvariant, ShutdownInvariant, RestInvariant, Quiet
  <1>2. TypeOK /\ IInv /\ [Next]_vars => (TypeOK /\ IInv)'
    BY NextTypeOK, NextIInv
  <1>3. QED
    BY <1>1, <1>2, PTL DEF Spec

(***************************************************************************)
(* However start, stop and close overlap, the service comes to rest either *)
(* fully serving or with no background work.                               *)
(***************************************************************************)
THEOREM RestsConsistent == Spec => []AtRest
  <1>1. IInv => AtRest
    BY DEF IInv, RestInvariant, Serving, Quiet, Steady, AtRest,
           StartedIsServing, StoppedIsQuiet
  <1>2. QED
    BY <1>1, InductiveInvariant, PTL

(***************************************************************************)
(* Startups and shutdowns never work side by side, and close() never takes *)
(* the databases from a job in flight.                                     *)
(***************************************************************************)
THEOREM TransitionsAreSafe ==
    Spec => [](TransitionsExclude /\ NoOperationOnClosedStores)
  <1>1. IInv => TransitionsExclude /\ NoOperationOnClosedStores
    BY DEF IInv
  <1>2. QED
    BY <1>1, InductiveInvariant, PTL
=============================================================================
