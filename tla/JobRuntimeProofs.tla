-------------------------- MODULE JobRuntimeProofs --------------------------
(***************************************************************************)
(* For any number of jobs, callers, stoppers and generations: the types of *)
(* JobRuntime, the exclusiveness of verification operations across         *)
(* generations, the ownership of the shared wakeup resolver and the        *)
(* quiescence of an awaited stop.                                          *)
(***************************************************************************)
EXTENDS JobRuntime, TLAPS

USE RuntimeAssumption DEF None, Gens

(***************************************************************************)
(* The initial state of createVerificationJobRuntime has the right types.  *)
(***************************************************************************)
LEMMA InitTypeOK == Init => TypeOK
  <1> SUFFICES ASSUME Init PROVE TypeOK
    OBVIOUS
  <1>1. entries \in Seq(Jobs)
    BY DEF Init
  <1>2. stopper \in [Stoppers -> [waiting : BOOLEAN, gen : Gens \cup {None}]]
    BY DEF Init
  <1>3. /\ loop \in [Gens -> LoopStates]
        /\ waitsOn \in [Gens -> Gens \cup {None}]
        /\ current \in [Gens -> Jobs \cup {NoJob}]
        /\ caller \in [Callers -> Jobs \cup {NoJob}]
    BY DEF Init, LoopStates
  <1>4. /\ running \in BOOLEAN /\ unsubscribeQueue \in BOOLEAN
        /\ wakeupNotified \in BOOLEAN /\ quiesced \in BOOLEAN
        /\ submitted \in SUBSET Jobs /\ hasOnEnqueue \in BOOLEAN
    BY DEF Init
  <1>5. /\ generationCounter \in 0..MaxGenerations
        /\ activeGeneration \in Gens \cup {None}
        /\ activeLoop \in Gens \cup {None}
        /\ processingSlot \in Gens \cup {None}
        /\ wakeupResolve \in Gens \cup {None}
    BY DEF Init
  <1>6. QED
    BY <1>1, <1>2, <1>3, <1>4, <1>5 DEF TypeOK

(***************************************************************************)
(* Every continuation and every public call of the runtime keeps the       *)
(* types.                                                                  *)
(***************************************************************************)
LEMMA NextTypeOK == TypeOK /\ [Next]_vars => TypeOK'
  <1> SUFFICES ASSUME TypeOK, [Next]_vars PROVE TypeOK'
    OBVIOUS
  <1> USE DEF TypeOK, LoopStates, lifecycle, slotVars, wakeup, queueVars
  <1>1. ASSUME NEW g \in Gens, SlotGrantedInvalid(g) PROVE TypeOK'
    BY <1>1 DEF SlotGrantedInvalid, ReleaseSlot, ExitLoop
  <1>2. ASSUME NEW g \in Gens, SlotGranted(g) PROVE TypeOK'
    <2>0. entries # <<>> => Head(entries) \in Jobs /\ Tail(entries) \in Seq(Jobs)
      OBVIOUS
    <2>1. entries' \in Seq(Jobs)
      BY <1>2, <2>0 DEF SlotGranted
    <2>2. current' \in [Gens -> Jobs \cup {NoJob}]
      BY <1>2, <2>0 DEF SlotGranted
    <2>3. loop' \in [Gens -> LoopStates]
      BY <1>2 DEF SlotGranted
    <2>4. QED
      BY <1>2, <2>1, <2>2, <2>3 DEF SlotGranted
  <1>3. ASSUME NEW g \in Gens, DequeuedNull(g) PROVE TypeOK'
    BY <1>3 DEF DequeuedNull, ReleaseSlot
  <1>4. ASSUME NEW g \in Gens, ProcessSettles(g) PROVE TypeOK'
    BY <1>4 DEF ProcessSettles, ReleaseSlot
  <1>5. ASSUME NEW g \in Gens, StoreThrows(g) PROVE TypeOK'
    BY <1>5 DEF StoreThrows, ReleaseSlot
  <1>6. ASSUME NEW g \in Gens, LoopContinues(g) PROVE TypeOK'
    <2>1. CASE EnterSlot(g) /\ UNCHANGED activeLoop
      BY <1>6, <2>1 DEF LoopContinues, EnterSlot
    <2>2. CASE ExitLoop(g) /\ UNCHANGED slotVars
      BY <1>6, <2>2 DEF LoopContinues, ExitLoop
    <2>3. QED
      BY <1>6, <2>1, <2>2 DEF LoopContinues, LoopTop
  <1>7. ASSUME NEW g \in Gens, IdleWait(g) PROVE TypeOK'
    BY <1>7 DEF IdleWait, ExitLoop
  <1>8. ASSUME NEW g \in Gens, FallbackTimer(g) PROVE TypeOK'
    BY <1>8 DEF FallbackTimer
  <1>9. ASSUME NEW j \in Jobs, Enqueue(j) PROVE TypeOK'
    <2>1. entries' \in Seq(Jobs) /\ submitted' \in SUBSET Jobs
      BY <1>9 DEF Enqueue
    <2>2. loop' \in [Gens -> LoopStates]
      BY <1>9 DEF Enqueue, SignalWakeup
    <2>3. wakeupResolve' \in Gens \cup {None} /\ wakeupNotified' \in BOOLEAN
      BY <1>9 DEF Enqueue, SignalWakeup
    <2>4. QED
      BY <1>9, <2>1, <2>2, <2>3 DEF Enqueue
  <1>10. ASSUME start PROVE TypeOK'
    BY <1>10 DEF start
  <1>11. ASSUME stop PROVE TypeOK'
    BY <1>11 DEF stop
  <1>12. ASSUME StartAgain PROVE TypeOK'
    BY <1>12 DEF StartAgain
  <1>13. ASSUME startAutoProcessing PROVE TypeOK'
    <2>1. generationCounter + 1 \in Gens
      BY <1>13 DEF startAutoProcessing
    <2>2. unsubscribeQueue' \in BOOLEAN
      BY <1>13 DEF startAutoProcessing
    <2>3. loop' \in [Gens -> LoopStates] /\ waitsOn' \in [Gens -> Gens \cup {None}]
      BY <1>13, <2>1 DEF startAutoProcessing, EnterSlot
    <2>4. /\ generationCounter' \in 0..MaxGenerations
          /\ activeGeneration' \in Gens \cup {None}
          /\ activeLoop' \in Gens \cup {None}
          /\ processingSlot' \in Gens \cup {None}
      BY <1>13, <2>1 DEF startAutoProcessing, EnterSlot
    <2>5. QED
      BY <1>13, <2>2, <2>3, <2>4 DEF startAutoProcessing
  <1>14. ASSUME NEW s \in Stoppers, StopAutoCall(s) PROVE TypeOK'
    BY <1>14 DEF StopAutoCall, SignalWakeup
  <1>15. ASSUME NEW s \in Stoppers, StopAutoReturn(s) PROVE TypeOK'
    BY <1>15 DEF StopAutoReturn, DetachIfInactive
  <1>16. ASSUME StopAutoCallNoLoop PROVE TypeOK'
    BY <1>16 DEF StopAutoCallNoLoop, DetachIfInactive
  <1>17. ASSUME NEW c \in Callers, ProcessNextCall(c) PROVE TypeOK'
    BY <1>17 DEF ProcessNextCall
  <1>18. ASSUME NEW c \in Callers, ProcessNextReturn(c) PROVE TypeOK'
    BY <1>18 DEF ProcessNextReturn
  <1>19. CASE UNCHANGED vars
    BY <1>19 DEF vars
  <1>20. QED
    BY <1>1, <1>2, <1>3, <1>4, <1>5, <1>6, <1>7, <1>8, <1>9, <1>10, <1>11, <1>12, <1>13, <1>14, <1>15, <1>16, <1>17, <1>18, <1>19 DEF Next, LoopStep

(***************************************************************************)
(* Type correctness of the runtime, for every value of the constants.      *)
(***************************************************************************)
THEOREM TypeCorrect == Spec => []TypeOK
  BY InitTypeOK, NextTypeOK, PTL DEF Spec

(***************************************************************************)
(* A new runtime has an empty slot chain, no waiter and no subscription.   *)
(***************************************************************************)
LEMMA InitIInv == Init => IInv
  BY DEF Init, IInv, SlotChain, GenerationOrder, ChainLinks, ChainTail,
         NoStaleLink, WakeupOwner, Retirement, ActiveIsSubscribed,
         QuiescentAfterStop, InChain, Operating

(***************************************************************************)
(* Every continuation and public call keeps the slot chain ordered, the    *)
(* resolver owned and retired generations retired.  In the four calls that *)
(* signal a wakeup, step <2>0 says the only loop that moves is the one     *)
(* that waited, which is outside the chain.                                *)
(***************************************************************************)
LEMMA NextIInv == TypeOK /\ IInv /\ [Next]_vars => IInv'
  <1> SUFFICES ASSUME TypeOK, GenerationOrder, ChainLinks, ChainTail, NoStaleLink,
                      WakeupOwner, Retirement, ActiveIsSubscribed,
                      QuiescentAfterStop, [Next]_vars
               PROVE  IInv'
    BY DEF IInv, SlotChain
  <1> USE DEF TypeOK, LoopStates, lifecycle, slotVars, wakeup, queueVars
  <1>1. ASSUME NEW g \in Gens, SlotGrantedInvalid(g) PROVE IInv'
    <2>1. GenerationOrder'
      BY <1>1 DEF SlotGrantedInvalid, ReleaseSlot, ExitLoop, Valid,
         GenerationOrder
    <2>2. ChainLinks'
      BY <1>1 DEF SlotGrantedInvalid, ReleaseSlot, ExitLoop, Valid, InChain,
         ChainLinks
    <2>3. ChainTail'
      BY <1>1 DEF SlotGrantedInvalid, ReleaseSlot, ExitLoop, Valid, InChain,
         ChainLinks, ChainTail
    <2>4. NoStaleLink'
      BY <1>1 DEF SlotGrantedInvalid, ReleaseSlot, ExitLoop, Valid, InChain,
         NoStaleLink
    <2>5. WakeupOwner'
      BY <1>1 DEF SlotGrantedInvalid, ReleaseSlot, ExitLoop, Valid,
         WakeupOwner
    <2>6. Retirement'
      BY <1>1 DEF SlotGrantedInvalid, ReleaseSlot, ExitLoop, Valid, InChain,
         GenerationOrder, ChainLinks, ChainTail, NoStaleLink, Retirement
    <2>7. ActiveIsSubscribed'
      BY <1>1 DEF SlotGrantedInvalid, ReleaseSlot, ExitLoop, Valid,
         ActiveIsSubscribed
    <2>8. QuiescentAfterStop'
      BY <1>1 DEF SlotGrantedInvalid, ReleaseSlot, ExitLoop, Valid,
         Operating, QuiescentAfterStop
    <2>9. QED
      BY <2>1, <2>2, <2>3, <2>4, <2>5, <2>6, <2>7, <2>8 DEF IInv, SlotChain
  <1>2. ASSUME NEW g \in Gens, SlotGranted(g) PROVE IInv'
    <2>1. GenerationOrder'
      BY <1>2 DEF SlotGranted, Valid, GenerationOrder
    <2>2. ChainLinks'
      BY <1>2 DEF SlotGranted, Valid, InChain, ChainLinks
    <2>3. ChainTail'
      BY <1>2 DEF SlotGranted, Valid, InChain, ChainTail
    <2>4. NoStaleLink'
      BY <1>2 DEF SlotGranted, Valid, InChain, NoStaleLink
    <2>5. WakeupOwner'
      BY <1>2 DEF SlotGranted, Valid, WakeupOwner
    <2>6. Retirement'
      BY <1>2 DEF SlotGranted, Valid, InChain, GenerationOrder, ChainLinks,
         ChainTail, NoStaleLink, Retirement
    <2>7. ActiveIsSubscribed'
      BY <1>2 DEF SlotGranted, Valid, ActiveIsSubscribed
    <2>8. QuiescentAfterStop'
      BY <1>2 DEF SlotGranted, Valid, Operating, QuiescentAfterStop
    <2>9. QED
      BY <2>1, <2>2, <2>3, <2>4, <2>5, <2>6, <2>7, <2>8 DEF IInv, SlotChain
  <1>3. ASSUME NEW g \in Gens, DequeuedNull(g) PROVE IInv'
    <2>1. GenerationOrder'
      BY <1>3 DEF DequeuedNull, ReleaseSlot, GenerationOrder
    <2>2. ChainLinks'
      BY <1>3 DEF DequeuedNull, ReleaseSlot, InChain, ChainLinks
    <2>3. ChainTail'
      BY <1>3 DEF DequeuedNull, ReleaseSlot, InChain, ChainLinks, ChainTail
    <2>4. NoStaleLink'
      BY <1>3 DEF DequeuedNull, ReleaseSlot, InChain, ChainLinks, NoStaleLink
    <2>5. WakeupOwner'
      BY <1>3 DEF DequeuedNull, ReleaseSlot, WakeupOwner
    <2>6. Retirement'
      BY <1>3 DEF DequeuedNull, ReleaseSlot, InChain, Retirement
    <2>7. ActiveIsSubscribed'
      BY <1>3 DEF DequeuedNull, ReleaseSlot, ActiveIsSubscribed
    <2>8. QuiescentAfterStop'
      BY <1>3 DEF DequeuedNull, ReleaseSlot, Operating, QuiescentAfterStop
    <2>9. QED
      BY <2>1, <2>2, <2>3, <2>4, <2>5, <2>6, <2>7, <2>8 DEF IInv, SlotChain
  <1>4. ASSUME NEW g \in Gens, ProcessSettles(g) PROVE IInv'
    <2>1. GenerationOrder'
      BY <1>4 DEF ProcessSettles, ReleaseSlot, GenerationOrder
    <2>2. ChainLinks'
      BY <1>4 DEF ProcessSettles, ReleaseSlot, InChain, ChainLinks
    <2>3. ChainTail'
      BY <1>4 DEF ProcessSettles, ReleaseSlot, InChain, ChainLinks, ChainTail
    <2>4. NoStaleLink'
      BY <1>4 DEF ProcessSettles, ReleaseSlot, InChain, ChainLinks,
         NoStaleLink
    <2>5. WakeupOwner'
      BY <1>4 DEF ProcessSettles, ReleaseSlot, WakeupOwner
    <2>6. Retirement'
      BY <1>4 DEF ProcessSettles, ReleaseSlot, InChain, Retirement
    <2>7. ActiveIsSubscribed'
      BY <1>4 DEF ProcessSettles, ReleaseSlot, ActiveIsSubscribed
    <2>8. QuiescentAfterStop'
      BY <1>4 DEF ProcessSettles, ReleaseSlot, Operating, QuiescentAfterStop
    <2>9. QED
      BY <2>1, <2>2, <2>3, <2>4, <2>5, <2>6, <2>7, <2>8 DEF IInv, SlotChain
  <1>5. ASSUME NEW g \in Gens, StoreThrows(g) PROVE IInv'
    <2>1. GenerationOrder'
      BY <1>5 DEF StoreThrows, ReleaseSlot, GenerationOrder
    <2>2. ChainLinks'
      BY <1>5 DEF StoreThrows, ReleaseSlot, InChain, ChainLinks
    <2>3. ChainTail'
      BY <1>5 DEF StoreThrows, ReleaseSlot, InChain, ChainLinks, ChainTail
    <2>4. NoStaleLink'
      BY <1>5 DEF StoreThrows, ReleaseSlot, InChain, ChainLinks, NoStaleLink
    <2>5. WakeupOwner'
      BY <1>5 DEF StoreThrows, ReleaseSlot, WakeupOwner
    <2>6. Retirement'
      BY <1>5 DEF StoreThrows, ReleaseSlot, InChain, Retirement
    <2>7. ActiveIsSubscribed'
      BY <1>5 DEF StoreThrows, ReleaseSlot, ActiveIsSubscribed
    <2>8. QuiescentAfterStop'
      BY <1>5 DEF StoreThrows, ReleaseSlot, Operating, QuiescentAfterStop
    <2>9. QED
      BY <2>1, <2>2, <2>3, <2>4, <2>5, <2>6, <2>7, <2>8 DEF IInv, SlotChain
  <1>6. ASSUME NEW g \in Gens, LoopContinues(g) PROVE IInv'
    <2>1. GenerationOrder'
      BY <1>6 DEF LoopContinues, LoopTop, EnterSlot, ExitLoop, Valid,
         GenerationOrder
    <2>2. ChainLinks'
      BY <1>6, SMTT(30) DEF LoopContinues, LoopTop, EnterSlot, ExitLoop, Valid,
         InChain, GenerationOrder, ChainLinks, ChainTail, NoStaleLink
    <2>3. ChainTail'
      BY <1>6, SMTT(30) DEF LoopContinues, LoopTop, EnterSlot, ExitLoop, Valid,
         InChain, GenerationOrder, ChainLinks, ChainTail, NoStaleLink
    <2>4. NoStaleLink'
      BY <1>6 DEF LoopContinues, LoopTop, EnterSlot, ExitLoop, Valid,
         InChain, NoStaleLink
    <2>5. WakeupOwner'
      BY <1>6 DEF LoopContinues, LoopTop, EnterSlot, ExitLoop, Valid,
         WakeupOwner
    <2>6. Retirement'
      BY <1>6 DEF LoopContinues, LoopTop, EnterSlot, ExitLoop, Valid,
         InChain, GenerationOrder, Retirement
    <2>7. ActiveIsSubscribed'
      BY <1>6 DEF LoopContinues, LoopTop, EnterSlot, ExitLoop, Valid,
         ActiveIsSubscribed
    <2>8. QuiescentAfterStop'
      BY <1>6 DEF LoopContinues, LoopTop, EnterSlot, ExitLoop, Valid,
         Operating, QuiescentAfterStop
    <2>9. QED
      BY <2>1, <2>2, <2>3, <2>4, <2>5, <2>6, <2>7, <2>8 DEF IInv, SlotChain
  <1>7. ASSUME NEW g \in Gens, IdleWait(g) PROVE IInv'
    <2>1. GenerationOrder'
      BY <1>7 DEF IdleWait, ExitLoop, Valid, GenerationOrder
    <2>2. ChainLinks'
      BY <1>7 DEF IdleWait, ExitLoop, Valid, InChain, ChainLinks
    <2>3. ChainTail'
      BY <1>7 DEF IdleWait, ExitLoop, Valid, InChain, ChainTail
    <2>4. NoStaleLink'
      BY <1>7 DEF IdleWait, ExitLoop, Valid, InChain, NoStaleLink
    <2>5. WakeupOwner'
      BY <1>7 DEF IdleWait, ExitLoop, Valid, WakeupOwner
    <2>6. Retirement'
      <3>1. CASE ~Valid(g) /\ ExitLoop(g)
        <4>1. activeGeneration # g
          BY <3>1 DEF Valid, Retirement
        <4>2. \A h \in Gens : h = generationCounter /\ loop'[h] # "done"
                 => activeLoop' = h
          BY <3>1 DEF ExitLoop, Retirement
        <4>3. \A h \in Gens : InChain(h)' <=> InChain(h)
          BY <1>7, <3>1 DEF IdleWait, ExitLoop, InChain
        <4>4. \A h \in Gens : loop[h] \in {"none", "slot"} => loop'[h] = loop[h]
          BY <1>7, <3>1 DEF IdleWait, ExitLoop
        <4>5. QED
          BY <1>7, <3>1, <4>1, <4>2, <4>3, <4>4
             DEF IdleWait, ExitLoop, Retirement
      <3>2. CASE Valid(g) /\ activeLoop' = activeLoop
        <4>1. \A h \in Gens :
                 /\ InChain(h)' <=> InChain(h)
                 /\ loop'[h] = "done" <=> loop[h] = "done"
                 /\ loop[h] \in {"none", "slot"} => loop'[h] = loop[h]
          <5>1. \E x \in {"woken", "parked", "delayed"} :
                    loop' = [loop EXCEPT ![g] = x]
            BY <1>7, <3>2 DEF IdleWait, Valid
          <5>2. QED
            BY <1>7, <5>1 DEF IdleWait, InChain
        <4>2. QED
          BY <1>7, <3>2, <4>1 DEF IdleWait, Retirement
      <3>3. QED
        BY <1>7, <3>1, <3>2 DEF IdleWait
    <2>7. ActiveIsSubscribed'
      BY <1>7 DEF IdleWait, ExitLoop, Valid, ActiveIsSubscribed
    <2>8. QuiescentAfterStop'
      BY <1>7 DEF IdleWait, ExitLoop, Valid, Operating, QuiescentAfterStop
    <2>9. QED
      BY <2>1, <2>2, <2>3, <2>4, <2>5, <2>6, <2>7, <2>8 DEF IInv, SlotChain
  <1>8. ASSUME NEW g \in Gens, FallbackTimer(g) PROVE IInv'
    <2>1. GenerationOrder'
      BY <1>8 DEF FallbackTimer, GenerationOrder
    <2>2. ChainLinks'
      BY <1>8 DEF FallbackTimer, InChain, ChainLinks
    <2>3. ChainTail'
      BY <1>8 DEF FallbackTimer, InChain, ChainTail
    <2>4. NoStaleLink'
      BY <1>8 DEF FallbackTimer, InChain, NoStaleLink
    <2>5. WakeupOwner'
      BY <1>8 DEF FallbackTimer, WakeupOwner
    <2>6. Retirement'
      BY <1>8 DEF FallbackTimer, InChain, Retirement
    <2>7. ActiveIsSubscribed'
      BY <1>8 DEF FallbackTimer, ActiveIsSubscribed
    <2>8. QuiescentAfterStop'
      BY <1>8 DEF FallbackTimer, Operating, QuiescentAfterStop
    <2>9. QED
      BY <2>1, <2>2, <2>3, <2>4, <2>5, <2>6, <2>7, <2>8 DEF IInv, SlotChain
  <1>9. ASSUME NEW j \in Jobs, Enqueue(j) PROVE IInv'
    <2>0. \A h \in Gens : \/ loop'[h] = loop[h]
                         \/ /\ loop[h] \in {"parked", "delayed"}
                            /\ loop'[h] = "woken"
      BY <1>9 DEF Enqueue, SignalWakeup, WakeupOwner
    <2>1. GenerationOrder'
      BY <1>9, <2>0 DEF Enqueue, SignalWakeup, GenerationOrder
    <2>2. ChainLinks'
      <3>1. \A h \in Gens : InChain(h)' <=> InChain(h)
        BY <2>0 DEF InChain
      <3>2. \A h \in Gens : loop[h] = "slot" => loop'[h] = "slot"
        BY <2>0
      <3>3. waitsOn' = waitsOn
        BY <1>9 DEF Enqueue
      <3>4. QED
        BY <3>1, <3>2, <3>3 DEF ChainLinks
    <2>3. ChainTail'
      BY <1>9, <2>0 DEF Enqueue, SignalWakeup, InChain, ChainTail
    <2>4. NoStaleLink'
      BY <1>9, <2>0 DEF Enqueue, SignalWakeup, InChain, NoStaleLink
    <2>5. WakeupOwner'
      BY <1>9 DEF Enqueue, SignalWakeup, WakeupOwner
    <2>6. Retirement'
      BY <1>9, <2>0 DEF Enqueue, SignalWakeup, InChain, Retirement
    <2>7. ActiveIsSubscribed'
      BY <1>9 DEF Enqueue, SignalWakeup, ActiveIsSubscribed
    <2>8. QuiescentAfterStop'
      BY <1>9, <2>0 DEF Enqueue, SignalWakeup, Operating, QuiescentAfterStop
    <2>9. QED
      BY <2>1, <2>2, <2>3, <2>4, <2>5, <2>6, <2>7, <2>8 DEF IInv, SlotChain
  <1>10. ASSUME start PROVE IInv'
    BY <1>10 DEF start, IInv, SlotChain, InChain, Operating, GenerationOrder,
       ChainLinks, ChainTail, NoStaleLink, WakeupOwner, Retirement,
       ActiveIsSubscribed, QuiescentAfterStop
  <1>11. ASSUME stop PROVE IInv'
    <2>0. \A h \in Gens : \/ loop'[h] = loop[h]
                         \/ /\ loop[h] \in {"parked", "delayed"}
                            /\ loop'[h] = "woken"
      BY <1>11 DEF stop, WakeupOwner
    <2>1. GenerationOrder'
      BY <1>11, <2>0 DEF stop, GenerationOrder
    <2>2. ChainLinks'
      BY <1>11, <2>0 DEF stop, InChain, ChainLinks
    <2>3. ChainTail'
      BY <1>11, <2>0 DEF stop, InChain, ChainTail
    <2>4. NoStaleLink'
      BY <1>11, <2>0 DEF stop, InChain, NoStaleLink
    <2>5. WakeupOwner'
      BY <1>11 DEF stop, WakeupOwner
    <2>6. Retirement'
      BY <1>11, <2>0 DEF stop, InChain, Retirement
    <2>7. ActiveIsSubscribed'
      BY <1>11 DEF stop, ActiveIsSubscribed
    <2>8. QuiescentAfterStop'
      BY <1>11, <2>0 DEF stop, Operating, QuiescentAfterStop
    <2>9. QED
      BY <2>1, <2>2, <2>3, <2>4, <2>5, <2>6, <2>7, <2>8 DEF IInv, SlotChain
  <1>12. ASSUME StartAgain PROVE IInv'
    BY <1>12 DEF StartAgain, IInv, SlotChain, InChain, Operating,
       GenerationOrder, ChainLinks, ChainTail, NoStaleLink, WakeupOwner,
       Retirement, ActiveIsSubscribed, QuiescentAfterStop
  <1>13. ASSUME startAutoProcessing PROVE IInv'
    <2>1. GenerationOrder'
      BY <1>13 DEF startAutoProcessing, EnterSlot, GenerationOrder
    <2>2. ChainLinks'
      BY <1>13 DEF startAutoProcessing, EnterSlot, InChain, GenerationOrder,
         ChainLinks, ChainTail, NoStaleLink
    <2>3. ChainTail'
      BY <1>13 DEF startAutoProcessing, EnterSlot, InChain, GenerationOrder,
         ChainLinks, ChainTail, NoStaleLink
    <2>4. NoStaleLink'
      BY <1>13 DEF startAutoProcessing, EnterSlot, InChain, NoStaleLink
    <2>5. WakeupOwner'
      BY <1>13 DEF startAutoProcessing, EnterSlot, WakeupOwner
    <2>6. Retirement'
      BY <1>13 DEF startAutoProcessing, EnterSlot, InChain, GenerationOrder,
         Retirement
    <2>7. ActiveIsSubscribed'
      BY <1>13 DEF startAutoProcessing, EnterSlot, ActiveIsSubscribed
    <2>8. QuiescentAfterStop'
      BY <1>13 DEF startAutoProcessing, EnterSlot, Operating,
         QuiescentAfterStop
    <2>9. QED
      BY <2>1, <2>2, <2>3, <2>4, <2>5, <2>6, <2>7, <2>8 DEF IInv, SlotChain
  <1>14. ASSUME NEW s \in Stoppers, StopAutoCall(s) PROVE IInv'
    <2>0. \A h \in Gens : \/ loop'[h] = loop[h]
                         \/ /\ loop[h] \in {"parked", "delayed"}
                            /\ loop'[h] = "woken"
      BY <1>14 DEF StopAutoCall, SignalWakeup, WakeupOwner
    <2>1. GenerationOrder'
      BY <1>14, <2>0 DEF StopAutoCall, SignalWakeup, GenerationOrder
    <2>2. ChainLinks'
      BY <1>14, <2>0 DEF StopAutoCall, SignalWakeup, InChain, ChainLinks
    <2>3. ChainTail'
      BY <1>14, <2>0 DEF StopAutoCall, SignalWakeup, InChain, ChainTail
    <2>4. NoStaleLink'
      BY <1>14, <2>0 DEF StopAutoCall, SignalWakeup, InChain, NoStaleLink
    <2>5. WakeupOwner'
      BY <1>14 DEF StopAutoCall, SignalWakeup, WakeupOwner
    <2>6. Retirement'
      BY <1>14, <2>0 DEF StopAutoCall, SignalWakeup, InChain, Retirement
    <2>7. ActiveIsSubscribed'
      BY <1>14 DEF StopAutoCall, SignalWakeup, ActiveIsSubscribed
    <2>8. QuiescentAfterStop'
      BY <1>14, <2>0 DEF StopAutoCall, SignalWakeup, Operating,
         QuiescentAfterStop
    <2>9. QED
      BY <2>1, <2>2, <2>3, <2>4, <2>5, <2>6, <2>7, <2>8 DEF IInv, SlotChain
  <1>15. ASSUME NEW s \in Stoppers, StopAutoReturn(s) PROVE IInv'
    <2>1. GenerationOrder'
      BY <1>15 DEF StopAutoReturn, DetachIfInactive, GenerationOrder
    <2>2. ChainLinks'
      BY <1>15 DEF StopAutoReturn, DetachIfInactive, InChain, ChainLinks
    <2>3. ChainTail'
      BY <1>15 DEF StopAutoReturn, DetachIfInactive, InChain, ChainTail
    <2>4. NoStaleLink'
      BY <1>15 DEF StopAutoReturn, DetachIfInactive, InChain, NoStaleLink
    <2>5. WakeupOwner'
      BY <1>15 DEF StopAutoReturn, DetachIfInactive, WakeupOwner
    <2>6. Retirement'
      BY <1>15 DEF StopAutoReturn, DetachIfInactive, InChain, Retirement
    <2>7. ActiveIsSubscribed'
      BY <1>15 DEF StopAutoReturn, DetachIfInactive, ActiveIsSubscribed
    <2>8. QuiescentAfterStop'
      BY <1>15 DEF StopAutoReturn, DetachIfInactive, InChain, Operating,
         GenerationOrder, ChainLinks, ChainTail, NoStaleLink, Retirement,
         QuiescentAfterStop
    <2>9. QED
      BY <2>1, <2>2, <2>3, <2>4, <2>5, <2>6, <2>7, <2>8 DEF IInv, SlotChain
  <1>16. ASSUME StopAutoCallNoLoop PROVE IInv'
    <2>0. \A h \in Gens : \/ loop'[h] = loop[h]
                         \/ /\ loop[h] \in {"parked", "delayed"}
                            /\ loop'[h] = "woken"
      BY <1>16 DEF StopAutoCallNoLoop, DetachIfInactive, WakeupOwner
    <2>1. GenerationOrder'
      BY <1>16, <2>0 DEF StopAutoCallNoLoop, DetachIfInactive,
         GenerationOrder
    <2>2. ChainLinks'
      BY <1>16, <2>0 DEF StopAutoCallNoLoop, DetachIfInactive, InChain,
         ChainLinks
    <2>3. ChainTail'
      BY <1>16, <2>0 DEF StopAutoCallNoLoop, DetachIfInactive, InChain,
         ChainTail
    <2>4. NoStaleLink'
      BY <1>16, <2>0 DEF StopAutoCallNoLoop, DetachIfInactive, InChain,
         NoStaleLink
    <2>5. WakeupOwner'
      BY <1>16 DEF StopAutoCallNoLoop, DetachIfInactive, WakeupOwner
    <2>6. Retirement'
      BY <1>16, <2>0 DEF StopAutoCallNoLoop, DetachIfInactive, InChain,
         Retirement
    <2>7. ActiveIsSubscribed'
      BY <1>16 DEF StopAutoCallNoLoop, DetachIfInactive, ActiveIsSubscribed
    <2>8. QuiescentAfterStop'
      BY <1>16, <2>0 DEF StopAutoCallNoLoop, DetachIfInactive, InChain,
         Operating, GenerationOrder, ChainLinks, ChainTail, NoStaleLink,
         Retirement, QuiescentAfterStop
    <2>9. QED
      BY <2>1, <2>2, <2>3, <2>4, <2>5, <2>6, <2>7, <2>8 DEF IInv, SlotChain
  <1>17. ASSUME NEW c \in Callers, ProcessNextCall(c) PROVE IInv'
    BY <1>17 DEF ProcessNextCall, IInv, SlotChain, InChain, Operating,
       GenerationOrder, ChainLinks, ChainTail, NoStaleLink, WakeupOwner,
       Retirement, ActiveIsSubscribed, QuiescentAfterStop
  <1>18. ASSUME NEW c \in Callers, ProcessNextReturn(c) PROVE IInv'
    BY <1>18 DEF ProcessNextReturn, IInv, SlotChain, InChain, Operating,
       GenerationOrder, ChainLinks, ChainTail, NoStaleLink, WakeupOwner,
       Retirement, ActiveIsSubscribed, QuiescentAfterStop
  <1>19. CASE UNCHANGED vars
    BY <1>19 DEF vars, IInv, SlotChain, InChain, Operating, GenerationOrder,
       ChainLinks, ChainTail, NoStaleLink, WakeupOwner, Retirement,
       ActiveIsSubscribed, QuiescentAfterStop
  <1>20. QED
    BY <1>1, <1>2, <1>3, <1>4, <1>5, <1>6, <1>7, <1>8, <1>9, <1>10, <1>11,
       <1>12, <1>13, <1>14, <1>15, <1>16, <1>17, <1>18, <1>19 DEF Next,
       LoopStep

(***************************************************************************)
(* The slot chain, the ownership of the wakeup resolver and the retirement *)
(* of superseded generations hold in every reachable state.                *)
(***************************************************************************)
THEOREM InductiveInvariant == Spec => [](TypeOK /\ IInv)
  <1>1. Init => TypeOK /\ IInv
    BY InitTypeOK, InitIInv
  <1>2. TypeOK /\ IInv /\ [Next]_vars => (TypeOK /\ IInv)'
    BY NextTypeOK, NextIInv
  <1>3. QED
    BY <1>1, <1>2, PTL DEF Spec

(***************************************************************************)
(* Whatever the number of restarts of automatic processing, at most one    *)
(* generation is between its dequeue and the release of its slot.          *)
(***************************************************************************)
THEOREM OneOperation == Spec => []AtMostOneOperation
  <1>1. TypeOK /\ IInv => AtMostOneOperation
    <2> SUFFICES ASSUME TypeOK, IInv, NEW g \in Gens, NEW h \in Gens,
                        Operating(g), Operating(h)
                 PROVE  g = h
      BY DEF AtMostOneOperation
    <2>1. InChain(g) /\ InChain(h) /\ loop[g] # "slot" /\ loop[h] # "slot"
      BY DEF Operating, InChain
    <2>2. g <= h /\ h <= g
      BY <2>1 DEF IInv, SlotChain, ChainLinks
    <2>3. QED
      BY <2>2
  <1>2. QED
    BY <1>1, InductiveInvariant, PTL

(***************************************************************************)
(* A loop that waits can always be woken: no start, stop or late           *)
(* continuation of a stop drops or steals its resolver.                    *)
(***************************************************************************)
THEOREM WaiterKeepsItsResolver == Spec => []ParkedIsWakeable
  <1>1. IInv => ParkedIsWakeable
    BY DEF IInv, WakeupOwner, ParkedIsWakeable
  <1>2. QED
    BY <1>1, InductiveInvariant, PTL

(***************************************************************************)
(* An active generation stays subscribed to the queue, and a stop that     *)
(* returned with no later start leaves no operation and no listener.       *)
(***************************************************************************)
THEOREM SubscribedAndQuiescent ==
    Spec => [](ActiveIsSubscribed /\ QuiescentAfterStop)
  <1>1. IInv => ActiveIsSubscribed /\ QuiescentAfterStop
    BY DEF IInv
  <1>2. QED
    BY <1>1, InductiveInvariant, PTL
=============================================================================
