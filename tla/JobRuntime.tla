----------------------------- MODULE JobRuntime -----------------------------
(***************************************************************************)
(* The verification job runtime of apps/worker/src/runtime.ts over the     *)
(* in-memory queue of apps/worker/src/in-memory-job-queue.ts.              *)
(*                                                                         *)
(* JavaScript runs one continuation at a time, so an action here is one    *)
(* stretch of code between two awaits.  The continuations that are ready   *)
(* may run in any order: the interleavings of this module include those of *)
(* the engine's microtask queue.                                           *)
(*                                                                         *)
(* A generation is one start of automatic processing; it owns one run of   *)
(* runLoop.  Callers of the public API (start, stop, startAutoProcessing,  *)
(* stopAutoProcessing, processNext) are the environment.                   *)
(*                                                                         *)
(* A definition marked "Faulty" takes no part in the specification: it is  *)
(* a plausible mistake in the operator after it, with which one of the     *)
(* properties must fail.                                                   *)
(***************************************************************************)
EXTENDS Naturals, Sequences, FiniteSets

CONSTANTS
    Jobs,            \* the queue jobs that may be enqueued, each at most once
    Stoppers,        \* concurrent callers of stopAutoProcessing
    Callers,         \* concurrent callers of processNext (drain repeats it)
    MaxGenerations,  \* bound on generationCounter
    NoJob            \* not a job

ASSUME RuntimeAssumption ==
    /\ MaxGenerations \in Nat
    /\ NoJob \notin Jobs

None == 0
Gens == 1..MaxGenerations

VARIABLES
    running,            \* let running
    generationCounter,  \* let generationCounter
    activeGeneration,   \* let activeGeneration, 0 when none
    activeLoop,         \* generation of let activeLoop, None for null
    processingSlot,     \* generation owning the unreleased slot at the tail of
                        \* the promise chain; None when the tail is resolved
    waitsOn,            \* generation whose slot `await previous` waits for
    unsubscribeQueue,   \* whether let unsubscribeQueue is non-null
    wakeupResolve,      \* generation whose wait let wakeupResolve resolves
    wakeupNotified,     \* let wakeupNotified
    loop,               \* where each generation's runLoop is suspended
    current,            \* the job each generation's processNext holds
    entries,            \* the queue's entries array
    submitted,          \* jobs enqueued so far
    hasOnEnqueue,       \* whether the queue offers onEnqueue; never changes
    stopper,            \* suspended stopAutoProcessing calls
    caller,             \* the job each direct processNext call holds
    quiesced            \* history: a stopAutoProcessing call returned, and no
                        \* generation started since it was called

lifecycle == <<running, generationCounter, activeGeneration, activeLoop>>
slotVars == <<processingSlot, waitsOn>>
wakeup == <<unsubscribeQueue, wakeupResolve, wakeupNotified>>
queueVars == <<entries, submitted, hasOnEnqueue>>
vars == <<lifecycle, slotVars, wakeup, queueVars, loop, current, stopper,
          caller, quiesced>>

(***************************************************************************)
(* "slot": awaiting the previous slot; "empty": dequeue returned null, its *)
(* await is pending; "op": dequeued a job, awaiting the processor;         *)
(* "settle", "idle", "threw": runAutomaticNext returned or threw, the slot *)
(* is released; "parked": waitForWakeup; "delayed": fallbackDelay;         *)
(* "woken": that wait is resolved; "done": the loop returned.              *)
(***************************************************************************)
LoopStates == {"none", "slot", "empty", "op", "settle", "idle", "threw",
               "parked", "delayed", "woken", "done"}

\* The loop holds or waits for a place in the slot chain.
InChain(g) == loop[g] \in {"slot", "empty", "op"}

\* The loop is inside processNext: between dequeue and the slot's release.
Operating(g) == loop[g] \in {"empty", "op"}

TypeOK ==
    /\ running \in BOOLEAN
    /\ generationCounter \in 0..MaxGenerations
    /\ activeGeneration \in Gens \cup {None}
    /\ activeLoop \in Gens \cup {None}
    /\ processingSlot \in Gens \cup {None}
    /\ waitsOn \in [Gens -> Gens \cup {None}]
    /\ unsubscribeQueue \in BOOLEAN
    /\ wakeupResolve \in Gens \cup {None}
    /\ wakeupNotified \in BOOLEAN
    /\ loop \in [Gens -> LoopStates]
    /\ current \in [Gens -> Jobs \cup {NoJob}]
    /\ entries \in Seq(Jobs)
    /\ submitted \in SUBSET Jobs
    /\ hasOnEnqueue \in BOOLEAN
    /\ stopper \in [Stoppers -> [waiting : BOOLEAN, gen : Gens \cup {None}]]
    /\ caller \in [Callers -> Jobs \cup {NoJob}]
    /\ quiesced \in BOOLEAN

Init ==
    /\ running = FALSE
    /\ generationCounter = 0
    /\ activeGeneration = None
    /\ activeLoop = None
    /\ processingSlot = None
    /\ waitsOn = [g \in Gens |-> None]
    /\ unsubscribeQueue = FALSE
    /\ wakeupResolve = None
    /\ wakeupNotified = FALSE
    /\ loop = [g \in Gens |-> "none"]
    /\ current = [g \in Gens |-> NoJob]
    /\ entries = <<>>
    /\ submitted = {}
    /\ hasOnEnqueue \in BOOLEAN
    /\ stopper = [s \in Stoppers |-> [waiting |-> FALSE, gen |-> None]]
    /\ caller = [c \in Callers |-> NoJob]
    /\ quiesced = FALSE

-----------------------------------------------------------------------------
(***************************************************************************)
(* The slot chain and the loop's control.                                  *)
(***************************************************************************)

\* The generation owns automatic processing and the runtime is running.
Valid(g) == activeGeneration = g /\ running

\* Faulty: a generation that does not wait for the slot before it.
EnterSlotUnchained(g) ==
    /\ waitsOn' = [waitsOn EXCEPT ![g] = None]
    /\ processingSlot' = g
    /\ loop' = [loop EXCEPT ![g] = "slot"]

\* runAutomaticNext up to `await previous`: chain behind the current tail.
EnterSlot(g) ==
    /\ waitsOn' = [waitsOn EXCEPT ![g] = processingSlot]
    /\ processingSlot' = g
    /\ loop' = [loop EXCEPT ![g] = "slot"]

\* release(): the generation chained behind g may continue.
ReleaseSlot(g) ==
    /\ waitsOn' = [h \in Gens |-> IF waitsOn[h] = g THEN None ELSE waitsOn[h]]
    /\ processingSlot' = IF processingSlot = g THEN None ELSE processingSlot

\* runLoop returns and its finally handler clears activeLoop if still its own.
ExitLoop(g) ==
    /\ loop' = [loop EXCEPT ![g] = "done"]
    /\ activeLoop' = IF activeLoop = g THEN None ELSE activeLoop

\* The head of for (;;): leave when superseded or stopped, else consume again.
LoopTop(g) ==
    \/ /\ Valid(g)
       /\ EnterSlot(g)
       /\ UNCHANGED activeLoop
    \/ /\ ~Valid(g)
       /\ ExitLoop(g)
       /\ UNCHANGED slotVars

\* Faulty: a signal that finds nobody waiting is forgotten.
SignalWakeupForgotten(l) ==
    /\ wakeupResolve' = None
    /\ wakeupNotified' = FALSE
    /\ loop' = IF wakeupResolve = None THEN l
               ELSE [l EXCEPT ![wakeupResolve] = "woken"]

\* signalWakeup applied to the loop states l: resolve the wait, or remember it.
SignalWakeup(l) ==
    /\ wakeupResolve' = None
    /\ wakeupNotified' = (wakeupResolve = None)
    /\ loop' = IF wakeupResolve = None THEN l
               ELSE [l EXCEPT ![wakeupResolve] = "woken"]

\* `await previous` continues in a generation that is no longer valid.
SlotGrantedInvalid(g) ==
    /\ loop[g] = "slot" /\ waitsOn[g] = None
    /\ ~Valid(g)
    /\ ReleaseSlot(g)
    /\ ExitLoop(g)
    /\ UNCHANGED <<running, generationCounter, activeGeneration, wakeup,
                   queueVars, current, stopper, caller, quiesced>>

\* ... and in a valid one: processNext runs up to the pending dequeue or on
\* to the pending processor call (the queue shifts synchronously).
SlotGranted(g) ==
    /\ loop[g] = "slot" /\ waitsOn[g] = None
    /\ Valid(g)
    /\ \/ /\ entries = <<>>
          /\ loop' = [loop EXCEPT ![g] = "empty"]
          /\ UNCHANGED <<entries, current>>
       \/ /\ entries # <<>>
          /\ loop' = [loop EXCEPT ![g] = "op"]
          /\ current' = [current EXCEPT ![g] = Head(entries)]
          /\ entries' = Tail(entries)
    /\ UNCHANGED <<lifecycle, slotVars, wakeup, submitted, hasOnEnqueue,
                   stopper, caller, quiesced>>

\* processNext returned idle; the finally releases the slot.
DequeuedNull(g) ==
    /\ loop[g] = "empty"
    /\ ReleaseSlot(g)
    /\ loop' = [loop EXCEPT ![g] = "idle"]
    /\ UNCHANGED <<lifecycle, wakeup, queueVars, current, stopper, caller,
                   quiesced>>

\* processor.process and registry.store succeed, or the processor throws: the
\* outcome is completed or failed (the in-memory queue has no reject).
ProcessSettles(g) ==
    /\ loop[g] = "op"
    /\ ReleaseSlot(g)
    /\ loop' = [loop EXCEPT ![g] = "settle"]
    /\ UNCHANGED <<lifecycle, wakeup, queueVars, current, stopper, caller,
                   quiesced>>

\* registry.store throws: processNext throws and runLoop catches.
StoreThrows(g) ==
    /\ loop[g] = "op"
    /\ ReleaseSlot(g)
    /\ loop' = [loop EXCEPT ![g] = "threw"]
    /\ current' = [current EXCEPT ![g] = NoJob]
    /\ UNCHANGED <<lifecycle, wakeup, queueVars, stopper, caller, quiesced>>

\* rememberSettled, or the catch block, or the end of a wait; then for (;;).
LoopContinues(g) ==
    /\ loop[g] \in {"settle", "threw", "woken"}
    /\ LoopTop(g)
    /\ current' = [current EXCEPT ![g] = NoJob]
    /\ UNCHANGED <<running, generationCounter, activeGeneration, wakeup,
                   queueVars, stopper, caller, quiesced>>

\* The idle branch of runLoop: re-check, then wait for a wakeup or a delay.
IdleWait(g) ==
    /\ loop[g] = "idle"
    /\ \/ /\ ~Valid(g)
          /\ ExitLoop(g)
          /\ UNCHANGED <<wakeupResolve, wakeupNotified>>
       \/ /\ Valid(g) /\ unsubscribeQueue /\ wakeupNotified
          /\ wakeupNotified' = FALSE
          /\ loop' = [loop EXCEPT ![g] = "woken"]
          /\ UNCHANGED <<wakeupResolve, activeLoop>>
       \/ /\ Valid(g) /\ unsubscribeQueue /\ ~wakeupNotified
          /\ wakeupResolve' = g
          /\ loop' = [loop EXCEPT ![g] = "parked"]
          /\ UNCHANGED <<wakeupNotified, activeLoop>>
       \/ /\ Valid(g) /\ ~unsubscribeQueue
          /\ wakeupResolve' = g
          /\ loop' = [loop EXCEPT ![g] = "delayed"]
          /\ UNCHANGED <<wakeupNotified, activeLoop>>
    /\ UNCHANGED <<running, generationCounter, activeGeneration, slotVars,
                   unsubscribeQueue, queueVars, current, stopper, caller,
                   quiesced>>

\* The 10 ms timer of fallbackDelay fires.
FallbackTimer(g) ==
    /\ loop[g] = "delayed"
    /\ wakeupResolve' = None
    /\ wakeupNotified' = (wakeupNotified /\ wakeupResolve = None)
    /\ loop' = [loop EXCEPT ![g] = "woken"]
    /\ UNCHANGED <<lifecycle, slotVars, unsubscribeQueue, queueVars, current,
                   stopper, caller, quiesced>>

LoopStep(g) ==
    \/ SlotGrantedInvalid(g)
    \/ SlotGranted(g)
    \/ DequeuedNull(g)
    \/ ProcessSettles(g)
    \/ StoreThrows(g)
    \/ LoopContinues(g)
    \/ IdleWait(g)
    \/ FallbackTimer(g)

-----------------------------------------------------------------------------
(***************************************************************************)
(* The public operations.                                                  *)
(***************************************************************************)

\* queue.enqueue: push, then call the subscribed listener (signalWakeup).
Enqueue(j) ==
    /\ j \notin submitted
    /\ entries' = Append(entries, j)
    /\ submitted' = submitted \cup {j}
    /\ IF unsubscribeQueue
       THEN SignalWakeup(loop)
       ELSE UNCHANGED <<wakeupResolve, wakeupNotified, loop>>
    /\ UNCHANGED <<hasOnEnqueue, lifecycle, slotVars, unsubscribeQueue, current,
                   stopper, caller, quiesced>>

start ==
    /\ running' = TRUE
    /\ UNCHANGED <<generationCounter, activeGeneration, activeLoop, slotVars,
                   wakeup, queueVars, loop, current, stopper, caller, quiesced>>

\* stop(): invalidate, wake, detach the listener and clear the wakeup state.
stop ==
    /\ running' = FALSE
    /\ activeGeneration' = None
    /\ loop' = IF wakeupResolve = None THEN loop
               ELSE [loop EXCEPT ![wakeupResolve] = "woken"]
    /\ unsubscribeQueue' = FALSE
    /\ wakeupResolve' = None
    /\ wakeupNotified' = FALSE
    /\ UNCHANGED <<generationCounter, activeLoop, slotVars, queueVars, current,
                   stopper, caller, quiesced>>

\* startAutoProcessing while a generation is active only sets running.
StartAgain ==
    /\ activeGeneration # None
    /\ running' = TRUE
    /\ UNCHANGED <<generationCounter, activeGeneration, activeLoop, slotVars,
                   wakeup, queueVars, loop, current, stopper, caller, quiesced>>

\* startAutoProcessing from a stopped state: mint a generation, subscribe
\* unless subscribed, run the loop up to its first await.
startAutoProcessing ==
    /\ activeGeneration = None
    /\ generationCounter < MaxGenerations
    /\ LET g == generationCounter + 1
       IN /\ generationCounter' = g
          /\ activeGeneration' = g
          /\ activeLoop' = g
          /\ EnterSlot(g)
    /\ running' = TRUE
    /\ wakeupNotified' = FALSE
    /\ unsubscribeQueue' = (unsubscribeQueue \/ hasOnEnqueue)
    /\ quiesced' = FALSE
    /\ UNCHANGED <<wakeupResolve, queueVars, current, stopper, caller>>

\* Faulty: the late continuation of an old stop detaches the newer listener.
DetachAlways(ag) ==
    /\ ag \in Gens \cup {None}
    /\ unsubscribeQueue' = FALSE
    /\ wakeupResolve' = None
    /\ wakeupNotified' = FALSE

\* The tail of stopAutoProcessing: detach unless a newer generation is active.
DetachIfInactive(ag) ==
    IF ag = None
    THEN /\ unsubscribeQueue' = FALSE
         /\ wakeupResolve' = None
         /\ wakeupNotified' = FALSE
    ELSE UNCHANGED wakeup

\* Faulty: stopAutoProcessing does not wake the loop it is about to await.
StopAutoCallSilent(s) ==
    /\ ~stopper[s].waiting
    /\ activeLoop # None
    /\ stopper' = [stopper EXCEPT ![s] = [waiting |-> TRUE, gen |-> activeLoop]]
    /\ activeGeneration' = None
    /\ UNCHANGED <<running, generationCounter, activeLoop, slotVars, wakeup, loop,
                   queueVars, current, caller, quiesced>>

\* stopAutoProcessing up to `await stopped.promise`, with a loop to await.
StopAutoCall(s) ==
    /\ ~stopper[s].waiting
    /\ activeLoop # None
    /\ stopper' = [stopper EXCEPT ![s] = [waiting |-> TRUE, gen |-> activeLoop]]
    /\ activeGeneration' = None
    /\ SignalWakeup(loop)
    /\ UNCHANGED <<running, generationCounter, activeLoop, slotVars,
                   unsubscribeQueue, queueVars, current, caller, quiesced>>

\* stopAutoProcessing with no loop to await runs to its end at once.
StopAutoCallNoLoop ==
    /\ activeLoop = None
    /\ activeGeneration' = None
    /\ loop' = IF wakeupResolve = None THEN loop
               ELSE [loop EXCEPT ![wakeupResolve] = "woken"]
    /\ DetachIfInactive(None)
    /\ quiesced' = TRUE
    /\ UNCHANGED <<running, generationCounter, activeLoop, slotVars, queueVars,
                   current, stopper, caller>>

\* Faulty: stopAutoProcessing returns without awaiting the loop.
StopAutoReturnEarly(s) ==
    /\ stopper[s].waiting
    /\ stopper' = [stopper EXCEPT ![s] = [waiting |-> FALSE, gen |-> None]]
    /\ DetachIfInactive(activeGeneration)
    /\ quiesced' = (quiesced \/ stopper[s].gen = generationCounter)
    /\ UNCHANGED <<lifecycle, slotVars, queueVars, loop, current, caller>>

\* The awaited loop returned: stopAutoProcessing continues and returns.
StopAutoReturn(s) ==
    /\ stopper[s].waiting
    /\ loop[stopper[s].gen] = "done"
    /\ stopper' = [stopper EXCEPT ![s] = [waiting |-> FALSE, gen |-> None]]
    /\ DetachIfInactive(activeGeneration)
    /\ quiesced' = (quiesced \/ stopper[s].gen = generationCounter)
    /\ UNCHANGED <<lifecycle, slotVars, queueVars, loop, current, caller>>

\* processNext (or one iteration of drain) called directly: not serialized
\* through the slot; requireRunning rejects it otherwise.
ProcessNextCall(c) ==
    /\ caller[c] = NoJob
    /\ running
    /\ entries # <<>>
    /\ caller' = [caller EXCEPT ![c] = Head(entries)]
    /\ entries' = Tail(entries)
    /\ UNCHANGED <<lifecycle, slotVars, wakeup, submitted, hasOnEnqueue, loop,
                   current, stopper, quiesced>>

\* That call returns its outcome to its caller; rememberSettled is not called.
ProcessNextReturn(c) ==
    /\ caller[c] # NoJob
    /\ caller' = [caller EXCEPT ![c] = NoJob]
    /\ UNCHANGED <<lifecycle, slotVars, wakeup, queueVars, loop, current,
                   stopper, quiesced>>

Next ==
    \/ \E g \in Gens : LoopStep(g)
    \/ \E j \in Jobs : Enqueue(j)
    \/ start
    \/ stop
    \/ StartAgain
    \/ startAutoProcessing
    \/ \E s \in Stoppers : StopAutoCall(s) \/ StopAutoReturn(s)
    \/ StopAutoCallNoLoop
    \/ \E c \in Callers : ProcessNextCall(c) \/ ProcessNextReturn(c)

Spec == Init /\ [][Next]_vars

(***************************************************************************)
(* The event loop runs every continuation that is ready, and the awaited   *)
(* processor settles; the callers of the API promise nothing.              *)
(***************************************************************************)
Fairness ==
    /\ \A g \in Gens : WF_vars(LoopStep(g))
    /\ \A s \in Stoppers : WF_vars(StopAutoReturn(s))

FairSpec == Spec /\ Fairness

-----------------------------------------------------------------------------
(***************************************************************************)
(* Properties.                                                             *)
(***************************************************************************)

(***************************************************************************)
(* However often processing is stopped and restarted while an operation is *)
(* in flight, at most one automatic verification operation (dequeue,       *)
(* processor, store) is active across all generations: runtime.ts lines    *)
(* 192-197 chain every generation behind one slot.                         *)
(***************************************************************************)
AtMostOneOperation ==
    \A g, h \in Gens : Operating(g) /\ Operating(h) => g = h

(***************************************************************************)
(* A loop suspended on a wakeup can always be woken: the one shared        *)
(* wakeupResolve is its own, whichever start, stop or late                 *)
(* stopAutoProcessing continuation last wrote it.                          *)
(***************************************************************************)
ParkedIsWakeable ==
    \A g \in Gens : loop[g] \in {"parked", "delayed"} => wakeupResolve = g

(***************************************************************************)
(* The subscription follows the active generation: an active generation is *)
(* subscribed when the queue can notify, so a late continuation of an      *)
(* older stop never detaches the newer generation's listener.              *)
(***************************************************************************)
ActiveIsSubscribed ==
    hasOnEnqueue /\ activeGeneration # None => unsubscribeQueue

(***************************************************************************)
(* Once a stopAutoProcessing call returned, if no generation started since *)
(* it was called, no automatic operation is in flight, none can begin and  *)
(* no listener is attached (runtime.ts lines 90-96), even if older         *)
(* generations were stopped synchronously and never awaited.               *)
(***************************************************************************)
QuiescentAfterStop ==
    quiesced => /\ activeGeneration = None
                /\ ~unsubscribeQueue
                /\ \A g \in Gens : ~Operating(g)

(***************************************************************************)
(* No lost wakeup: a job in the queue is taken out of it unless automatic  *)
(* processing is stopped; an enqueue that lands between an empty dequeue   *)
(* and the wait is not missed.                                             *)
(***************************************************************************)
QueuedJobIsTaken ==
    \A j \in Jobs :
        (\E i \in 1..Len(entries) : entries[i] = j)
            ~> \/ ~\E i \in 1..Len(entries) : entries[i] = j
               \/ activeGeneration = None
               \/ ~running

(***************************************************************************)
(* Every stopAutoProcessing call returns, whatever is started, stopped or  *)
(* enqueued while it waits.                                                *)
(***************************************************************************)
StopReturns == \A s \in Stoppers : stopper[s].waiting ~> ~stopper[s].waiting

-----------------------------------------------------------------------------
(***************************************************************************)
(* The inductive invariant behind AtMostOneOperation: the chain is ordered *)
(* by generation.                                                          *)
(***************************************************************************)

\* Generations are minted in order; only minted ones have a loop, and only
\* the newest can be active.
GenerationOrder ==
    /\ \A g \in Gens : loop[g] # "none" => g <= generationCounter
    /\ activeGeneration \in {None, generationCounter}

\* Each chained loop waits on the nearest older chained loop, if any.
ChainLinks ==
    \A g \in Gens : InChain(g) =>
        \/ /\ waitsOn[g] = None
           /\ \A h \in Gens : InChain(h) => g <= h
        \/ /\ waitsOn[g] # None
           /\ InChain(waitsOn[g])
           /\ waitsOn[g] < g
           /\ loop[g] = "slot"
           /\ \A h \in Gens : InChain(h) /\ h < g => h <= waitsOn[g]

\* The tail of the chain is the newest chained loop.
ChainTail ==
    \/ /\ processingSlot = None
       /\ \A h \in Gens : ~InChain(h)
    \/ /\ processingSlot # None
       /\ InChain(processingSlot)
       /\ \A h \in Gens : InChain(h) => h <= processingSlot

\* A loop outside the chain holds no link into it.
NoStaleLink ==
    \A g \in Gens : ~InChain(g) => waitsOn[g] = None

SlotChain == GenerationOrder /\ ChainLinks /\ ChainTail /\ NoStaleLink

\* The shared resolver and the suspended loop name each other, and a suspended
\* loop belongs to the active generation.
WakeupOwner ==
    /\ \A g \in Gens : loop[g] \in {"parked", "delayed"} =>
           wakeupResolve = g /\ activeGeneration = g
    /\ wakeupResolve # None => loop[wakeupResolve] \in {"parked", "delayed"}

\* An active generation runs; a generation whose loop returned is not active;
\* the newest unfinished loop is the one activeLoop names; while an older loop
\* is chained, a newer one is still queueing behind it; a stop awaits a loop.
Retirement ==
    /\ \A s \in Stoppers : stopper[s].waiting => stopper[s].gen \in Gens
    /\ activeGeneration # None => running
    /\ \A g \in Gens : loop[g] = "done" => activeGeneration # g
    /\ \A g \in Gens : g = generationCounter /\ loop[g] # "done" => activeLoop = g
    /\ \A g, h \in Gens : h < g /\ InChain(h) => loop[g] \in {"none", "slot"}

(***************************************************************************)
(* The inductive invariant: the slot chain is a queue ordered by           *)
(* generation whose head alone may operate, the shared resolver belongs to *)
(* the one loop that waits, and retired generations stay retired.          *)
(***************************************************************************)
IInv ==
    /\ SlotChain
    /\ WakeupOwner
    /\ Retirement
    /\ ActiveIsSubscribed
    /\ QuiescentAfterStop
=============================================================================
