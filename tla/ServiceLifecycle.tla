-------------------------- MODULE ServiceLifecycle --------------------------
(***************************************************************************)
(* start, stop and close of the composed service,                          *)
(* apps/api/src/github-verification-service.ts: single-flight transitions  *)
(* over the runtime, the HTTP server, the comment publisher's subscription *)
(* and the SQLite stores.                                                  *)
(*                                                                         *)
(* Callers of the three operations overlap.  An action is a stretch of     *)
(* code between two awaits; when a transition's promise settles, the calls *)
(* that await it continue before any caller's own code does, so settling a *)
(* transition and waking its callers is one action.                        *)
(*                                                                         *)
(* The runtime is reduced to what the service sees of JobRuntime: whether  *)
(* automatic processing is active, whether it is running, and whether an   *)
(* operation is in flight, for which stopAutoProcessing waits.             *)
(*                                                                         *)
(* A definition marked "Faulty" takes no part in the specification: it is  *)
(* a plausible mistake in the operator after it, with which one of the     *)
(* properties must fail.                                                   *)
(***************************************************************************)
EXTENDS Naturals, FiniteSets

CONSTANTS
    Callers,   \* concurrent callers of start, stop and close
    CanClose   \* whether callers use close as well as stop

ASSUME LifecycleAssumption == CanClose \in BOOLEAN

VARIABLES
    accepting,    \* let accepting
    started,      \* let started
    listening,    \* server.listening
    subscribed,   \* whether commentPublisherUnsubscribe is non-null
    auto,         \* the runtime has an active generation
    running,      \* the runtime's running
    operation,    \* the runtime has a job between dequeue and outcome
    storesOpen,   \* the queue and registry databases are open
    startup,      \* startupTransition: where it is, "none" for null
    shutdown,     \* shutdownTransition: where it is, "none" for null
    closing,      \* the shutdown transition is close's
    caller,       \* what each caller awaits
    overtaken     \* history: the waiting starts that were called before a stop
                  \* or close that joined the shutdown they wait for

service == <<accepting, started, listening, subscribed>>
runtime == <<auto, running, operation>>
transitions == <<startup, shutdown, closing>>
vars == <<service, runtime, storesOpen, transitions, caller, overtaken>>

TypeOK ==
    /\ accepting \in BOOLEAN /\ started \in BOOLEAN
    /\ listening \in BOOLEAN /\ subscribed \in BOOLEAN
    /\ auto \in BOOLEAN /\ running \in BOOLEAN /\ operation \in BOOLEAN
    /\ storesOpen \in BOOLEAN
    /\ startup \in {"none", "binding", "unwinding"}
    /\ shutdown \in {"none", "joining", "draining", "closing"}
    /\ closing \in BOOLEAN
    /\ caller \in [Callers -> {"idle", "waiting", "starting", "stopping"}]
    /\ overtaken \in SUBSET Callers

Init ==
    /\ accepting = FALSE /\ started = FALSE
    /\ listening = FALSE /\ subscribed = FALSE
    /\ auto = FALSE /\ running = FALSE /\ operation = FALSE
    /\ storesOpen = TRUE
    /\ startup = "none" /\ shutdown = "none" /\ closing = FALSE
    /\ caller = [c \in Callers |-> "idle"]
    /\ overtaken = {}

-----------------------------------------------------------------------------
(***************************************************************************)
(* The runtime.  On closed databases dequeue rejects and runLoop continues *)
(* at once: its microtasks leave no room for any other callback.           *)
(***************************************************************************)
Spinning == auto /\ ~storesOpen

Spin ==
    /\ Spinning
    /\ UNCHANGED vars

\* The loop takes a job from the queue.
OperationBegins ==
    /\ auto /\ running /\ ~operation /\ ~Spinning
    /\ operation' = TRUE
    /\ UNCHANGED <<service, auto, running, storesOpen, transitions, caller,
                   overtaken>>

\* The job is completed or failed, its outcome delivered.
OperationEnds ==
    /\ operation /\ ~Spinning
    /\ operation' = FALSE
    /\ UNCHANGED <<service, auto, running, storesOpen, transitions, caller,
                   overtaken>>

-----------------------------------------------------------------------------
(***************************************************************************)
(* start                                                                   *)
(***************************************************************************)

\* The startup transition up to its await of the bind.
BeginStartup ==
    /\ accepting' = TRUE
    /\ auto' = TRUE
    /\ running' = TRUE
    /\ subscribed' = TRUE
    /\ startup' = "binding"

\* start() called during a shutdown: join it first.
StartWaits(c) ==
    /\ caller[c] = "idle" /\ ~Spinning
    /\ shutdown # "none"
    /\ caller' = [caller EXCEPT ![c] = "waiting"]
    /\ UNCHANGED <<service, runtime, storesOpen, transitions, overtaken>>

\* start() called while a startup is in flight: join it.
StartJoins(c) ==
    /\ caller[c] = "idle" /\ ~Spinning
    /\ shutdown = "none" /\ ~started /\ startup # "none"
    /\ caller' = [caller EXCEPT ![c] = "starting"]
    /\ UNCHANGED <<service, runtime, storesOpen, transitions, overtaken>>

\* start() called on a stopped service.
Start(c) ==
    /\ caller[c] = "idle" /\ ~Spinning
    /\ shutdown = "none" /\ ~started /\ startup = "none"
    /\ BeginStartup
    /\ caller' = [caller EXCEPT ![c] = "starting"]
    /\ UNCHANGED <<started, listening, operation, storesOpen, shutdown,
                   closing, overtaken>>

\* The startup transition settles: its callers return or throw.
EndStartup ==
    /\ startup' = "none"
    /\ caller' = [c \in Callers |->
                     IF caller[c] = "starting" THEN "idle" ELSE caller[c]]

\* The server listens.
BindSucceeds ==
    /\ startup = "binding" /\ ~Spinning
    /\ listening' = TRUE
    /\ started' = TRUE
    /\ EndStartup
    /\ UNCHANGED <<accepting, subscribed, runtime, storesOpen, shutdown,
                   closing, overtaken>>

\* Faulty: the catch block leaves the comment publisher attached.
BindFailsAttached ==
    /\ startup = "binding" /\ ~Spinning
    /\ accepting' = FALSE
    /\ started' = FALSE
    /\ auto' = FALSE
    /\ startup' = "unwinding"
    /\ UNCHANGED <<listening, subscribed, running, operation, storesOpen,
                   shutdown, closing, caller, overtaken>>

\* The bind fails: the catch block up to its await of stopAutoProcessing.
BindFails ==
    /\ startup = "binding" /\ ~Spinning
    /\ subscribed' = FALSE
    /\ accepting' = FALSE
    /\ started' = FALSE
    /\ auto' = FALSE
    /\ startup' = "unwinding"
    /\ UNCHANGED <<listening, running, operation, storesOpen, shutdown,
                   closing, caller, overtaken>>

\* The loop has exited: stop the runtime and rethrow the bind error.
StartupUnwound ==
    /\ startup = "unwinding" /\ ~operation
    /\ running' = FALSE
    /\ EndStartup
    /\ UNCHANGED <<service, auto, operation, storesOpen, shutdown, closing,
                   overtaken>>

-----------------------------------------------------------------------------
(***************************************************************************)
(* stop and close                                                          *)
(***************************************************************************)

\* The shutdown transition up to its await of stopAutoProcessing.
BeginDrain ==
    /\ accepting' = FALSE
    /\ subscribed' = FALSE
    /\ auto' = FALSE
    /\ shutdown' = "draining"

\* stop() or close() while any shutdown is in flight: join it, whatever its kind.
StopJoins(c) ==
    /\ caller[c] = "idle" /\ ~Spinning
    /\ shutdown # "none"
    /\ caller' = [caller EXCEPT ![c] = "stopping"]
    /\ overtaken' = overtaken \cup {w \in Callers : caller[w] = "waiting"}
    /\ UNCHANGED <<service, runtime, storesOpen, transitions>>

\* stop() (close is FALSE) or close() begins the shutdown transition, which
\* joins a startup in flight first.
Stop(c, close) ==
    /\ caller[c] = "idle" /\ ~Spinning
    /\ shutdown = "none"
    /\ close => CanClose
    /\ closing' = close
    /\ caller' = [caller EXCEPT ![c] = "stopping"]
    /\ \/ /\ startup # "none"
          /\ shutdown' = "joining"
          /\ UNCHANGED <<accepting, subscribed, auto>>
       \/ /\ startup = "none"
          /\ BeginDrain
    /\ UNCHANGED <<started, listening, running, operation, storesOpen,
                   startup, overtaken>>

\* The joined startup settled: the shutdown goes on.
ShutdownResumes ==
    /\ shutdown = "joining" /\ startup = "none" /\ ~Spinning
    /\ BeginDrain
    /\ UNCHANGED <<started, listening, running, operation, storesOpen,
                   startup, closing, caller, overtaken>>

\* Faulty: the stores are closed without waiting for the job in flight.
DrainedEarly ==
    /\ shutdown = "draining"
    /\ closing => storesOpen
    /\ running' = FALSE
    /\ storesOpen' = (storesOpen /\ ~closing)
    /\ started' = FALSE
    /\ listening' = FALSE
    /\ shutdown' = "closing"
    /\ UNCHANGED <<accepting, subscribed, auto, operation, startup, closing,
                   caller, overtaken>>

\* The loop has exited: stop the runtime, close the stores in close(), reset
\* started and close the server, up to the await of its callback.
Drained ==
    /\ shutdown = "draining" /\ ~operation
    /\ closing => storesOpen
    /\ running' = FALSE
    /\ storesOpen' = (storesOpen /\ ~closing)
    /\ started' = FALSE
    /\ listening' = FALSE
    /\ shutdown' = "closing"
    /\ UNCHANGED <<accepting, subscribed, auto, operation, startup, closing,
                   caller, overtaken>>

\* A second close(): closing a closed database throws and the transition
\* rejects, together with every call that joined it.
SecondCloseThrows ==
    /\ shutdown = "draining" /\ ~operation
    /\ closing /\ ~storesOpen
    /\ running' = FALSE
    /\ shutdown' = "none"
    /\ caller' = [c \in Callers |->
                     IF caller[c] \in {"waiting", "stopping"} THEN "idle"
                     ELSE caller[c]]
    /\ overtaken' = {}
    /\ UNCHANGED <<service, auto, operation, storesOpen, startup, closing>>

\* Faulty: the starts that joined the shutdown are not continued.
ShutdownForgetsStarts ==
    /\ shutdown = "closing"
    /\ shutdown' = "none"
    /\ caller' = [c \in Callers |->
                     IF caller[c] = "stopping" THEN "idle" ELSE caller[c]]
    /\ overtaken' = {}
    /\ UNCHANGED <<service, runtime, storesOpen, startup, closing>>

\* The server's connections have ended.  The shutdown's callers return; the
\* starts that waited go on: the first begins a startup, the others join it.
ShutdownCompletes ==
    /\ shutdown = "closing"
    /\ shutdown' = "none"
    /\ caller' = [c \in Callers |->
                     CASE caller[c] = "stopping" -> "idle"
                       [] caller[c] = "waiting" -> "starting"
                       [] OTHER -> caller[c]]
    /\ IF \E c \in Callers : caller[c] = "waiting"
       THEN BeginStartup
       ELSE UNCHANGED <<accepting, auto, running, subscribed, startup>>
    /\ overtaken' = {}
    /\ UNCHANGED <<started, listening, operation, storesOpen, closing>>

StartupStep == BindSucceeds \/ BindFails \/ StartupUnwound

ShutdownStep ==
    ShutdownResumes \/ Drained \/ SecondCloseThrows \/ ShutdownCompletes

Next ==
    \/ Spin \/ OperationBegins \/ OperationEnds
    \/ \E c \in Callers : StartWaits(c) \/ StartJoins(c) \/ Start(c)
    \/ StartupStep
    \/ \E c \in Callers : StopJoins(c) \/ \E close \in BOOLEAN : Stop(c, close)
    \/ ShutdownStep

Spec == Init /\ [][Next]_vars

(***************************************************************************)
(* Jobs settle, the server reports the outcome of the bind and the end of  *)
(* its connections; callers of the operations promise nothing.             *)
(***************************************************************************)
FairSpec ==
    /\ Spec
    /\ WF_vars(OperationEnds) /\ WF_vars(StartupStep) /\ WF_vars(ShutdownStep)

-----------------------------------------------------------------------------
(***************************************************************************)
(* Properties.                                                             *)
(***************************************************************************)

Steady == startup = "none" /\ shutdown = "none"

(***************************************************************************)
(* Whatever calls overlapped, a started service with no transition in      *)
(* flight serves: webhooks are accepted, the server listens, the runtime   *)
(* consumes and outcomes reach the comment publisher.                      *)
(***************************************************************************)
StartedIsServing ==
    Steady /\ started =>
        accepting /\ listening /\ subscribed /\ auto /\ running

(***************************************************************************)
(* ... and a service that is not started, after a stop, a close or a       *)
(* failed bind, left no background work behind                             *)
(* (github-verification-service.ts lines 366-370).                         *)
(***************************************************************************)
StoppedIsQuiet ==
    Steady /\ ~started =>
        ~accepting /\ ~listening /\ ~subscribed /\ ~auto /\ ~running /\ ~operation

(***************************************************************************)
(* Whatever calls overlapped, the service comes to rest serving in full or *)
(* without any background work, never between the two.                     *)
(***************************************************************************)
AtRest == StartedIsServing /\ StoppedIsQuiet

(***************************************************************************)
(* A shutdown never works beside a startup: it joins it first, and a start *)
(* joins the shutdown (lines 224-229).                                     *)
(***************************************************************************)
TransitionsExclude == startup # "none" => shutdown \in {"none", "joining"}

(***************************************************************************)
(* close() closes the databases only after the job in flight was settled:  *)
(* no operation runs on closed stores.                                     *)
(***************************************************************************)
NoOperationOnClosedStores == operation => storesOpen

(***************************************************************************)
(* Starts that wait for a stop and stops that wait for a start never wait  *)
(* for each other: every call of start, stop and close returns, unless a   *)
(* start after close() made the loop spin over the closed databases, which *)
(* nothing reopens (lines 458-459).                                        *)
(***************************************************************************)
CallsReturn ==
    \A c \in Callers : caller[c] # "idle" ~> caller[c] = "idle" \/ Spinning

(***************************************************************************)
(* Lines 227-229: a completed stop or close is never followed by a stale   *)
(* startup continuation resurrecting the service.  When a shutdown         *)
(* completes, no start goes on that was called before a stop that returns. *)
(***************************************************************************)
NeverResurrected ==
    [][shutdown = "closing" /\ startup' = "binding" => overtaken = {}]_vars

-----------------------------------------------------------------------------
(***************************************************************************)
(* The inductive invariant: what is up at each point of the transitions.   *)
(***************************************************************************)
Serving == accepting /\ listening /\ subscribed /\ auto /\ running /\ storesOpen

Quiet == ~accepting /\ ~listening /\ ~subscribed /\ ~auto /\ ~running /\ ~operation

\* A startup in flight works on a service that is down.
StartupInvariant ==
    /\ startup = "binding" =>
           ~started /\ ~listening /\ accepting /\ subscribed /\ auto /\ running
    /\ startup = "unwinding" =>
           ~started /\ ~listening /\ ~accepting /\ ~subscribed /\ ~auto

\* A shutdown that drains has taken down what admits new work.
ShutdownInvariant ==
    /\ shutdown = "draining" => ~accepting /\ ~subscribed /\ ~auto
    /\ shutdown = "draining" /\ ~started => ~listening
    /\ shutdown = "draining" /\ ~storesOpen => ~started
    /\ shutdown = "closing" => ~started /\ Quiet

\* Between transitions, or while a shutdown is about to begin.
RestInvariant ==
    startup = "none" /\ shutdown \in {"none", "joining"} =>
        IF started THEN Serving ELSE Quiet

(***************************************************************************)
(* The invariant from which a started service serves and a stopped one is  *)
(* quiet.                                                                  *)
(***************************************************************************)
IInv ==
    /\ TransitionsExclude
    /\ NoOperationOnClosedStores
    /\ StartupInvariant
    /\ ShutdownInvariant
    /\ RestInvariant
=============================================================================
