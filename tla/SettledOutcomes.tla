--------------------------- MODULE SettledOutcomes ---------------------------
(***************************************************************************)
(* Waiting for a queue job's outcome: rememberSettled and waitForQueueJob  *)
(* of apps/worker/src/runtime.ts.                                          *)
(*                                                                         *)
(* The automatic loop remembers each outcome in a bounded map and resolves *)
(* the waiters of the job; a waiter has a timer.  A durable queue hands a  *)
(* failed job out again, so a job may settle several times.  A direct call *)
(* of processNext settles a job without being remembered, and the map dies *)
(* with the process while the registry survives.                           *)
(*                                                                         *)
(* A definition marked "Faulty" takes no part in the specification: it is  *)
(* a plausible mistake in the operator after it, with which one of the     *)
(* properties must fail.                                                   *)
(***************************************************************************)
EXTENDS Naturals, Sequences, FiniteSets

CONSTANTS
    Jobs,         \* queue jobs
    Waiters,      \* calls of waitForQueueJob
    NoJob,        \* not a job
    MaxRecent,    \* MAX_RECENT_SETTLED
    MaxRestarts   \* bound on restarts of the process

ASSUME SettledAssumption ==
    /\ NoJob \notin Jobs
    /\ MaxRecent \in Nat \ {0}
    /\ MaxRestarts \in Nat

VARIABLES
    inHand,      \* the outcome the automatic processNext returned, until
                 \* runLoop remembers it
    recent,      \* recentSettled in insertion order
    waiter,      \* the job of each call and what became of the call
    registered,  \* jobs with a completed result in the registry
    last,        \* history: outcome of each job's last remembered settling
    restarts     \* restarts so far

vars == <<inHand, recent, waiter, registered, last, restarts>>

Outcomes == {"completed", "failed"}

NoOutcome == [job |-> NoJob, kind |-> "none"]

TypeOK ==
    /\ inHand \in [job : Jobs, kind : Outcomes] \cup {NoOutcome}
    /\ recent \in Seq([job : Jobs, kind : Outcomes]) /\ Len(recent) <= MaxRecent
    /\ waiter \in [Waiters -> [job : Jobs \cup {NoJob},
                               is : Outcomes \cup {"idle", "waiting", "timeout"}]]
    /\ registered \in SUBSET Jobs
    /\ last \in [Jobs -> Outcomes \cup {"none"}]
    /\ restarts \in 0..MaxRestarts

Idle == [job |-> NoJob, is |-> "idle"]

Init ==
    /\ inHand = NoOutcome
    /\ recent = <<>>
    /\ waiter = [w \in Waiters |-> Idle]
    /\ registered = {}
    /\ last = [j \in Jobs |-> "none"]
    /\ restarts = 0

Remembered(j) == {i \in 1..Len(recent) : recent[i].job = j}

\* Faulty: the first outcome of a job is kept.
RememberFirst(j, kind) ==
    LET set == IF Remembered(j) # {} THEN recent
               ELSE Append(recent, [job |-> j, kind |-> kind])
    IN IF Len(set) > MaxRecent THEN Tail(set) ELSE set

\* recentSettled.set, in place for a key it has, then drop the oldest beyond
\* the bound.
Remember(j, kind) ==
    LET set == IF Remembered(j) # {}
               THEN [i \in 1..Len(recent) |->
                        IF recent[i].job = j THEN [job |-> j, kind |-> kind]
                        ELSE recent[i]]
               ELSE Append(recent, [job |-> j, kind |-> kind])
    IN IF Len(set) > MaxRecent THEN Tail(set) ELSE set

Waiting(j) == {w \in Waiters : waiter[w] = [job |-> j, is |-> "waiting"]}

\* The registry has the result of a completed job before it settles; a
\* completed job is acknowledged and never settles again.
Register(j, kind) ==
    /\ j \notin registered
    /\ registered' = IF kind = "completed" THEN registered \cup {j} ELSE registered

\* processNext of the automatic loop has its outcome; the loop's continuation
\* is yet to run.
Finish(j, kind) ==
    /\ inHand = NoOutcome
    /\ Register(j, kind)
    /\ inHand' = [job |-> j, kind |-> kind]
    /\ UNCHANGED <<recent, waiter, last, restarts>>

\* Faulty: one waiter of the job is resolved, not all.
SettleOneWaiter(j, kind) ==
    /\ inHand = [job |-> j, kind |-> kind]
    /\ inHand' = NoOutcome
    /\ recent' = Remember(j, kind)
    /\ waiter' = IF Waiting(j) = {} THEN waiter
                 ELSE [waiter EXCEPT ![CHOOSE w \in Waiting(j) : TRUE] =
                          [job |-> j, is |-> kind]]
    /\ last' = [last EXCEPT ![j] = kind]
    /\ UNCHANGED <<registered, restarts>>

\* rememberSettled.
Settle(j, kind) ==
    /\ inHand = [job |-> j, kind |-> kind]
    /\ inHand' = NoOutcome
    /\ recent' = Remember(j, kind)
    /\ waiter' = [w \in Waiters |->
                     IF w \in Waiting(j) THEN [job |-> j, is |-> kind] ELSE waiter[w]]
    /\ last' = [last EXCEPT ![j] = kind]
    /\ UNCHANGED <<registered, restarts>>

\* A direct processNext returns its outcome to its caller only.
SettleDirectly(j, kind) ==
    /\ Register(j, kind)
    /\ UNCHANGED <<inHand, recent, waiter, last, restarts>>

\* waitForQueueJob: a remembered outcome resolves at once, else register.
Wait(w, j) ==
    /\ waiter[w].is = "idle"
    /\ waiter' = [waiter EXCEPT ![w] =
                     [job |-> j,
                      is |-> IF Remembered(j) = {} THEN "waiting"
                             ELSE recent[CHOOSE i \in Remembered(j) : TRUE].kind]]
    /\ UNCHANGED <<inHand, recent, registered, last, restarts>>

\* The waiter's timer fires: it is unregistered and rejected.
Timeout(w) ==
    /\ waiter[w].is = "waiting"
    /\ waiter' = [waiter EXCEPT ![w].is = "timeout"]
    /\ UNCHANGED <<inHand, recent, registered, last, restarts>>

\* The caller takes the outcome or the rejection.
Return(w) ==
    /\ waiter[w].is \notin {"idle", "waiting"}
    /\ waiter' = [waiter EXCEPT ![w] = Idle]
    /\ UNCHANGED <<inHand, recent, registered, last, restarts>>

\* The process restarts over the durable registry.
Restart ==
    /\ restarts < MaxRestarts
    /\ restarts' = restarts + 1
    /\ inHand' = NoOutcome
    /\ recent' = <<>>
    /\ waiter' = [w \in Waiters |-> Idle]
    /\ last' = [j \in Jobs |-> "none"]
    /\ UNCHANGED registered

Next ==
    \/ \E j \in Jobs, kind \in Outcomes :
           Finish(j, kind) \/ Settle(j, kind) \/ SettleDirectly(j, kind)
    \/ \E w \in Waiters : Timeout(w) \/ Return(w) \/ \E j \in Jobs : Wait(w, j)
    \/ Restart

Spec == Init /\ [][Next]_vars

-----------------------------------------------------------------------------
(***************************************************************************)
(* Properties.                                                             *)
(***************************************************************************)

(***************************************************************************)
(* No waiter misses its job: a call is left waiting only for a job whose   *)
(* outcome the runtime does not remember, whichever of the settling, the   *)
(* call, the eviction of old outcomes and other waiters came first.        *)
(***************************************************************************)
NoMissedOutcome == \A j \in Jobs : Waiting(j) # {} => Remembered(j) = {}

\* What the runtime remembers of a job is its last settling.
RemembersLast == \A i \in 1..Len(recent) : recent[i].kind = last[recent[i].job]

(***************************************************************************)
(* The types, with the bound on what is remembered, and that a retry that  *)
(* completed is not hidden behind the failure before it, also when the     *)
(* bound evicted the outcomes between the two.                             *)
(***************************************************************************)
Inv == TypeOK /\ RemembersLast
=============================================================================
