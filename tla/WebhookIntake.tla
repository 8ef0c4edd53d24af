---------------------------- MODULE WebhookIntake ----------------------------
(***************************************************************************)
(* GitHub webhook intake: handleGitHubWebhookHttpRequest and the in-memory *)
(* replay guard of apps/github-bot/src/webhook.ts, with the orchestrator   *)
(* of verification-orchestrator.ts that enqueues the verification job.     *)
(*                                                                         *)
(* A request is modelled from the point where its body was collected and   *)
(* its headers and signature accepted: nothing before that changes state.  *)
(* From there the handler runs without interruption through reserve, the   *)
(* payload's mapping, the decision and the call of queue.enqueue, which    *)
(* inserts before it returns; then it awaits, and other requests run until *)
(* it settles.  The two clocks of the code (Date.now at commit and at      *)
(* prune) become a countdown of ticks.                                     *)
(*                                                                         *)
(* The names every specification has carry the prefix Intake, so that      *)
(* one module of proofs can extend this one beside others.                 *)
(*                                                                         *)
(* A definition marked "Faulty" takes no part in the specification: it is  *)
(* a plausible mistake in the operator after it, with which one of the     *)
(* properties must fail.                                                   *)
(***************************************************************************)
EXTENDS Naturals, FiniteSets

CONSTANTS
    Deliveries,   \* X-GitHub-Delivery identities
    Irrelevant,   \* deliveries whose event is decided as "ignore"
    Requests,     \* concurrent webhook requests
    NoDelivery,   \* not a delivery
    MaxEntries,   \* options.maxEntries of the replay guard
    Ttl,          \* options.ttlMs, in ticks
    MaxJobs       \* bound on the jobs enqueued for one delivery

ASSUME IntakeAssumption ==
    /\ Irrelevant \subseteq Deliveries
    /\ NoDelivery \notin Deliveries
    /\ MaxEntries \in Nat \ {0}
    /\ Ttl \in Nat \ {0}
    /\ MaxJobs \in Nat \ {0}

VARIABLES
    guard,    \* the replay guard's Map: the entry of each delivery; left is
              \* the time before a committed entry expires
    newer,    \* its insertion order: <<d, e>> if d was inserted after e
    request,  \* where each request is, with its delivery
    jobs,     \* jobs enqueued per delivery
    window,   \* history: time left since the last commit of an enqueue
    evicted   \* history: deliveries the guard dropped at its limit

intakeVars == <<guard, newer, request, jobs, window, evicted>>

GuardEntry == [is : {"absent", "reserved", "committed"}, left : 0..Ttl]
HandlerOutcomes == {"enqueued", "ignored", "failed"}

IntakeTypeOK ==
    /\ guard \in [Deliveries -> GuardEntry]
    /\ newer \subseteq Deliveries \X Deliveries
    /\ request \in [Requests -> [at : HandlerOutcomes \cup {"idle"},
                                 id : Deliveries \cup {NoDelivery}]]
    /\ jobs \in [Deliveries -> 0..MaxJobs]
    /\ window \in [Deliveries -> 0..Ttl]
    /\ evicted \in SUBSET Deliveries

IdleRequest == [at |-> "idle", id |-> NoDelivery]
Absent == [is |-> "absent", left |-> 0]
Reservation == [is |-> "reserved", left |-> 0]
Consumed == [is |-> "committed", left |-> Ttl]

IntakeInit ==
    /\ guard = [d \in Deliveries |-> Absent]
    /\ newer = {}
    /\ request = [r \in Requests |-> IdleRequest]
    /\ jobs = [d \in Deliveries |-> 0]
    /\ window = [d \in Deliveries |-> 0]
    /\ evicted = {}

-----------------------------------------------------------------------------
(***************************************************************************)
(* The replay guard.                                                       *)
(***************************************************************************)
Held == {d \in Deliveries : guard[d].is # "absent"}

\* Faulty: a reservation counts as expired.
UnexpiredByTime == {d \in Held : guard[d].left > 0}

\* What has not expired; a reservation does not expire.
Unexpired == {d \in Held : guard[d].is = "reserved" \/ guard[d].left > 0}

\* prune: expired entries go, then the oldest ones beyond maxEntries, reserved
\* or not.
Kept == {d \in Unexpired : Cardinality({e \in Unexpired : <<e, d>> \in newer}) < MaxEntries}

Pruned == [d \in Deliveries |-> IF d \in Kept THEN guard[d] ELSE Absent]

Evicts == evicted' = evicted \cup (Unexpired \ Kept)

\* The order of those that stay.
Among(stay) == newer \cap (stay \X stay)

\* Faulty: commit forgets the delivery, as rollback does.
CommittedByRemoval(d) == [guard EXCEPT ![d] = Absent]

\* commit: a reserved entry starts its time to live in place.
Committed(d) ==
    IF guard[d].is = "reserved" THEN [guard EXCEPT ![d] = Consumed] ELSE guard

\* Faulty: rollback leaves the reservation to expire like a commit.
RolledBackAsCommit(d) == Committed(d)

\* Faulty: rollback takes the entry for its own reservation.
RolledBackUnchecked(d) == [guard EXCEPT ![d] = Absent]

\* rollback: a reserved entry goes.
RolledBack(d) ==
    IF guard[d].is = "reserved" THEN [guard EXCEPT ![d] = Absent] ELSE guard

-----------------------------------------------------------------------------
(***************************************************************************)
(* The handler.                                                            *)
(***************************************************************************)

\* size() and isReplay() prune as well.
Prune ==
    /\ guard' = Pruned /\ newer' = Among(Kept) /\ Evicts
    /\ UNCHANGED <<request, jobs, window>>

\* reserve returns false: 409, and the pruned map stays.
Refuse(d) ==
    /\ d \in Kept
    /\ Prune

\* The decision and the enqueue of a reserved delivery.
Outcome(d, o) ==
    \/ /\ o = "enqueued" /\ d \notin Irrelevant
       /\ jobs[d] < MaxJobs
       /\ jobs' = [jobs EXCEPT ![d] = @ + 1]
    \/ /\ o = "ignored" /\ d \in Irrelevant
       /\ UNCHANGED jobs
    \/ /\ o = "failed"       \* the payload does not map, or enqueue throws
       /\ UNCHANGED jobs

\* reserve returns true; the handler runs on to its await.
Accept(r, d, o) ==
    /\ request[r].at = "idle"
    /\ d \notin Kept
    /\ guard' = [Pruned EXCEPT ![d] = Reservation]
    /\ newer' = Among(Kept) \cup ({d} \X Kept)
    /\ Evicts
    /\ Outcome(d, o)
    /\ request' = [request EXCEPT ![r] = [at |-> o, id |-> d]]
    /\ UNCHANGED window

\* The await continues: commit and 202, or rollback and an error response.
SettleRequest(r) ==
    /\ request[r].at # "idle"
    /\ LET d == request[r].id
           ok == request[r].at # "failed"
       IN /\ guard' = IF ok THEN Committed(d) ELSE RolledBack(d)
          /\ newer' = Among({e \in Deliveries : guard'[e].is # "absent"})
          /\ window' = IF request[r].at = "enqueued"
                       THEN [window EXCEPT ![d] = Ttl] ELSE window
    /\ request' = [request EXCEPT ![r] = IdleRequest]
    /\ UNCHANGED <<jobs, evicted>>

Less(n) == IF n = 0 THEN 0 ELSE n - 1

\* Time passes.
Tick ==
    /\ guard' = [d \in Deliveries |-> [guard[d] EXCEPT !.left = Less(@)]]
    /\ window' = [d \in Deliveries |-> Less(window[d])]
    /\ UNCHANGED <<newer, request, jobs, evicted>>

IntakeNext ==
    \/ \E d \in Deliveries : Refuse(d)
    \/ \E r \in Requests, d \in Deliveries, o \in HandlerOutcomes : Accept(r, d, o)
    \/ \E r \in Requests : SettleRequest(r)
    \/ Prune
    \/ Tick

IntakeSpec == IntakeInit /\ [][IntakeNext]_intakeVars

-----------------------------------------------------------------------------
(***************************************************************************)
(* Properties.                                                             *)
(***************************************************************************)

InFlight(d) == {r \in Requests : request[r].at # "idle" /\ request[r].id = d}

(***************************************************************************)
(* Replay protection: however a redelivery overlaps the first delivery, it *)
(* enqueues no second job while the first is in flight or its window is    *)
(* open, unless the guard dropped the delivery at its limit.               *)
(***************************************************************************)
NoSecondJobInWindow ==
    [][\A d \in Deliveries : jobs'[d] > jobs[d] /\ d \notin evicted'
          => window[d] = 0 /\ InFlight(d) = {}]_intakeVars

(***************************************************************************)
(* webhook.ts lines 58-64: reserve refuses a delivery that is reserved, so *)
(* that no two requests coordinate on one reservation; and no request      *)
(* loses its reservation before it settles, unless it is dropped at the    *)
(* limit.                                                                  *)
(***************************************************************************)
OneRequestPerDelivery ==
    \A d \in Deliveries \ evicted :
        /\ Cardinality(InFlight(d)) <= 1
        /\ InFlight(d) # {} => guard[d].is = "reserved"

\* However many reservations there are at once, the guard holds no more than its
\* limit and the one being made (webhook.ts lines 87-91 and 120-127).
GuardIsBounded == Cardinality(Held) <= MaxEntries + 1

\* The types, the limit of the guard, and one request for each reservation.
IntakeInv == IntakeTypeOK /\ GuardIsBounded /\ OneRequestPerDelivery

(***************************************************************************)
(* A failed handoff stays retryable: the guard refuses a delivery only     *)
(* while a request handles it or after it was handled (a job enqueued, or  *)
(* an event to ignore), even when reservations are evicted at the limit    *)
(* and two requests commit and roll back the same delivery.                *)
(***************************************************************************)
RefusedOnlyIfHandled ==
    \A d \in Held :
        \/ InFlight(d) # {}
        \/ guard[d].is = "committed" /\ (d \in Irrelevant \/ jobs[d] > 0)

(***************************************************************************)
(* An eviction lets two requests coordinate one delivery.  What one of     *)
(* them committed, the other one's rollback does not remove, nor does its  *)
(* commit prolong it: a window that is open ends by time or at the limit   *)
(* (webhook.ts lines 129-140).                                             *)
(***************************************************************************)
WindowsStayOpen ==
    [][\A d \in Deliveries : guard[d].is = "committed" /\ guard[d].left > 0 =>
          \/ guard'[d].is = "committed" /\ guard'[d].left <= guard[d].left
          \/ d \in Unexpired \ Kept]_intakeVars
=============================================================================
