------------------------- MODULE BoundedMemoriesProofs -------------------------
(***************************************************************************)
(* Three memories of the program that are bounded and must not mislead     *)
(* whoever asks them, for any bound and any number of clients.             *)
(*                                                                         *)
(* SettledOutcomes: no caller of waitForQueueJob waits for a job whose     *)
(* outcome is remembered, and what is remembered of a job is its last      *)
(* outcome.                                                                *)
(*                                                                         *)
(* WebhookIntake: the replay guard stays within its limit, one request     *)
(* coordinates a delivery, a failed handoff stays retryable and a          *)
(* redelivery enqueues no second job.                                      *)
(*                                                                         *)
(* ResultRegistry: its indexes describe the same results, at most the      *)
(* limit of them, and its file brings back those it retains and no other.  *)
(***************************************************************************)
EXTENDS SettledOutcomes, WebhookIntake, ResultRegistry, TLAPS, SequenceTheorems,
        FiniteSetTheorems, WellFoundedInduction

\* What the proof needs to know of the types.
RecentTypes == recent \in Seq([job : Jobs, kind : Outcomes])

Calls == waiter \in [Waiters -> [job : Jobs \cup {NoJob},
                                 is : Outcomes \cup {"idle", "waiting", "timeout"}]]

\* A function on 1..n is a sequence of length n.
LEMMA FunctionIsSequence ==
  ASSUME NEW S, NEW n \in Nat, NEW f \in [1..n -> S]
  PROVE  f \in Seq(S) /\ Len(f) = n
  OBVIOUS

(***************************************************************************)
(* Remembering an outcome keeps the map one of outcomes and within its     *)
(* bound; it holds the new outcome and, of other jobs, what it held before *)
(* (runtime.ts lines 247-252).                                             *)
(***************************************************************************)
LEMMA RememberEffect ==
  ASSUME RecentTypes, NEW j \in Jobs, NEW kind \in Outcomes
  PROVE  /\ Remember(j, kind) \in Seq([job : Jobs, kind : Outcomes])
         /\ Len(recent) <= MaxRecent => Len(Remember(j, kind)) <= MaxRecent
         /\ \A i \in 1..Len(Remember(j, kind)) :
               \/ Remember(j, kind)[i] = [job |-> j, kind |-> kind]
               \/ \E k \in 1..Len(recent) : recent[k].job # j /\ recent[k] = Remember(j, kind)[i]
  <1> DEFINE Known == [job : Jobs, kind : Outcomes]
             new == [job |-> j, kind |-> kind]
             set == IF Remembered(j) # {}
                    THEN [i \in 1..Len(recent) |->
                             IF recent[i].job = j THEN new ELSE recent[i]]
                    ELSE Append(recent, new)
  <1>1. new \in Known
    OBVIOUS
  <1>2. /\ set \in Seq(Known) /\ Len(recent) \in Nat
        /\ Len(set) <= Len(recent) + 1
        /\ \A i \in 1..Len(set) : \/ set[i] = new
                                  \/ \E k \in 1..Len(recent) : recent[k].job # j /\ recent[k] = set[i]
    <2>1. CASE Remembered(j) # {}
      <3>1. set = [i \in 1..Len(recent) |-> IF recent[i].job = j THEN new ELSE recent[i]]
        BY <2>1
      <3>2. Len(recent) \in Nat /\ \A i \in 1..Len(recent) : recent[i] \in Known
        <4>1. recent \in Seq(Known)
          BY DEF RecentTypes
        <4> HIDE DEF Known
        <4>2. QED
          BY <4>1, LenProperties, ElementOfSeq
      <3>3. set \in Seq(Known) /\ Len(set) = Len(recent)
        <4>1. set \in [1..Len(recent) -> Known]
          BY <3>1, <3>2, <1>1
        <4> HIDE DEF Known, set
        <4>2. QED
          BY <4>1, <3>2, FunctionIsSequence
      <3>4. \A i \in 1..Len(set) : set[i] = new \/ (recent[i].job # j /\ recent[i] = set[i])
        BY <3>1, <3>3
      <3> HIDE DEF Known, new, set
      <3>5. QED
        BY <3>2, <3>3, <3>4
    <2>2. CASE Remembered(j) = {}
      <3>1. set = Append(recent, new)
        BY <2>2
      <3>2. recent \in Seq(Known)
        BY DEF RecentTypes
      <3>3. /\ set \in Seq(Known) /\ Len(set) = Len(recent) + 1
            /\ \A i \in 1..Len(recent) : set[i] = recent[i]
            /\ set[Len(recent) + 1] = new
            /\ Len(recent) \in Nat
        <4> HIDE DEF Known, new, set
        <4>1. QED
          BY <3>1, <3>2, <1>1
      <3>4. \A i \in 1..Len(set) : i \in 1..Len(recent) \/ i = Len(recent) + 1
        BY <3>3
      <3>5. \A i \in 1..Len(recent) : recent[i].job # j
        BY <2>2 DEF Remembered
      <3> HIDE DEF Known, new, set
      <3>6. QED
        BY <3>3, <3>4, <3>5
    <2>3. QED
      BY <2>1, <2>2
  <1>3. CASE Len(set) > MaxRecent
    <2>1. Len(set) > 0
      BY <1>2, <1>3, SettledAssumption
    <2>2. /\ Tail(set) \in Seq(Known) /\ Len(Tail(set)) = Len(set) - 1
          /\ \A i \in 1..Len(Tail(set)) : Tail(set)[i] = set[i + 1]
      BY <1>2, <2>1
    <2>3. \A i \in 1..Len(Tail(set)) : i + 1 \in 1..Len(set)
      BY <1>2, <2>2
    <2>4. Remember(j, kind) = Tail(set)
      BY <1>3 DEF Remember
    <2>5. Len(set) \in Nat /\ MaxRecent \in Nat
      BY <1>2, SettledAssumption
    <2> HIDE DEF set, new, Known
    <2>6. QED
      BY <1>2, <2>2, <2>3, <2>4, <2>5 DEF Known, new
  <1>4. CASE ~(Len(set) > MaxRecent)
    <2>1. Remember(j, kind) = set
      BY <1>4 DEF Remember
    <2>2. Len(set) \in Nat /\ MaxRecent \in Nat
      BY <1>2, SettledAssumption
    <2> HIDE DEF set, new, Known
    <2>3. QED
      BY <1>2, <1>4, <2>1, <2>2 DEF Known, new
  <1>5. QED
    BY <1>3, <1>4

(***************************************************************************)
(* No step leaves a caller waiting for an outcome that is remembered.      *)
(***************************************************************************)
LEMMA NextNoMissed ==
  RecentTypes /\ Calls /\ NoMissedOutcome /\ [Next]_vars => (RecentTypes /\ Calls /\ NoMissedOutcome)'
  <1> SUFFICES ASSUME RecentTypes, Calls, NoMissedOutcome, [Next]_vars
               PROVE  (RecentTypes /\ Calls /\ NoMissedOutcome)'
    OBVIOUS
  <1>1. ASSUME UNCHANGED <<recent, waiter>> PROVE (RecentTypes /\ Calls /\ NoMissedOutcome)'
    BY <1>1 DEF RecentTypes, Calls, NoMissedOutcome, Waiting, Remembered
  <1>2. ASSUME NEW j \in Jobs, NEW kind \in Outcomes, Settle(j, kind)
        PROVE  (RecentTypes /\ Calls /\ NoMissedOutcome)'
    <2>1. /\ recent' = Remember(j, kind)
          /\ waiter' = [w \in Waiters |->
                           IF w \in Waiting(j) THEN [job |-> j, is |-> kind] ELSE waiter[w]]
      BY <1>2 DEF Settle
    <2>2. RecentTypes'
      BY <2>1, RememberEffect DEF RecentTypes
    <2>3. Calls'
      BY <2>1 DEF Calls
    <2>4. ASSUME NEW k \in Jobs, NEW w \in Waiters, waiter'[w] = [job |-> k, is |-> "waiting"]
          PROVE  Remembered(k)' = {}
      <3>1. w \notin Waiting(j) /\ waiter[w] = [job |-> k, is |-> "waiting"]
        BY <2>1, <2>4 DEF Outcomes
      <3>2. k # j
        BY <3>1 DEF Waiting
      <3>3. \A i \in 1..Len(recent) : recent[i].job # k
        BY <3>1 DEF NoMissedOutcome, Waiting, Remembered
      <3>4. \A i \in 1..Len(recent') : recent'[i].job # k
        <4>1. ASSUME NEW i \in 1..Len(recent'), recent'[i] = [job |-> j, kind |-> kind]
              PROVE  recent'[i].job # k
          BY <3>2, <4>1
        <4>2. ASSUME NEW i \in 1..Len(recent'), NEW n \in 1..Len(recent), recent[n] = recent'[i]
              PROVE  recent'[i].job # k
          BY <3>3, <4>2
        <4>3. QED
          BY <2>1, <4>1, <4>2, RememberEffect
      <3>5. QED
        BY <3>4 DEF Remembered
    <2>5. NoMissedOutcome'
      BY <2>4 DEF NoMissedOutcome, Waiting
    <2>6. QED
      BY <2>2, <2>3, <2>5
  <1>3. ASSUME NEW w \in Waiters, NEW j \in Jobs, Wait(w, j)
        PROVE  (RecentTypes /\ Calls /\ NoMissedOutcome)'
    <2>1. \A i \in Remembered(j) : recent[i].kind \in Outcomes
      <3>1. \A i \in 1..Len(recent) : recent[i] \in [job : Jobs, kind : Outcomes]
        BY ElementOfSeq DEF RecentTypes
      <3>2. QED
        BY <3>1 DEF Remembered
    <2>2. CASE Remembered(j) = {}
      BY <1>3, <2>2 DEF Wait, RecentTypes, Calls, NoMissedOutcome, Waiting, Remembered, Outcomes
    <2>3. CASE Remembered(j) # {}
      <3>1. PICK kind \in Outcomes : waiter' = [waiter EXCEPT ![w] = [job |-> j, is |-> kind]]
        BY <1>3, <2>1, <2>3 DEF Wait
      <3>2. recent' = recent
        BY <1>3 DEF Wait
      <3>3. QED
        BY <3>1, <3>2 DEF RecentTypes, Calls, NoMissedOutcome, Waiting, Remembered, Outcomes
    <2>4. QED
      BY <2>2, <2>3
  <1>4. ASSUME NEW w \in Waiters, Timeout(w) \/ Return(w)
        PROVE  (RecentTypes /\ Calls /\ NoMissedOutcome)'
    BY <1>4 DEF Timeout, Return, Idle, RecentTypes, Calls, NoMissedOutcome, Waiting, Remembered
  <1>5. CASE Restart
    BY <1>5 DEF Restart, Idle, RecentTypes, Calls, NoMissedOutcome, Waiting, Remembered
  <1>6. ASSUME NEW j \in Jobs, NEW kind \in Outcomes, Finish(j, kind) \/ SettleDirectly(j, kind)
        PROVE  UNCHANGED <<recent, waiter>>
    BY <1>6 DEF Finish, SettleDirectly
  <1>7. QED
    BY <1>1, <1>2, <1>3, <1>4, <1>5, <1>6 DEF Next, vars

(***************************************************************************)
(* Whichever of the settling, the call, the eviction and the timers came   *)
(* first, a call waits only for an outcome that is not remembered          *)
(* (runtime.ts lines 247-260 and 470-500).                                 *)
(***************************************************************************)
THEOREM NoCallerMisses == Spec => []NoMissedOutcome
  <1>1. Init => RecentTypes /\ Calls /\ NoMissedOutcome
    BY DEF Init, Idle, RecentTypes, Calls, NoMissedOutcome, Waiting, Remembered
  <1>2. QED
    BY <1>1, NextNoMissed, PTL DEF Spec

-----------------------------------------------------------------------------
(***************************************************************************)
(* What is remembered of a job is its last settling: entries are replaced  *)
(* in place, never kept beside a later one, so eviction cannot uncover an  *)
(* older outcome.  The rest of TypeOK goes with it.                        *)
(***************************************************************************)
Rest ==
    /\ inHand \in [job : Jobs, kind : Outcomes] \cup {NoOutcome}
    /\ Len(recent) <= MaxRecent
    /\ registered \in SUBSET Jobs
    /\ last \in [Jobs -> Outcomes \cup {"none"}]
    /\ restarts \in 0..MaxRestarts

LEMMA NextRemembersLast ==
  RecentTypes /\ Calls /\ Rest /\ RemembersLast /\ [Next]_vars => (Rest /\ RemembersLast)'
  <1> SUFFICES ASSUME RecentTypes, Calls, Rest, RemembersLast, [Next]_vars
               PROVE  (Rest /\ RemembersLast)'
    OBVIOUS
  <1> USE DEF Rest, RemembersLast
  <1>1. ASSUME NEW j \in Jobs, NEW kind \in Outcomes, Settle(j, kind)
        PROVE  (Rest /\ RemembersLast)'
    <2>1. /\ recent' = Remember(j, kind) /\ last' = [last EXCEPT ![j] = kind]
          /\ inHand' = NoOutcome /\ UNCHANGED <<registered, restarts>>
      BY <1>1 DEF Settle
    <2>2. \A k \in 1..Len(recent) : recent[k] \in [job : Jobs, kind : Outcomes]
      BY ElementOfSeq DEF RecentTypes
    <2>3. ASSUME NEW i \in 1..Len(recent') PROVE recent'[i].kind = last'[recent'[i].job]
      <3>1. CASE recent'[i] = [job |-> j, kind |-> kind]
        BY <2>1, <3>1
      <3>2. ASSUME NEW k \in 1..Len(recent), recent[k].job # j, recent[k] = recent'[i]
            PROVE  recent'[i].kind = last'[recent'[i].job]
        BY <2>1, <2>2, <3>2
      <3>3. QED
        BY <2>1, <3>1, <3>2, RememberEffect
    <2>4. Len(recent') <= MaxRecent
      BY <2>1, RememberEffect
    <2>5. QED
      BY <2>1, <2>3, <2>4
  <1>2. ASSUME NEW j \in Jobs, NEW kind \in Outcomes, Finish(j, kind) \/ SettleDirectly(j, kind)
        PROVE  (Rest /\ RemembersLast)'
    BY <1>2 DEF Finish, SettleDirectly, Register
  <1>3. ASSUME NEW w \in Waiters, \/ Timeout(w) \/ Return(w)
                                  \/ \E j \in Jobs : Wait(w, j)
        PROVE  (Rest /\ RemembersLast)'
    BY <1>3 DEF Timeout, Return, Wait
  <1>4. CASE Restart
    <2>1. Len(recent') = 0
      BY <1>4 DEF Restart
    <2>2. QED
      BY <1>4, <2>1, SettledAssumption DEF Restart
  <1>5. CASE UNCHANGED vars
    BY <1>5 DEF vars
  <1>6. QED
    BY <1>1, <1>2, <1>3, <1>4, <1>5 DEF Next

(***************************************************************************)
(* At most MaxRecent outcomes are remembered, and each is the last one of  *)
(* its job, however often it settled and whatever was evicted between      *)
(* (runtime.ts lines 247-252).                                             *)
(***************************************************************************)
THEOREM RemembersTheLast == Spec => []Inv
  <1>1. Init => RecentTypes /\ Calls /\ NoMissedOutcome /\ Rest /\ RemembersLast
    <2> SUFFICES ASSUME Init
                 PROVE  RecentTypes /\ Calls /\ NoMissedOutcome /\ Rest /\ RemembersLast
      OBVIOUS
    <2>1. RecentTypes /\ Len(recent) = 0
      BY DEF Init, RecentTypes
    <2>2. QED
      BY <2>1, SettledAssumption
         DEF Init, Idle, Calls, NoMissedOutcome, Waiting, Remembered, Rest, RemembersLast
  <1>2. RecentTypes /\ Calls /\ Rest /\ RemembersLast => Inv
    BY DEF RecentTypes, Calls, Rest, Inv, TypeOK
  <1>3. QED
    BY <1>1, <1>2, NextNoMissed, NextRemembersLast, PTL DEF Spec

-----------------------------------------------------------------------------
(***************************************************************************)
(* The replay guard and its requests.                                      *)
(*                                                                         *)
(* The order of insertion, as a relation: strict, and total on the entries *)
(* held.                                                                   *)
(***************************************************************************)
IsStrict(rel) ==
    /\ \A p \in rel : p[1] # p[2]
    /\ \A p, q \in rel : p[2] = q[1] => <<p[1], q[2]>> \in rel

Ordered ==
    /\ newer \subseteq Held \X Held
    /\ IsStrict(newer)
    /\ \A d, e \in Held : d # e => <<d, e>> \in newer \/ <<e, d>> \in newer

Bounded == IsFiniteSet(Held) /\ Cardinality(Held) <= MaxEntries + 1

\* A request that handles a delivery did what its outcome says.
Handling ==
    \A r \in Requests : request[r].at # "idle" =>
        /\ request[r].id \in Deliveries
        /\ request[r].at = "enqueued" => jobs[request[r].id] > 0
        /\ request[r].at = "ignored" => request[r].id \in Irrelevant

\* An entry is reserved only while a request handles its delivery, and
\* committed only if it was handled.
Entries ==
    \A d \in Deliveries :
        /\ guard[d].is = "reserved" => \E r \in Requests : r \in InFlight(d)
        /\ guard[d].is = "committed" => d \in Irrelevant \/ jobs[d] > 0

\* Until the limit drops a delivery, its entry follows its one request, and then
\* its window.
Undropped ==
    \A d \in Deliveries \ evicted :
        /\ \A r, s \in InFlight(d) : r = s
        /\ InFlight(d) # {} => guard[d].is = "reserved"
        /\ window[d] > 0 => guard[d].is = "committed" /\ guard[d].left = window[d]

IntakeIInv == IntakeTypeOK /\ Ordered /\ Bounded /\ Handling /\ Entries /\ Undropped

(***************************************************************************)
(* A finite set has an oldest element in a strict order.                   *)
(***************************************************************************)
LEMMA OldestExists ==
  ASSUME NEW K, IsFiniteSet(K), K # {}, NEW rel, IsStrict(rel)
  PROVE  \E m \in K : \A e \in K : <<m, e>> \notin rel
  <1> DEFINE Older(d) == {e \in K : <<d, e>> \in rel}
             Sets == {Older(d) : d \in K}
             R == StrictSubsetOrdering(K)
  <1>1. PICK B \in Sets : \A C \in Sets : <<C, B>> \notin R
    <2>1. Sets \subseteq FiniteSubsetsOf(K)
      <3>1. \A d \in K : Older(d) \in SUBSET K /\ IsFiniteSet(Older(d))
        BY FS_Subset
      <3>2. QED
        BY <3>1 DEF FiniteSubsetsOf
    <2>2. Sets # {}
      OBVIOUS
    <2> HIDE DEF Sets, R
    <2>3. IsWellFoundedOn(R, FiniteSubsetsOf(K))
      BY FS_StrictSubsetOrderingWellFounded DEF R
    <2>4. QED
      BY <2>1, <2>2, <2>3, WFMin
  <1>2. PICK m \in K : B = Older(m)
    OBVIOUS
  <1>3. ASSUME NEW e \in K, <<m, e>> \in rel PROVE FALSE
    <2>1. Older(e) \subseteq Older(m)
      BY <1>3 DEF IsStrict
    <2>2. e \in Older(m) /\ e \notin Older(e)
      BY <1>3 DEF IsStrict
    <2>3. <<Older(e), Older(m)>> \in R
      BY <2>1, <2>2 DEF StrictSubsetOrdering
    <2>4. QED
      BY <1>1, <1>2, <2>3
  <1>4. QED
    BY <1>3

(***************************************************************************)
(* Pruning leaves at most MaxEntries entries: all but the oldest of them   *)
(* are newer than it (webhook.ts lines 87-91).                             *)
(***************************************************************************)
LEMMA KeptIsBounded ==
  ASSUME Ordered, Bounded
  PROVE  Kept \subseteq Held /\ IsFiniteSet(Kept) /\ Cardinality(Kept) <= MaxEntries
  <1>1. Kept \subseteq Unexpired /\ Unexpired \subseteq Held
    BY DEF Kept, Unexpired
  <1>2. IsFiniteSet(Kept) /\ IsFiniteSet(Unexpired)
    BY <1>1, FS_Subset DEF Bounded
  <1>3. CASE Kept = {}
    BY <1>1, <1>2, <1>3, FS_EmptySet, IntakeAssumption
  <1>4. CASE Kept # {}
    <2>1. PICK m \in Kept : \A e \in Kept : <<m, e>> \notin newer
      BY <1>2, <1>4, OldestExists DEF Ordered
    <2> DEFINE Newer == {e \in Unexpired : <<e, m>> \in newer}
    <2>2. Cardinality(Newer) < MaxEntries
      BY <2>1 DEF Kept
    <2>3. Kept \ {m} \subseteq Newer
      BY <1>1, <2>1 DEF Ordered
    <2>4. IsFiniteSet(Newer) /\ Cardinality(Newer) \in Nat
      BY <1>2, FS_Subset, FS_CardinalityType
    <2> HIDE DEF Newer
    <2>5. Cardinality(Kept \ {m}) <= Cardinality(Newer)
      BY <2>3, <2>4, FS_Subset
    <2>6. Cardinality(Kept \ {m}) = Cardinality(Kept) - 1 /\ Cardinality(Kept) \in Nat
      BY <1>2, FS_RemoveElement, FS_CardinalityType
    <2>7. QED
      BY <1>1, <1>2, <2>2, <2>4, <2>5, <2>6, IntakeAssumption
  <1>5. QED
    BY <1>3, <1>4

(***************************************************************************)
(* What the pruned guard holds.                                            *)
(***************************************************************************)
LEMMA PrunedEntries ==
  /\ \A d \in Deliveries : Pruned[d] = IF d \in Kept THEN guard[d] ELSE Absent
  /\ Kept \subseteq Unexpired /\ Unexpired \subseteq Held /\ Held \subseteq Deliveries
  BY DEF Pruned, Kept, Unexpired, Held

(***************************************************************************)
(* Every step keeps the types.                                             *)
(***************************************************************************)
LEMMA NextTypes ==
  ASSUME IntakeTypeOK, Handling, IntakeNext
  PROVE  IntakeTypeOK'
  <1> USE DEF IntakeTypeOK
  <1>1. Absent \in GuardEntry /\ Reservation \in GuardEntry /\ Consumed \in GuardEntry
    BY IntakeAssumption DEF GuardEntry, Absent, Reservation, Consumed
  <1>2. Pruned \in [Deliveries -> GuardEntry]
    BY <1>1 DEF Pruned
  <1>3. Kept \subseteq Deliveries
    BY PrunedEntries
  <1>4. CASE Prune
    BY <1>2, <1>3, <1>4 DEF Prune, Among, Evicts, Unexpired, Held
  <1>5. ASSUME NEW r \in Requests, NEW d \in Deliveries, NEW o \in HandlerOutcomes, Accept(r, d, o)
        PROVE  IntakeTypeOK'
    <2>1. guard' \in [Deliveries -> GuardEntry]
      BY <1>1, <1>2, <1>5 DEF Accept
    <2>2. newer' \subseteq Deliveries \X Deliveries /\ evicted' \in SUBSET Deliveries
      BY <1>3, <1>5 DEF Accept, Among, Evicts, Unexpired, Held
    <2>3. jobs' \in [Deliveries -> 0..MaxJobs]
      BY <1>5, IntakeAssumption DEF Accept, Outcome
    <2>4. request' \in [Requests -> [at : HandlerOutcomes \cup {"idle"},
                                      id : Deliveries \cup {NoDelivery}]]
      BY <1>5 DEF Accept
    <2>5. QED
      BY <1>5, <2>1, <2>2, <2>3, <2>4 DEF Accept
  <1>6. ASSUME NEW r \in Requests, SettleRequest(r) PROVE IntakeTypeOK'
    <2>1. request[r].id \in Deliveries
      BY <1>6 DEF SettleRequest, Handling
    <2>2. guard' \in [Deliveries -> GuardEntry]
      BY <1>1, <1>6, <2>1 DEF SettleRequest, Committed, RolledBack
    <2>3. newer' \subseteq Deliveries \X Deliveries
      BY <1>6 DEF SettleRequest, Among
    <2>4. window' \in [Deliveries -> 0..Ttl]
      BY <1>6, <2>1, IntakeAssumption DEF SettleRequest
    <2>5. request' \in [Requests -> [at : HandlerOutcomes \cup {"idle"},
                                      id : Deliveries \cup {NoDelivery}]]
      BY <1>6 DEF SettleRequest, IdleRequest
    <2>6. QED
      BY <1>6, <2>2, <2>3, <2>4, <2>5 DEF SettleRequest
  <1>7. CASE Tick
    <2>1. \A n \in 0..Ttl : Less(n) \in 0..Ttl
      BY IntakeAssumption DEF Less
    <2>2. guard' \in [Deliveries -> GuardEntry]
      BY <1>7, <2>1 DEF Tick, GuardEntry
    <2>3. window' \in [Deliveries -> 0..Ttl]
      BY <1>7, <2>1 DEF Tick
    <2>4. QED
      BY <1>7, <2>2, <2>3 DEF Tick
  <1>8. QED
    BY <1>4, <1>5, <1>6, <1>7 DEF IntakeNext, Refuse

(***************************************************************************)
(* A step leaves the guard some of its entries in their order, or puts one *)
(* new entry behind those that pruning kept.                               *)
(***************************************************************************)
LEMMA HeldAfter ==
  ASSUME IntakeTypeOK, Ordered, Handling, IntakeNext
  PROVE  \/ Held' \subseteq Held /\ newer' = newer \cap (Held' \X Held')
         \/ \E d \in Deliveries \ Kept :
               /\ Held' = Kept \cup {d}
               /\ newer' = (newer \cap (Kept \X Kept)) \cup ({d} \X Kept)
  <1> USE DEF Among
  <1>1. CASE Prune
    <2>1. Held' = Kept
      BY <1>1, PrunedEntries DEF Prune, Held, Absent
    <2>2. QED
      BY <1>1, <2>1, PrunedEntries DEF Prune
  <1>2. ASSUME NEW r \in Requests, NEW d \in Deliveries, NEW o \in HandlerOutcomes, Accept(r, d, o)
        PROVE  /\ Held' = Kept \cup {d} /\ d \notin Kept
               /\ newer' = (newer \cap (Kept \X Kept)) \cup ({d} \X Kept)
    <2>1. \A e \in Deliveries : guard'[e] = IF e = d THEN Reservation ELSE Pruned[e]
      BY <1>2 DEF Accept, Pruned
    <2>2. Held' = Kept \cup {d}
      BY <2>1, PrunedEntries DEF Held, Absent, Reservation
    <2>3. QED
      BY <1>2, <2>2 DEF Accept
  <1>3. ASSUME NEW r \in Requests, SettleRequest(r)
        PROVE  Held' \subseteq Held /\ newer' = newer \cap (Held' \X Held')
    <2>1. request[r].id \in Deliveries
      BY <1>3 DEF SettleRequest, Handling
    <2>2. Held' \subseteq Held
      BY <1>3, <2>1
         DEF SettleRequest, Committed, RolledBack, Held, Absent, Consumed, IntakeTypeOK
    <2>3. QED
      BY <1>3, <2>2 DEF SettleRequest, Held
  <1>4. CASE Tick
    <2>1. Held' = Held
      BY <1>4 DEF Tick, Held, IntakeTypeOK, GuardEntry
    <2>2. QED
      BY <1>4, <2>1 DEF Tick, Ordered
  <1>5. QED
    BY <1>1, <1>2, <1>3, <1>4 DEF IntakeNext, Refuse

LEMMA NextOrdered ==
  ASSUME IntakeTypeOK, Ordered, Bounded, Handling, IntakeNext
  PROVE  (Ordered /\ Bounded)'
  <1>1. Kept \subseteq Held /\ IsFiniteSet(Kept) /\ Cardinality(Kept) <= MaxEntries
    BY KeptIsBounded
  <1>2. CASE Held' \subseteq Held /\ newer' = newer \cap (Held' \X Held')
    <2>1. Ordered'
      BY <1>2 DEF Ordered, IsStrict
    <2>2. IsFiniteSet(Held') /\ Cardinality(Held') <= Cardinality(Held)
      BY <1>2, FS_Subset DEF Bounded
    <2>3. Cardinality(Held') \in Nat /\ Cardinality(Held) \in Nat
      BY <2>2, FS_CardinalityType DEF Bounded
    <2>4. Bounded'
      BY <2>2, <2>3, IntakeAssumption DEF Bounded
    <2>5. QED
      BY <2>1, <2>4
  <1>3. ASSUME NEW d \in Deliveries \ Kept,
               Held' = Kept \cup {d},
               newer' = (newer \cap (Kept \X Kept)) \cup ({d} \X Kept)
        PROVE  (Ordered /\ Bounded)'
    <2>1. newer' \subseteq Held' \X Held'
      BY <1>3
    <2>2. IsStrict(newer')
      BY <1>3 DEF Ordered, IsStrict
    <2>3. \A a, b \in Held' : a # b => <<a, b>> \in newer' \/ <<b, a>> \in newer'
      BY <1>1, <1>3 DEF Ordered
    <2>4. IsFiniteSet(Held') /\ Cardinality(Held') = Cardinality(Kept) + 1
      BY <1>1, <1>3, FS_AddElement
    <2>5. Cardinality(Kept) \in Nat
      BY <1>1, FS_CardinalityType
    <2>6. Bounded'
      BY <1>1, <2>4, <2>5, IntakeAssumption DEF Bounded
    <2>7. QED
      BY <2>1, <2>2, <2>3, <2>6 DEF Ordered
  <1>4. QED
    BY <1>2, <1>3, HeldAfter

LEMMA NextHandling ==
  ASSUME IntakeTypeOK, Handling, IntakeNext
  PROVE  Handling'
  <1> USE DEF Handling, IntakeTypeOK
  <1>1. ASSUME NEW r \in Requests, NEW d \in Deliveries, NEW o \in HandlerOutcomes, Accept(r, d, o)
        PROVE  Handling'
    <2>1. \A s \in Requests : request'[s] = IF s = r THEN [at |-> o, id |-> d] ELSE request[s]
      BY <1>1 DEF Accept
    <2>2. \A e \in Deliveries : jobs[e] > 0 => jobs'[e] > 0
      BY <1>1 DEF Accept, Outcome
    <2>3. (o = "enqueued" => jobs'[d] > 0) /\ (o = "ignored" => d \in Irrelevant)
      BY <1>1 DEF Accept, Outcome
    <2>4. QED
      BY <2>1, <2>2, <2>3
  <1>2. ASSUME NEW r \in Requests, SettleRequest(r) PROVE Handling'
    BY <1>2 DEF SettleRequest, IdleRequest
  <1>3. CASE Prune \/ Tick
    BY <1>3 DEF Prune, Tick
  <1>4. QED
    BY <1>1, <1>2, <1>3 DEF IntakeNext, Refuse

(***************************************************************************)
(* An entry's state is explained by what was done for its delivery.        *)
(***************************************************************************)
LEMMA NextEntries ==
  ASSUME IntakeTypeOK, Handling, Entries, IntakeNext
  PROVE  Entries'
  <1> USE DEF Entries, InFlight
  <1>1. CASE Prune
    <2>1. \A d \in Deliveries : guard'[d] = guard[d] \/ guard'[d].is = "absent"
      BY <1>1, PrunedEntries DEF Prune, Absent
    <2>2. QED
      BY <1>1, <2>1 DEF Prune
  <1>2. ASSUME NEW r \in Requests, NEW d \in Deliveries, NEW o \in HandlerOutcomes, Accept(r, d, o)
        PROVE  Entries'
    <2>1. \A e \in Deliveries :
             IF e = d THEN guard'[e].is = "reserved"
                      ELSE guard'[e] = guard[e] \/ guard'[e].is = "absent"
      BY <1>2, PrunedEntries DEF Accept, Absent, Reservation, Pruned
    <2>2. \A s \in Requests : request'[s] = IF s = r THEN [at |-> o, id |-> d] ELSE request[s]
      BY <1>2 DEF Accept, IntakeTypeOK
    <2>3. request[r].at = "idle" /\ o # "idle"
      BY <1>2 DEF Accept, HandlerOutcomes
    <2>4. \A e \in Deliveries : jobs[e] > 0 => jobs'[e] > 0
      BY <1>2 DEF Accept, Outcome, IntakeTypeOK
    <2>5. QED
      BY <2>1, <2>2, <2>3, <2>4
  <1>3. ASSUME NEW r \in Requests, SettleRequest(r) PROVE Entries'
    <2> DEFINE d == request[r].id
    <2>1. d \in Deliveries /\ request[r].at \in HandlerOutcomes
      BY <1>3 DEF SettleRequest, Handling, IntakeTypeOK
    <2>2. \A e \in Deliveries : e # d => guard'[e] = guard[e]
      BY <1>3 DEF SettleRequest, Committed, RolledBack, IntakeTypeOK
    <2>3. \A s \in Requests : s # r => request'[s] = request[s]
      BY <1>3 DEF SettleRequest, IntakeTypeOK
    <2>4. jobs' = jobs
      BY <1>3 DEF SettleRequest
    <2>5. guard'[d].is # "reserved"
      BY <1>3, <2>1 DEF SettleRequest, Committed, RolledBack, Absent, Consumed, IntakeTypeOK
    <2>6. guard'[d].is = "committed" => guard[d].is = "committed" \/ request[r].at # "failed"
      BY <1>3, <2>1 DEF SettleRequest, Committed, RolledBack, Absent, Consumed, IntakeTypeOK
    <2>7. request[r].at # "failed" => d \in Irrelevant \/ jobs[d] > 0
      BY <1>3, <2>1 DEF SettleRequest, Handling, HandlerOutcomes
    <2>8. \A e \in Deliveries \ {d} : \A s \in InFlight(e) : s # r
      OBVIOUS
    <2> HIDE DEF d
    <2>9. ASSUME NEW e \in Deliveries, guard'[e].is = "reserved"
          PROVE  \E s \in Requests : s \in InFlight(e)'
      <3>1. e # d /\ guard[e].is = "reserved"
        BY <2>2, <2>5, <2>9
      <3>2. QED
        BY <2>3, <2>8, <3>1
    <2>10. ASSUME NEW e \in Deliveries, guard'[e].is = "committed"
           PROVE  e \in Irrelevant \/ jobs'[e] > 0
      BY <2>2, <2>4, <2>6, <2>7, <2>10
    <2>11. QED
      BY <2>9, <2>10
  <1>4. CASE Tick
    <2>1. \A d \in Deliveries : guard'[d].is = guard[d].is
      BY <1>4 DEF Tick, IntakeTypeOK, GuardEntry
    <2>2. QED
      BY <1>4, <2>1 DEF Tick
  <1>5. QED
    BY <1>1, <1>2, <1>3, <1>4 DEF IntakeNext, Refuse

(***************************************************************************)
(* Of a delivery that was not dropped, pruning takes nothing but an        *)
(* expired entry.                                                          *)
(***************************************************************************)
LEMMA PruneIsGentle ==
  ASSUME IntakeTypeOK, Undropped, Evicts, NEW d \in Deliveries \ evicted'
  PROVE  /\ d \notin evicted
         /\ InFlight(d) # {} \/ window[d] > 0 => d \in Kept /\ Pruned[d] = guard[d]
  <1>1. d \notin evicted /\ (d \in Unexpired => d \in Kept)
    BY DEF Evicts
  <1>2. InFlight(d) # {} \/ window[d] > 0 => d \in Unexpired
    BY <1>1 DEF Undropped, Unexpired, Held
  <1>3. QED
    BY <1>1, <1>2, PrunedEntries

LEMMA NextUndropped ==
  ASSUME IntakeTypeOK, Handling, Undropped, IntakeNext
  PROVE  Undropped'
  <1>1. CASE Prune
    <2> SUFFICES ASSUME NEW d \in Deliveries \ evicted'
                 PROVE  /\ \A r, s \in InFlight(d)' : r = s
                        /\ InFlight(d)' # {} => guard'[d].is = "reserved"
                        /\ window'[d] > 0 => guard'[d].is = "committed" /\ guard'[d].left = window'[d]
      BY DEF Undropped
    <2>1. InFlight(d)' = InFlight(d) /\ window' = window /\ guard' = Pruned
      BY <1>1 DEF Prune, InFlight
    <2>2. QED
      BY <1>1, <2>1, PruneIsGentle DEF Prune, Undropped
  <1>2. ASSUME NEW r \in Requests, NEW d \in Deliveries, NEW o \in HandlerOutcomes, Accept(r, d, o)
        PROVE  Undropped'
    <2> SUFFICES ASSUME NEW e \in Deliveries \ evicted'
                 PROVE  /\ \A s, t \in InFlight(e)' : s = t
                        /\ InFlight(e)' # {} => guard'[e].is = "reserved"
                        /\ window'[e] > 0 => guard'[e].is = "committed" /\ guard'[e].left = window'[e]
      BY DEF Undropped
    <2>1. Evicts /\ window' = window /\ d \notin Kept
      BY <1>2 DEF Accept
    <2>2. InFlight(e)' = IF e = d THEN InFlight(e) \cup {r} ELSE InFlight(e)
      BY <1>2 DEF Accept, InFlight, IntakeTypeOK, HandlerOutcomes
    <2>3. guard'[e] = IF e = d THEN Reservation ELSE Pruned[e]
      BY <1>2 DEF Accept, Pruned
    <2>4. CASE e = d
      <3>1. InFlight(e) = {} /\ ~(window[e] > 0)
        BY <2>1, <2>4, PruneIsGentle
      <3>2. QED
        BY <2>1, <2>2, <2>3, <2>4, <3>1 DEF Reservation
    <2>5. CASE e # d
      BY <2>1, <2>2, <2>3, <2>5, PruneIsGentle DEF Undropped
    <2>6. QED
      BY <2>4, <2>5
  <1>3. ASSUME NEW r \in Requests, SettleRequest(r) PROVE Undropped'
    <2> SUFFICES ASSUME NEW e \in Deliveries \ evicted'
                 PROVE  /\ \A s, t \in InFlight(e)' : s = t
                        /\ InFlight(e)' # {} => guard'[e].is = "reserved"
                        /\ window'[e] > 0 => guard'[e].is = "committed" /\ guard'[e].left = window'[e]
      BY DEF Undropped
    <2>1. e \in Deliveries \ evicted
      BY <1>3 DEF SettleRequest
    <2>2. InFlight(e)' = InFlight(e) \ {r}
      BY <1>3 DEF SettleRequest, InFlight, IdleRequest, IntakeTypeOK
    <2>3. CASE request[r].id # e
      <3>1. guard'[e] = guard[e] /\ window'[e] = window[e]
        BY <1>3, <2>1, <2>3 DEF SettleRequest, Committed, RolledBack, IntakeTypeOK
      <3>2. r \notin InFlight(e)
        BY <2>3 DEF InFlight
      <3>3. QED
        BY <2>1, <2>2, <3>1, <3>2 DEF Undropped
    <2>4. CASE request[r].id = e
      <3>1. r \in InFlight(e)
        BY <1>3, <2>4 DEF SettleRequest, InFlight
      <3>2. guard[e].is = "reserved" /\ InFlight(e) = {r} /\ ~(window[e] > 0)
        BY <2>1, <3>1 DEF Undropped
      <3>3. InFlight(e)' = {}
        BY <2>2, <3>2
      <3>4. CASE request[r].at = "enqueued"
        <4>1. guard'[e] = Consumed /\ window'[e] = Ttl
          BY <1>3, <2>1, <2>4, <3>2, <3>4 DEF SettleRequest, Committed, IntakeTypeOK
        <4>2. QED
          BY <3>3, <4>1 DEF Consumed
      <3>5. CASE request[r].at # "enqueued"
        <4>1. window'[e] = window[e]
          BY <1>3, <3>5 DEF SettleRequest
        <4>2. QED
          BY <3>2, <3>3, <4>1
      <3>6. QED
        BY <3>4, <3>5
    <2>5. QED
      BY <2>3, <2>4
  <1>4. CASE Tick
    <2> SUFFICES ASSUME NEW e \in Deliveries \ evicted'
                 PROVE  /\ \A s, t \in InFlight(e)' : s = t
                        /\ InFlight(e)' # {} => guard'[e].is = "reserved"
                        /\ window'[e] > 0 => guard'[e].is = "committed" /\ guard'[e].left = window'[e]
      BY DEF Undropped
    <2>1. e \in Deliveries \ evicted
      BY <1>4 DEF Tick
    <2>2. guard[e] \in GuardEntry /\ window[e] \in Nat
      BY <2>1, IntakeAssumption DEF IntakeTypeOK
    <2>3. /\ guard'[e] = [guard[e] EXCEPT !.left = Less(guard[e].left)]
          /\ window'[e] = Less(window[e])
      BY <1>4, <2>1 DEF Tick
    <2>4. guard'[e].is = guard[e].is /\ guard'[e].left = Less(guard[e].left)
      BY <2>2, <2>3 DEF GuardEntry
    <2>5. window'[e] > 0 => window[e] > 0
      BY <2>2, <2>3 DEF Less
    <2>6. InFlight(e)' = InFlight(e)
      BY <1>4 DEF Tick, InFlight
    <2>7. QED
      BY <2>1, <2>3, <2>4, <2>5, <2>6 DEF Undropped
  <1>5. QED
    BY <1>1, <1>2, <1>3, <1>4 DEF IntakeNext, Refuse

LEMMA StutterIntake == IntakeIInv /\ UNCHANGED intakeVars => IntakeIInv'
  BY DEF IntakeIInv, intakeVars, IntakeTypeOK, Ordered, Bounded, Handling, Entries, Undropped,
         Held, InFlight

LEMMA InitIntake == IntakeInit => IntakeIInv
  <1> SUFFICES ASSUME IntakeInit PROVE IntakeIInv
    OBVIOUS
  <1>1. IntakeTypeOK
    BY IntakeAssumption DEF IntakeInit, IntakeTypeOK, GuardEntry, Absent, IdleRequest
  <1>2. Held = {}
    BY DEF IntakeInit, Held, Absent
  <1>3. Ordered /\ Bounded
    BY <1>2, FS_EmptySet, IntakeAssumption DEF IntakeInit, Ordered, IsStrict, Bounded
  <1>4. Handling /\ Entries /\ Undropped
    BY DEF IntakeInit, Handling, Entries, Undropped, InFlight, IdleRequest, Absent
  <1>5. QED
    BY <1>1, <1>3, <1>4 DEF IntakeIInv

LEMMA IntakeInvariant == IntakeSpec => []IntakeIInv
  <1>1. IntakeIInv /\ [IntakeNext]_intakeVars => IntakeIInv'
    BY NextTypes, NextOrdered, NextHandling, NextEntries, NextUndropped, StutterIntake
       DEF IntakeIInv
  <1>2. IntakeInit => IntakeIInv
    BY InitIntake
  <1>3. QED
    BY <1>1, <1>2, PTL DEF IntakeSpec

(***************************************************************************)
(* A set of equal elements has at most one.                                *)
(***************************************************************************)
LEMMA AtMostOne ==
  ASSUME NEW S, \A r, s \in S : r = s
  PROVE  IsFiniteSet(S) /\ Cardinality(S) <= 1
  <1>1. CASE S = {}
    BY <1>1, FS_EmptySet
  <1>2. CASE S # {}
    <2>1. PICK r \in S : S = {r}
      BY <1>2
    <2>2. IsFiniteSet({r}) /\ Cardinality({r}) = 1
      BY FS_Singleton
    <2>3. QED
      BY <2>1, <2>2
  <1>3. QED
    BY <1>1, <1>2

(***************************************************************************)
(* For any number of deliveries, requests and entries: the guard holds at  *)
(* most its limit and the reservation being made, and a delivery it did    *)
(* not drop is coordinated by one request, whose reservation stays until   *)
(* it settles (webhook.ts lines 58-64, 79-92).                             *)
(***************************************************************************)
THEOREM OneRequestCoordinates == IntakeSpec => []IntakeInv
  <1>1. IntakeIInv => IntakeInv
    <2> SUFFICES ASSUME IntakeIInv PROVE IntakeInv
      OBVIOUS
    <2>1. IntakeTypeOK /\ GuardIsBounded
      BY DEF IntakeIInv, Bounded, GuardIsBounded
    <2>2. OneRequestPerDelivery
      BY AtMostOne DEF IntakeIInv, Undropped, OneRequestPerDelivery
    <2>3. QED
      BY <2>1, <2>2 DEF IntakeInv
  <1>2. QED
    BY <1>1, IntakeInvariant, PTL

(***************************************************************************)
(* A failed handoff stays retryable, whatever was evicted and whichever    *)
(* requests settled in between: what the guard refuses is being handled or *)
(* was handled (webhook.ts lines 129-140).                                 *)
(***************************************************************************)
THEOREM FailuresStayRetryable == IntakeSpec => []RefusedOnlyIfHandled
  <1>1. IntakeIInv => RefusedOnlyIfHandled
    <2> SUFFICES ASSUME IntakeIInv, NEW d \in Held, InFlight(d) = {}
                 PROVE  guard[d].is = "committed" /\ (d \in Irrelevant \/ jobs[d] > 0)
      BY DEF RefusedOnlyIfHandled
    <2>1. d \in Deliveries /\ guard[d].is \in {"reserved", "committed"}
      BY DEF Held, IntakeIInv, IntakeTypeOK, GuardEntry
    <2>2. QED
      BY <2>1 DEF IntakeIInv, Entries
  <1>2. QED
    BY <1>1, IntakeInvariant, PTL

(***************************************************************************)
(* Replay protection: a redelivery enqueues no second job while the first  *)
(* request is in flight or its window is open, unless the guard dropped    *)
(* the delivery at its limit (webhook.ts lines 58-64, 108-140).            *)
(***************************************************************************)
THEOREM NoReplayInWindow == IntakeSpec => NoSecondJobInWindow
  <1> DEFINE Step == \A d \in Deliveries : jobs'[d] > jobs[d] /\ d \notin evicted'
                        => window[d] = 0 /\ InFlight(d) = {}
  <1>1. ASSUME IntakeIInv, IntakeNext PROVE Step
    <2> SUFFICES ASSUME NEW d \in Deliveries, jobs'[d] > jobs[d], d \notin evicted'
                 PROVE  window[d] = 0 /\ InFlight(d) = {}
      OBVIOUS
    <2>1. jobs' # jobs
      BY <1>1 DEF IntakeIInv, IntakeTypeOK
    <2>2. PICK r \in Requests, e \in Deliveries, o \in HandlerOutcomes : Accept(r, e, o)
      BY <1>1, <2>1 DEF IntakeNext, Refuse, Prune, SettleRequest, Tick
    <2>3. d = e
      BY <1>1, <2>2 DEF Accept, Outcome, IntakeIInv, IntakeTypeOK
    <2>4. d \notin Kept /\ Evicts
      BY <2>2, <2>3 DEF Accept
    <2>5. InFlight(d) = {} /\ ~(window[d] > 0)
      BY <1>1, <2>4, PruneIsGentle DEF IntakeIInv
    <2>6. QED
      BY <1>1, <2>5 DEF IntakeIInv, IntakeTypeOK
  <1>2. IntakeIInv /\ [IntakeNext]_intakeVars => [Step]_intakeVars
    BY <1>1
  <1>3. QED
    BY <1>2, IntakeInvariant, PTL DEF IntakeSpec, NoSecondJobInWindow

(***************************************************************************)
(* What one request committed ends by time or by eviction at the limit,    *)
(* and no other request's commit or rollback of the same delivery changes  *)
(* it (webhook.ts lines 129-140).                                          *)
(***************************************************************************)
THEOREM OpenWindowsStay == IntakeSpec => WindowsStayOpen
  <1> DEFINE Step(d) == \/ guard'[d].is = "committed" /\ guard'[d].left <= guard[d].left
                        \/ d \in Unexpired \ Kept
             Open(d) == guard[d].is = "committed" /\ guard[d].left > 0
  <1>1. ASSUME IntakeIInv, IntakeNext, NEW d \in Deliveries, Open(d) PROVE Step(d)
    <2>1. guard[d] \in GuardEntry /\ guard[d].left \in Nat /\ d \in Unexpired
      BY <1>1, IntakeAssumption DEF IntakeIInv, IntakeTypeOK, GuardEntry, Unexpired, Held
    <2>2. CASE guard'[d] = guard[d]
      BY <1>1, <2>1, <2>2
    <2>3. ASSUME d \in Kept, guard' = Pruned PROVE guard'[d] = guard[d]
      BY <2>3, PrunedEntries
    <2>4. CASE Prune
      BY <2>1, <2>2, <2>3, <2>4 DEF Prune
    <2>5. ASSUME NEW r \in Requests, NEW e \in Deliveries, NEW o \in HandlerOutcomes, Accept(r, e, o)
          PROVE  Step(d)
      <3>1. d \in Kept => guard'[d] = guard[d]
        BY <2>5, PrunedEntries DEF Accept, Pruned
      <3>2. QED
        BY <2>1, <2>2, <3>1
    <2>6. ASSUME NEW r \in Requests, SettleRequest(r) PROVE Step(d)
      <3>1. guard'[d] = guard[d]
        BY <1>1, <2>6 DEF SettleRequest, Committed, RolledBack, IntakeIInv, IntakeTypeOK
      <3>2. QED
        BY <2>2, <3>1
    <2>7. CASE Tick
      <3>1. guard'[d].is = guard[d].is /\ guard'[d].left = Less(guard[d].left)
        BY <2>1, <2>7 DEF Tick, GuardEntry
      <3>2. QED
        BY <1>1, <2>1, <3>1 DEF Less
    <2>8. QED
      BY <1>1, <2>4, <2>5, <2>6, <2>7 DEF IntakeNext, Refuse
  <1>2. IntakeIInv /\ [IntakeNext]_intakeVars => [\A d \in Deliveries : Open(d) => Step(d)]_intakeVars
    BY <1>1
  <1>3. QED
    BY <1>2, IntakeInvariant, PTL DEF IntakeSpec, WindowsStayOpen

-----------------------------------------------------------------------------
(***************************************************************************)
(* The result registries.                                                  *)
(*                                                                         *)
(* A nonempty set of numbers has a least element: the one whose interval   *)
(* of smaller numbers is minimal for inclusion.                            *)
(***************************************************************************)
LEMMA LeastNumber ==
  ASSUME NEW T \in SUBSET Nat, T # {}
  PROVE  \E i \in T : \A k \in T : i <= k
  <1>1. PICK n \in T : TRUE
    OBVIOUS
  <1> DEFINE Low == {i \in T : i <= n}
             Below == {0..i : i \in Low}
             Smaller == StrictSubsetOrdering(0..n)
  <1>2. PICK B \in Below : \A C \in Below : <<C, B>> \notin Smaller
    <2>1. Below \subseteq FiniteSubsetsOf(0..n)
      <3>1. \A i \in Low : 0..i \in SUBSET (0..n) /\ IsFiniteSet(0..i)
        BY FS_Interval
      <3>2. QED
        BY <3>1 DEF FiniteSubsetsOf
    <2>2. Below # {}
      BY <1>1
    <2> HIDE DEF Below
    <2>3. QED
      BY <2>1, <2>2, FS_StrictSubsetOrderingWellFounded, WFMin
  <1>3. PICK i \in Low : B = 0..i
    OBVIOUS
  <1>4. ASSUME NEW k \in T, k < i PROVE FALSE
    <2>1. k \in Low /\ 0..k \subseteq 0..i /\ 0..k # 0..i
          /\ 0..k \in SUBSET (0..n) /\ 0..i \in SUBSET (0..n)
      BY <1>4
    <2>2. <<0..k, B>> \in Smaller
      BY <1>3, <2>1 DEF StrictSubsetOrdering
    <2>3. QED
      BY <1>2, <2>1, <2>2
  <1>5. QED
    BY <1>4


\* No two entries of a list share an identity.
Distinct(es) ==
    \A i, k \in 1..Len(es) : i # k =>
        es[i].queue # es[k].queue /\ es[i].id # es[k].id /\ es[i].native # es[k].native

\* What a file may hold.
IsFile(es) == es \in Seq(Entry) /\ Len(es) <= MaxResults /\ Distinct(es)

MemoryType ==
    [order : Seq(Ids), nativeOf : [Ids -> NativeJobs \cup {NoId}],
     byJob : [NativeJobs -> Ids \cup {NoId}], byQueue : [QueueJobs -> Ids \cup {NoId}]]

\* The order lists each retained result once.
OrderOf(m) ==
    /\ \A i, k \in 1..Len(m.order) : i # k => m.order[i] # m.order[k]
    /\ \A v \in Ids : m.nativeOf[v] # NoId <=> \E i \in 1..Len(m.order) : m.order[i] = v

\* The indexes describe the same results.
IndexesOf(m) ==
    /\ \A n \in NativeJobs, v \in Ids : m.byJob[n] = v <=> m.nativeOf[v] = n
    /\ \A q \in QueueJobs : m.byQueue[q] # NoId => m.nativeOf[m.byQueue[q]] # NoId
    /\ \A v \in Ids : m.nativeOf[v] # NoId => \E q \in QueueJobs : m.byQueue[q] = v
    /\ \A p, q \in QueueJobs : m.byQueue[p] = m.byQueue[q] /\ m.byQueue[p] # NoId => p = q

Sound(m) == m \in MemoryType /\ OrderOf(m) /\ IndexesOf(m)

(***************************************************************************)
(* A set of positions has an increasing enumeration: the inverse of the    *)
(* rank, which is one to one between finite sets of the same size.         *)
(***************************************************************************)
LEMMA IncreasingExists ==
  ASSUME NEW n \in Nat, NEW I \in SUBSET (1..n)
  PROVE  /\ IsFiniteSet(I) /\ Cardinality(I) \in 0..n
         /\ \E p \in [1..Cardinality(I) -> I] :
               \A a, b \in 1..Cardinality(I) : a < b => p[a] < p[b]
  <1> DEFINE c == Cardinality(I)
             UpTo(i) == {j \in I : j <= i}
             rank == [i \in I |-> Cardinality(UpTo(i))]
             p == [k \in 1..c |-> CHOOSE i \in I : rank[i] = k]
  <1>1. IsFiniteSet(1..n) /\ Cardinality(1..n) = n
    BY FS_Interval
  <1>2. IsFiniteSet(I) /\ c \in Nat /\ c <= n
    BY <1>1, FS_Subset, FS_CardinalityType
  <1>3. \A i \in I : /\ IsFiniteSet(UpTo(i)) /\ Cardinality(UpTo(i)) \in Nat
                     /\ Cardinality(UpTo(i)) <= c
    <2> SUFFICES ASSUME NEW i \in I
                 PROVE  /\ IsFiniteSet(UpTo(i)) /\ Cardinality(UpTo(i)) \in Nat
                        /\ Cardinality(UpTo(i)) <= c
      OBVIOUS
    <2>1. UpTo(i) \in SUBSET I
      OBVIOUS
    <2> HIDE DEF UpTo
    <2>2. QED
      BY <1>2, <2>1, FS_Subset, FS_CardinalityType
  <1>4. \A i \in I : Cardinality(UpTo(i)) # 0
    <2> SUFFICES ASSUME NEW i \in I PROVE Cardinality(UpTo(i)) # 0
      OBVIOUS
    <2>1. i \in UpTo(i)
      OBVIOUS
    <2> HIDE DEF UpTo
    <2>2. QED
      BY <1>3, <2>1, FS_EmptySet
  <1>5. rank \in [I -> 1..c]
    BY <1>2, <1>3, <1>4
  <1>6. ASSUME NEW i \in I, NEW k \in I, i < k PROVE rank[i] < rank[k]
    <2>1. UpTo(i) \in SUBSET UpTo(k) /\ UpTo(i) # UpTo(k)
      <3>1. i \in Int /\ k \in Int /\ \A j \in I : j \in Int
        OBVIOUS
      <3>2. k \in UpTo(k) /\ k \notin UpTo(i)
        BY <1>6, <3>1
      <3>3. \A j \in UpTo(i) : j \in UpTo(k)
        BY <1>6, <3>1
      <3>4. QED
        BY <3>2, <3>3
    <2>2. rank[i] = Cardinality(UpTo(i)) /\ rank[k] = Cardinality(UpTo(k))
      OBVIOUS
    <2> HIDE DEF UpTo, rank
    <2>3. Cardinality(UpTo(i)) <= Cardinality(UpTo(k)) /\ Cardinality(UpTo(i)) # Cardinality(UpTo(k))
      BY <1>3, <2>1, FS_Subset
    <2>4. QED
      BY <1>3, <2>2, <2>3
  <1>7. \A k \in 1..c : \E i \in I : rank[i] = k
    <2>1. rank \in Injection(I, 1..c)
      <3>1. ASSUME NEW i \in I, NEW k \in I, rank[i] = rank[k] PROVE i = k
        <4>1. i \in Int /\ k \in Int /\ rank[i] \in Int
          BY <1>5
        <4> HIDE DEF rank
        <4>2. QED
          BY <1>6, <3>1, <4>1
      <3> HIDE DEF rank, c
      <3>2. QED
        BY <1>5, <3>1 DEF Injection, IsInjective
    <2>2. IsFiniteSet(1..c) /\ Cardinality(1..c) = c
      BY <1>2, FS_Interval
    <2> HIDE DEF rank
    <2>3. rank \in Surjection(I, 1..c)
      BY <1>2, <2>1, <2>2, FS_Injection
    <2>4. QED
      BY <2>3 DEF Surjection
  <1>8. \A k \in 1..c : p[k] \in I /\ rank[p[k]] = k
    BY <1>7
  <1> HIDE DEF rank, p
  <1>9. p \in [1..c -> I]
    BY <1>7 DEF p
  <1>10. ASSUME NEW a \in 1..c, NEW b \in 1..c, a < b PROVE p[a] < p[b]
    <2>1. p[a] \in Int /\ p[b] \in Int
      <3>1. \A i \in I : i \in Int
        OBVIOUS
      <3>2. p[a] \in I /\ p[b] \in I
        BY <1>8
      <3>3. QED
        BY <3>1, <3>2
    <2>2. QED
      BY <1>2, <1>6, <1>8, <1>10, <2>1
  <1>11. QED
    BY <1>2, <1>9, <1>10

(***************************************************************************)
(* Filtering takes elements of the sequence at different positions.        *)
(***************************************************************************)
LEMMA OnlyTakes ==
  ASSUME NEW S, NEW s \in Seq(S), NEW I \in SUBSET (1..Len(s))
  PROVE  /\ Only(s, I) \in Seq(S) /\ Len(Only(s, I)) <= Len(s)
         /\ \E p \in [1..Len(Only(s, I)) -> I] :
               /\ \A a, b \in 1..Len(Only(s, I)) : a # b => p[a] # p[b]
               /\ \A k \in 1..Len(Only(s, I)) : Only(s, I)[k] = s[p[k]]
  <1> DEFINE c == Cardinality(I)
             p == Increasing(I)
  <1>1. Len(s) \in Nat
    OBVIOUS
  <1>2. c \in 0..Len(s) /\ p \in [1..c -> I] /\ \A a, b \in 1..c : a < b => p[a] < p[b]
    BY <1>1, IncreasingExists DEF Increasing
  <1>3. \A k \in 1..c : p[k] \in 1..Len(s)
    BY <1>2
  <1>4. \A k \in 1..c : s[p[k]] \in S
    BY <1>3, ElementOfSeq
  <1>5. Only(s, I) = [k \in 1..c |-> s[p[k]]]
    BY DEF Only
  <1> HIDE DEF c, p
  <1>6. Only(s, I) \in [1..c -> S]
    BY <1>4, <1>5
  <1>7. c \in Nat
    BY <1>1, <1>2
  <1>8. Only(s, I) \in Seq(S) /\ Len(Only(s, I)) = c
    BY <1>6, <1>7, FunctionIsSequence
  <1>9. \A a, b \in 1..c : a # b => p[a] # p[b]
    BY <1>2, <1>3, <1>7
  <1>10. QED
    BY <1>1, <1>2, <1>5, <1>8, <1>9

(***************************************************************************)
(* What a store does to each part of the memory.                           *)
(***************************************************************************)
LEMMA InsertEffect ==
  ASSUME NEW m \in MemoryType, NEW e \in Entry
  PROVE  /\ Insert(m, e) \in MemoryType
         /\ Insert(m, e).order = IF m.nativeOf[e.id] # NoId THEN m.order ELSE Append(m.order, e.id)
         /\ \A v \in Ids : Insert(m, e).nativeOf[v] = IF v = e.id THEN e.native ELSE m.nativeOf[v]
         /\ \A n \in NativeJobs : Insert(m, e).byJob[n] =
               IF n = e.native THEN e.id ELSE IF m.byJob[n] = e.id THEN NoId ELSE m.byJob[n]
         /\ \A q \in QueueJobs : Insert(m, e).byQueue[q] =
               IF q = e.queue THEN e.id ELSE IF m.byQueue[q] = e.id THEN NoId ELSE m.byQueue[q]
  <1> DEFINE order1 == IF m.nativeOf[e.id] # NoId THEN m.order ELSE Append(m.order, e.id)
             native1 == [m.nativeOf EXCEPT ![e.id] = e.native]
             job0 == Cleared(m.byJob, e.id)
             queue0 == Cleared(m.byQueue, e.id)
             job1 == [job0 EXCEPT ![e.native] = e.id]
             queue1 == [queue0 EXCEPT ![e.queue] = e.id]
  <1>1. /\ m.order \in Seq(Ids) /\ m.nativeOf \in [Ids -> NativeJobs \cup {NoId}]
        /\ m.byJob \in [NativeJobs -> Ids \cup {NoId}]
        /\ m.byQueue \in [QueueJobs -> Ids \cup {NoId}]
        /\ e.id \in Ids /\ e.native \in NativeJobs /\ e.queue \in QueueJobs
    BY DEF MemoryType, Entry
  <1>2. e.id \in Retained(m) <=> m.nativeOf[e.id] # NoId
    BY <1>1 DEF Retained
  <1>3. job0 = [k \in NativeJobs |-> IF m.byJob[k] = e.id THEN NoId ELSE m.byJob[k]]
    BY <1>1 DEF Cleared
  <1>4. queue0 = [k \in QueueJobs |-> IF m.byQueue[k] = e.id THEN NoId ELSE m.byQueue[k]]
    BY <1>1 DEF Cleared
  <1>5. Insert(m, e) = [order |-> order1, nativeOf |-> native1, byJob |-> job1, byQueue |-> queue1]
    <2> DEFINE c == ClearMappings(m, e.id)
    <2>1. c = [order |-> m.order, nativeOf |-> m.nativeOf, byJob |-> job0, byQueue |-> queue0]
      <3> HIDE DEF job0, queue0
      <3>1. c = [m EXCEPT !.byJob = job0, !.byQueue = queue0]
        BY DEF ClearMappings, job0, queue0
      <3>2. QED
        BY <3>1 DEF MemoryType
    <2>2. Insert(m, e) = [c EXCEPT !.order = order1, !.nativeOf[e.id] = e.native,
                                   !.byJob[e.native] = e.id, !.byQueue[e.queue] = e.id]
      <3>1. c.order = m.order
        BY <2>1
      <3>2. QED
        BY <1>2, <2>1 DEF Insert
    <2> HIDE DEF c, job0, queue0, order1
    <2>3. QED
      BY <2>1, <2>2
  <1>6. order1 \in Seq(Ids)
    BY <1>1
  <1>7. native1 \in [Ids -> NativeJobs \cup {NoId}]
    BY <1>1
  <1>8. job1 \in [NativeJobs -> Ids \cup {NoId}]
    BY <1>1, <1>3
  <1>9. queue1 \in [QueueJobs -> Ids \cup {NoId}]
    BY <1>1, <1>4
  <1>10. Insert(m, e) \in MemoryType
    <2> HIDE DEF order1, native1, job1, queue1
    <2>1. QED
      BY <1>5, <1>6, <1>7, <1>8, <1>9 DEF MemoryType
  <1>11. QED
    BY <1>1, <1>3, <1>4, <1>5, <1>10

LEMMA RecordExcept ==
  ASSUME NEW o, NEW na, NEW jo, NEW qu, NEW r, NEW v, NEW w
  PROVE  [[order |-> o, nativeOf |-> na, byJob |-> jo, byQueue |-> qu]
            EXCEPT !.order = r, !.nativeOf[v] = w]
         = [order |-> r, nativeOf |-> [na EXCEPT ![v] = w], byJob |-> jo, byQueue |-> qu]
  <1> DEFINE m0 == [order |-> o, nativeOf |-> na, byJob |-> jo, byQueue |-> qu]
             m1 == [m0 EXCEPT !.order = r]
  <1>1. m1 = [order |-> r, nativeOf |-> na, byJob |-> jo, byQueue |-> qu]
    OBVIOUS
  <1> HIDE DEF m0
  <1>2. [m0 EXCEPT !.order = r, !.nativeOf[v] = w] = [m1 EXCEPT !.nativeOf[v] = w]
    OBVIOUS
  <1> HIDE DEF m1
  <1>3. [m1 EXCEPT !.nativeOf[v] = w]
          = [order |-> r, nativeOf |-> [na EXCEPT ![v] = w], byJob |-> jo, byQueue |-> qu]
    BY <1>1
  <1>4. QED
    BY <1>2, <1>3 DEF m0

LEMMA EvictEffect ==
  ASSUME NEW m \in MemoryType, Len(m.order) > 0
  PROVE  /\ EvictOldest(m) \in MemoryType
         /\ EvictOldest(m).order = Tail(m.order)
         /\ \A v \in Ids : EvictOldest(m).nativeOf[v] =
               IF v = Head(m.order) THEN NoId ELSE m.nativeOf[v]
         /\ \A n \in NativeJobs : EvictOldest(m).byJob[n] =
               IF m.byJob[n] = Head(m.order) THEN NoId ELSE m.byJob[n]
         /\ \A q \in QueueJobs : EvictOldest(m).byQueue[q] =
               IF m.byQueue[q] = Head(m.order) THEN NoId ELSE m.byQueue[q]
  <1> DEFINE old == Head(m.order)
             native1 == [m.nativeOf EXCEPT ![old] = NoId]
             job1 == [k \in NativeJobs |-> IF m.byJob[k] = old THEN NoId ELSE m.byJob[k]]
             queue1 == [k \in QueueJobs |-> IF m.byQueue[k] = old THEN NoId ELSE m.byQueue[k]]
  <1>1. /\ m.order \in Seq(Ids) /\ m.nativeOf \in [Ids -> NativeJobs \cup {NoId}]
        /\ m.byJob \in [NativeJobs -> Ids \cup {NoId}]
        /\ m.byQueue \in [QueueJobs -> Ids \cup {NoId}]
    BY DEF MemoryType
  <1>2. Tail(m.order) \in Seq(Ids)
    BY <1>1
  <1>3. Cleared(m.byJob, old) = job1 /\ Cleared(m.byQueue, old) = queue1
    BY <1>1 DEF Cleared
  <1>4. EvictOldest(m) = [order |-> Tail(m.order), nativeOf |-> native1,
                          byJob |-> job1, byQueue |-> queue1]
    <2> DEFINE d == [m EXCEPT !.order = Tail(m.order), !.nativeOf[old] = NoId]
    <2>1. d = [order |-> Tail(m.order), nativeOf |-> native1, byJob |-> m.byJob, byQueue |-> m.byQueue]
      <3>1. PICK o, na, jo, qu : m = [order |-> o, nativeOf |-> na, byJob |-> jo, byQueue |-> qu]
        BY DEF MemoryType
      <3>2. d = [[order |-> o, nativeOf |-> na, byJob |-> jo, byQueue |-> qu]
                   EXCEPT !.order = Tail(m.order), !.nativeOf[old] = NoId]
        BY <3>1
      <3> HIDE DEF d, old
      <3>3. d = [order |-> Tail(m.order), nativeOf |-> [na EXCEPT ![old] = NoId],
                 byJob |-> jo, byQueue |-> qu]
        BY <3>2, RecordExcept
      <3>4. QED
        BY <3>1, <3>3
    <2>2. EvictOldest(m) = [d EXCEPT !.byJob = Cleared(d.byJob, old),
                                       !.byQueue = Cleared(d.byQueue, old)]
      BY DEF EvictOldest, ClearMappings
    <2> HIDE DEF d, old, native1, job1, queue1
    <2>3. QED
      BY <1>3, <2>1, <2>2
  <1>5. native1 \in [Ids -> NativeJobs \cup {NoId}]
    BY <1>1
  <1>6. job1 \in [NativeJobs -> Ids \cup {NoId}] /\ queue1 \in [QueueJobs -> Ids \cup {NoId}]
    BY <1>1
  <1>7. EvictOldest(m) \in MemoryType
    <2> HIDE DEF native1, job1, queue1
    <2>1. QED
      BY <1>2, <1>4, <1>5, <1>6 DEF MemoryType
  <1>8. QED
    BY <1>1, <1>4, <1>7

(***************************************************************************)
(* A store that conflicts with nothing keeps the indexes in agreement, and *)
(* so does an eviction (result-registry.ts lines 100-181).                 *)
(***************************************************************************)
LEMMA InsertKeepsSound ==
  ASSUME NEW m, Sound(m), NEW e \in Entry, ~Conflict(m, e)
  PROVE  /\ Sound(Insert(m, e))
         /\ Len(Insert(m, e).order) \in {Len(m.order), Len(m.order) + 1}
  <1> DEFINE i == Insert(m, e)
  <1>1. /\ m.order \in Seq(Ids) /\ m.nativeOf \in [Ids -> NativeJobs \cup {NoId}]
        /\ m.byJob \in [NativeJobs -> Ids \cup {NoId}]
        /\ m.byQueue \in [QueueJobs -> Ids \cup {NoId}]
        /\ e.id \in Ids /\ e.native \in NativeJobs /\ e.queue \in QueueJobs
    BY DEF Sound, MemoryType, Entry
  <1>2. /\ i \in MemoryType
        /\ i.order = IF m.nativeOf[e.id] # NoId THEN m.order ELSE Append(m.order, e.id)
        /\ \A v \in Ids : i.nativeOf[v] = IF v = e.id THEN e.native ELSE m.nativeOf[v]
        /\ \A n \in NativeJobs : i.byJob[n] =
               IF n = e.native THEN e.id ELSE IF m.byJob[n] = e.id THEN NoId ELSE m.byJob[n]
        /\ \A q \in QueueJobs : i.byQueue[q] =
               IF q = e.queue THEN e.id ELSE IF m.byQueue[q] = e.id THEN NoId ELSE m.byQueue[q]
    BY InsertEffect DEF Sound
  <1>3. /\ m.byJob[e.native] \in {NoId, e.id} /\ m.byQueue[e.queue] \in {NoId, e.id}
    BY DEF Conflict
  <1>4. NoId \notin Ids /\ NoId \notin NativeJobs
    BY RegistryAssumption
  <1> HIDE DEF i
  <1>5. OrderOf(i) /\ Len(i.order) \in {Len(m.order), Len(m.order) + 1}
    <2>1. /\ \A j, k \in 1..Len(m.order) : j # k => m.order[j] # m.order[k]
          /\ \A v \in Ids : m.nativeOf[v] # NoId <=> \E k \in 1..Len(m.order) : m.order[k] = v
      BY DEF Sound, OrderOf
    <2>2. \A v \in Ids : i.nativeOf[v] # NoId <=> v = e.id \/ m.nativeOf[v] # NoId
      BY <1>1, <1>2, <1>4
    <2>3. CASE m.nativeOf[e.id] # NoId
      BY <1>1, <1>2, <2>1, <2>2, <2>3 DEF OrderOf
    <2>4. CASE m.nativeOf[e.id] = NoId
      <3>1. /\ i.order = Append(m.order, e.id) /\ Len(m.order) \in Nat
            /\ Len(i.order) = Len(m.order) + 1
            /\ \A k \in 1..Len(m.order) : i.order[k] = m.order[k]
            /\ i.order[Len(m.order) + 1] = e.id
        BY <1>1, <1>2, <2>4
      <3>2. \A k \in 1..Len(m.order) : m.order[k] # e.id
        BY <1>1, <2>1, <2>4
      <3>3. \A k \in 1..Len(i.order) : k \in 1..Len(m.order) \/ k = Len(m.order) + 1
        BY <3>1
      <3>4. \A j, k \in 1..Len(i.order) : j # k => i.order[j] # i.order[k]
        BY <2>1, <3>1, <3>2, <3>3
      <3>5. Len(m.order) + 1 \in 1..Len(i.order) /\ \A k \in 1..Len(m.order) : k \in 1..Len(i.order)
        BY <3>1
      <3>6. ASSUME NEW v \in Ids
            PROVE  i.nativeOf[v] # NoId <=> \E k \in 1..Len(i.order) : i.order[k] = v
        BY <2>1, <2>2, <3>1, <3>3, <3>5
      <3>7. QED
        BY <3>1, <3>4, <3>6 DEF OrderOf
    <2>5. QED
      BY <2>3, <2>4
  <1>6. IndexesOf(i)
    <2>1. /\ \A n \in NativeJobs, v \in Ids : m.byJob[n] = v <=> m.nativeOf[v] = n
          /\ \A q \in QueueJobs : m.byQueue[q] # NoId => m.nativeOf[m.byQueue[q]] # NoId
          /\ \A v \in Ids : m.nativeOf[v] # NoId => \E q \in QueueJobs : m.byQueue[q] = v
          /\ \A p, q \in QueueJobs : m.byQueue[p] = m.byQueue[q] /\ m.byQueue[p] # NoId => p = q
      BY DEF Sound, IndexesOf
    <2>2. ASSUME NEW n \in NativeJobs, NEW v \in Ids PROVE i.byJob[n] = v <=> i.nativeOf[v] = n
      BY <1>1, <1>2, <1>3, <1>4, <2>1
    <2>3. ASSUME NEW q \in QueueJobs, i.byQueue[q] # NoId PROVE i.nativeOf[i.byQueue[q]] # NoId
      BY <1>1, <1>2, <1>4, <2>1, <2>3
    <2>4. ASSUME NEW v \in Ids, i.nativeOf[v] # NoId PROVE \E q \in QueueJobs : i.byQueue[q] = v
      BY <1>1, <1>2, <1>3, <1>4, <2>1, <2>4
    <2>5. ASSUME NEW p \in QueueJobs, NEW q \in QueueJobs, i.byQueue[p] = i.byQueue[q],
                 i.byQueue[p] # NoId
          PROVE  p = q
      BY <1>1, <1>2, <1>4, <2>1, <2>5
    <2>6. QED
      BY <2>2, <2>3, <2>4, <2>5 DEF IndexesOf
  <1>7. QED
    BY <1>2, <1>5, <1>6 DEF Sound, i

LEMMA EvictKeepsSound ==
  ASSUME NEW m, Sound(m), Len(m.order) > 0
  PROVE  Sound(EvictOldest(m)) /\ Len(EvictOldest(m).order) = Len(m.order) - 1
  <1> DEFINE x == EvictOldest(m)
             old == Head(m.order)
  <1>1. /\ m.order \in Seq(Ids) /\ m.nativeOf \in [Ids -> NativeJobs \cup {NoId}]
        /\ m.byJob \in [NativeJobs -> Ids \cup {NoId}]
        /\ m.byQueue \in [QueueJobs -> Ids \cup {NoId}]
    BY DEF Sound, MemoryType
  <1>2. /\ x \in MemoryType /\ x.order = Tail(m.order)
        /\ \A v \in Ids : x.nativeOf[v] = IF v = old THEN NoId ELSE m.nativeOf[v]
        /\ \A n \in NativeJobs : x.byJob[n] = IF m.byJob[n] = old THEN NoId ELSE m.byJob[n]
        /\ \A q \in QueueJobs : x.byQueue[q] = IF m.byQueue[q] = old THEN NoId ELSE m.byQueue[q]
    BY EvictEffect DEF Sound
  <1>3. NoId \notin Ids /\ NoId \notin NativeJobs
    BY RegistryAssumption
  <1>4. /\ old = m.order[1] /\ old \in Ids /\ Len(m.order) \in Nat
        /\ Len(x.order) = Len(m.order) - 1
        /\ \A k \in 1..Len(x.order) : k + 1 \in 1..Len(m.order) /\ x.order[k] = m.order[k + 1]
    BY <1>1, <1>2
  <1> HIDE DEF x, old
  <1>5. OrderOf(x)
    <2>1. /\ \A j, k \in 1..Len(m.order) : j # k => m.order[j] # m.order[k]
          /\ \A v \in Ids : m.nativeOf[v] # NoId <=> \E k \in 1..Len(m.order) : m.order[k] = v
      BY DEF Sound, OrderOf
    <2>2. \A j, k \in 1..Len(x.order) : j # k => x.order[j] # x.order[k]
      <3> SUFFICES ASSUME NEW j \in 1..Len(x.order), NEW k \in 1..Len(x.order), j # k
                   PROVE  x.order[j] # x.order[k]
        OBVIOUS
      <3>1. j + 1 \in 1..Len(m.order) /\ k + 1 \in 1..Len(m.order) /\ j + 1 # k + 1
        BY <1>4
      <3>2. m.order[j + 1] # m.order[k + 1]
        BY <2>1, <3>1
      <3>3. QED
        BY <1>4, <3>2
    <2>3. ASSUME NEW v \in Ids, NEW k \in 1..Len(x.order), x.order[k] = v PROVE x.nativeOf[v] # NoId
      <3>1. k + 1 \in 1..Len(m.order) /\ 1 \in 1..Len(m.order) /\ k + 1 # 1 /\ m.order[k + 1] = v
        BY <1>4, <2>3
      <3>2. v # old /\ m.nativeOf[v] # NoId
        BY <1>4, <2>1, <3>1
      <3>3. QED
        BY <1>2, <3>2
    <2>4. ASSUME NEW v \in Ids, x.nativeOf[v] # NoId PROVE \E k \in 1..Len(x.order) : x.order[k] = v
      <3>1. v # old /\ m.nativeOf[v] # NoId
        BY <1>2, <2>4
      <3>2. PICK k \in 1..Len(m.order) : m.order[k] = v
        BY <2>1, <3>1
      <3>3. k # 1
        BY <1>4, <3>1, <3>2
      <3>4. k - 1 \in 1..Len(x.order) /\ (k - 1) + 1 = k
        BY <1>4, <3>3
      <3>5. QED
        BY <1>4, <3>2, <3>4
    <2>5. QED
      BY <2>2, <2>3, <2>4 DEF OrderOf
  <1>6. IndexesOf(x)
    BY <1>1, <1>2, <1>3, <1>4 DEF Sound, IndexesOf
  <1>7. QED
    BY <1>2, <1>4, <1>5, <1>6 DEF Sound, x

LEMMA StoredIsSound ==
  ASSUME NEW m, Sound(m), Len(m.order) <= MaxResults,
         NEW e \in Entry, ~Conflict(m, e)
  PROVE  Sound(Stored(m, e)) /\ Len(Stored(m, e).order) <= MaxResults
  <1>1. /\ Sound(Insert(m, e))
        /\ Len(Insert(m, e).order) \in {Len(m.order), Len(m.order) + 1}
    BY InsertKeepsSound
  <1>2. MaxResults \in Nat \ {0} /\ Len(m.order) \in Nat
    BY RegistryAssumption DEF Sound, MemoryType
  <1>3. CASE Len(Insert(m, e).order) > MaxResults
    <2>1. Len(Insert(m, e).order) > 0
      BY <1>1, <1>2, <1>3
    <2>2. /\ Sound(EvictOldest(Insert(m, e)))
          /\ Len(EvictOldest(Insert(m, e)).order) = Len(Insert(m, e).order) - 1
      BY <1>1, <2>1, EvictKeepsSound
    <2>3. Stored(m, e) = EvictOldest(Insert(m, e))
      BY <1>3 DEF Stored
    <2>4. QED
      BY <1>1, <1>2, <2>2, <2>3
  <1>4. CASE ~(Len(Insert(m, e).order) > MaxResults)
    <2>1. Stored(m, e) = Insert(m, e)
      BY <1>4 DEF Stored
    <2>2. QED
      BY <1>1, <1>2, <1>4, <2>1
  <1>5. QED
    BY <1>3, <1>4

(***************************************************************************)
(* The entry list names each queue job once and stays within the limit.    *)
(***************************************************************************)
Lists(es) ==
    /\ es \in Seq(Entry) /\ Len(es) <= MaxResults
    /\ \A i, k \in 1..Len(es) : i # k => es[i].queue # es[k].queue

LEMMA ListedLists ==
  ASSUME NEW es, Lists(es), NEW e \in Entry
  PROVE  Lists(Listed(es, e))
  <1> DEFINE others == {i \in 1..Len(es) : es[i].queue # e.queue /\ es[i].id # e.id}
             only == Only(es, others)
             pushed == Append(only, e)
  <1>1. /\ es \in Seq(Entry) /\ Len(es) \in Nat /\ Len(es) <= MaxResults
        /\ others \in SUBSET (1..Len(es))
    BY DEF Lists
  <1>0. \A i \in others : i \in 1..Len(es) /\ es[i].queue # e.queue
    OBVIOUS
  <1> HIDE DEF others
  <1>2. only \in Seq(Entry) /\ Len(only) <= Len(es)
    BY <1>1, OnlyTakes
  <1>3. PICK p \in [1..Len(only) -> others] :
           /\ \A a, b \in 1..Len(only) : a # b => p[a] # p[b]
           /\ \A k \in 1..Len(only) : only[k] = es[p[k]]
    BY <1>1, OnlyTakes
  <1>4. \A k \in 1..Len(only) : only[k].queue # e.queue
    <2>1. \A k \in 1..Len(only) : p[k] \in others
      BY <1>3
    <2>2. QED
      BY <1>3, <1>0, <2>1
  <1>5. \A a, b \in 1..Len(only) : a # b => only[a].queue # only[b].queue
    <2>1. \A k \in 1..Len(only) : p[k] \in 1..Len(es)
      BY <1>3, <1>0
    <2> HIDE DEF only
    <2>2. QED
      BY <1>3, <2>1 DEF Lists
  <1> HIDE DEF only
  <1>6. /\ pushed \in Seq(Entry) /\ Len(only) \in Nat /\ Len(pushed) = Len(only) + 1
        /\ \A k \in 1..Len(only) : pushed[k] = only[k]
        /\ pushed[Len(only) + 1] = e
    BY <1>2
  <1>7. \A k \in 1..Len(pushed) : k \in 1..Len(only) \/ k = Len(only) + 1
    BY <1>6
  <1> HIDE DEF pushed
  <1>8. \A a, b \in 1..Len(pushed) : a # b => pushed[a].queue # pushed[b].queue
    BY <1>4, <1>5, <1>6, <1>7
  <1>9. MaxResults \in Nat \ {0}
    BY RegistryAssumption
  <1>10. CASE Len(pushed) > MaxResults
    <2>1. Listed(es, e) = Tail(pushed)
      BY <1>10 DEF Listed, pushed, only, others
    <2>2. /\ Tail(pushed) \in Seq(Entry) /\ Len(Tail(pushed)) = Len(pushed) - 1
          /\ \A k \in 1..Len(Tail(pushed)) : /\ k + 1 \in 1..Len(pushed)
                                             /\ Tail(pushed)[k] = pushed[k + 1]
      BY <1>6, <1>9, <1>10
    <2>3. \A a, b \in 1..Len(Tail(pushed)) : a # b =>
              Tail(pushed)[a].queue # Tail(pushed)[b].queue
      <3> SUFFICES ASSUME NEW a \in 1..Len(Tail(pushed)), NEW b \in 1..Len(Tail(pushed)), a # b
                   PROVE  Tail(pushed)[a].queue # Tail(pushed)[b].queue
        OBVIOUS
      <3>1. a + 1 \in 1..Len(pushed) /\ b + 1 \in 1..Len(pushed) /\ a + 1 # b + 1
        BY <2>2
      <3>2. QED
        BY <1>8, <2>2, <3>1
    <2>4. Len(Tail(pushed)) <= MaxResults
      BY <1>1, <1>2, <1>6, <1>9, <2>2
    <2>5. QED
      BY <2>1, <2>2, <2>3, <2>4 DEF Lists
  <1>11. CASE ~(Len(pushed) > MaxResults)
    <2>1. Listed(es, e) = pushed
      BY <1>11 DEF Listed, pushed, only, others
    <2>2. QED
      BY <1>6, <1>8, <1>9, <1>11, <2>1 DEF Lists
  <1>12. QED
    BY <1>10, <1>11

\* The entries are those a memory retains.
Retains(m, es) ==
    \A i \in 1..Len(es) : /\ m.byQueue[es[i].queue] = es[i].id
                          /\ m.nativeOf[es[i].id] = es[i].native

(***************************************************************************)
(* What persist writes is a file of retained results, each identity once.  *)
(***************************************************************************)
LEMMA SnapshotIsFile ==
  ASSUME NEW m, Sound(m), NEW es, Lists(es)
  PROVE  IsFile(Snapshot(m, es)) /\ Retains(m, Snapshot(m, es))
  <1> DEFINE at == {i \in 1..Len(es) : m.byQueue[es[i].queue] # NoId}
             live == Only(es, at)
             shot == Snapshot(m, es)
             idOf(k) == m.byQueue[live[k].queue]
  <1>1. es \in Seq(Entry) /\ Len(es) \in Nat /\ Len(es) <= MaxResults
    BY DEF Lists
  <1>0. at \in SUBSET (1..Len(es)) /\ \A i \in at : m.byQueue[es[i].queue] # NoId
    OBVIOUS
  <1> HIDE DEF at
  <1>2. live \in Seq(Entry) /\ Len(live) <= Len(es) /\ Len(live) \in Nat
    BY <1>1, <1>0, OnlyTakes
  <1>3. PICK p \in [1..Len(live) -> at] :
           /\ \A a, b \in 1..Len(live) : a # b => p[a] # p[b]
           /\ \A k \in 1..Len(live) : live[k] = es[p[k]]
    BY <1>1, <1>0, OnlyTakes
  <1>4. \A k \in 1..Len(live) : live[k].queue \in QueueJobs /\ idOf(k) # NoId
    <2>1. \A k \in 1..Len(live) : live[k] \in Entry
      <3> HIDE DEF live
      <3>1. QED
        BY <1>2, ElementOfSeq
    <2>2. \A k \in 1..Len(live) : p[k] \in at
      BY <1>3
    <2> HIDE DEF live
    <2>3. QED
      BY <1>3, <1>0, <2>1, <2>2 DEF Entry
  <1>5. \A a, b \in 1..Len(live) : a # b => live[a].queue # live[b].queue
    <2>1. \A k \in 1..Len(live) : p[k] \in 1..Len(es)
      BY <1>3, <1>0
    <2> HIDE DEF live
    <2>2. QED
      BY <1>3, <2>1 DEF Lists
  <1>6. shot = [k \in 1..Len(live) |->
                  [queue |-> live[k].queue, id |-> idOf(k), native |-> m.nativeOf[idOf(k)]]]
    BY DEF Snapshot, at
  <1> HIDE DEF live, shot
  <1>7. /\ m.nativeOf \in [Ids -> NativeJobs \cup {NoId}]
        /\ m.byQueue \in [QueueJobs -> Ids \cup {NoId}]
        /\ \A n \in NativeJobs, v \in Ids : m.byJob[n] = v <=> m.nativeOf[v] = n
        /\ \A q \in QueueJobs : m.byQueue[q] # NoId => m.nativeOf[m.byQueue[q]] # NoId
        /\ \A a, b \in QueueJobs : m.byQueue[a] = m.byQueue[b] /\ m.byQueue[a] # NoId => a = b
    BY DEF Sound, MemoryType, IndexesOf
  <1>8. \A k \in 1..Len(live) : idOf(k) \in Ids /\ m.nativeOf[idOf(k)] \in NativeJobs
    BY <1>4, <1>7
  <1>9. \A a, b \in 1..Len(live) : a # b =>
           idOf(a) # idOf(b) /\ m.nativeOf[idOf(a)] # m.nativeOf[idOf(b)]
    <2> SUFFICES ASSUME NEW a \in 1..Len(live), NEW b \in 1..Len(live), a # b
                 PROVE  idOf(a) # idOf(b) /\ m.nativeOf[idOf(a)] # m.nativeOf[idOf(b)]
      OBVIOUS
    <2>1. idOf(a) # idOf(b)
      BY <1>4, <1>5, <1>7
    <2> HIDE DEF idOf
    <2>2. m.nativeOf[idOf(a)] # m.nativeOf[idOf(b)]
      <3>1. /\ m.byJob[m.nativeOf[idOf(a)]] = idOf(a)
            /\ m.byJob[m.nativeOf[idOf(b)]] = idOf(b)
        BY <1>7, <1>8
      <3>2. QED
        BY <2>1, <3>1
    <2>3. QED
      BY <2>1, <2>2
  <1> HIDE DEF idOf
  <1>10. shot \in [1..Len(live) -> Entry]
    BY <1>4, <1>6, <1>8 DEF Entry
  <1>11. shot \in Seq(Entry) /\ Len(shot) = Len(live)
    BY <1>2, <1>10, FunctionIsSequence
  <1>12. \A k \in 1..Len(live) : /\ shot[k].queue = live[k].queue /\ shot[k].id = idOf(k)
                                 /\ shot[k].native = m.nativeOf[idOf(k)]
    BY <1>6
  <1>13. Distinct(shot)
    BY <1>5, <1>9, <1>11, <1>12 DEF Distinct
  <1>14. Retains(m, shot)
    BY <1>11, <1>12 DEF Retains, idOf
  <1>15. Len(shot) <= MaxResults
    BY <1>1, <1>2, <1>11, RegistryAssumption
  <1>16. QED
    BY <1>11, <1>13, <1>14, <1>15 DEF IsFile, shot

-----------------------------------------------------------------------------
(***************************************************************************)
(* Loading a file.  The first n entries of a file, as the memory that      *)
(* holds exactly them.                                                     *)
(***************************************************************************)
First(es, n) ==
    [order |-> [i \in 1..n |-> es[i].id],
     nativeOf |-> [v \in Ids |-> IF \E i \in 1..n : es[i].id = v
                                 THEN es[CHOOSE i \in 1..n : es[i].id = v].native ELSE NoId],
     byJob |-> [x \in NativeJobs |-> IF \E i \in 1..n : es[i].native = x
                                     THEN es[CHOOSE i \in 1..n : es[i].native = x].id ELSE NoId],
     byQueue |-> [q \in QueueJobs |-> IF \E i \in 1..n : es[i].queue = q
                                      THEN es[CHOOSE i \in 1..n : es[i].queue = q].id ELSE NoId]]

\* The entries of a file.
LEMMA FileEntries ==
  ASSUME NEW es, IsFile(es)
  PROVE  /\ Len(es) \in Nat /\ Len(es) <= MaxResults
         /\ \A i \in 1..Len(es) : /\ es[i] \in Entry /\ es[i].id \in Ids
                                  /\ es[i].native \in NativeJobs /\ es[i].queue \in QueueJobs
         /\ \A i, k \in 1..Len(es) :
               /\ es[i].id = es[k].id => i = k
               /\ es[i].native = es[k].native => i = k
               /\ es[i].queue = es[k].queue => i = k
  <1>1. es \in Seq(Entry) /\ Len(es) \in Nat /\ Len(es) <= MaxResults
    BY DEF IsFile
  <1>2. \A i \in 1..Len(es) : es[i] \in Entry
    BY <1>1, ElementOfSeq
  <1>3. QED
    BY <1>1, <1>2 DEF IsFile, Distinct, Entry

LEMMA FirstHolds ==
  ASSUME NEW es, IsFile(es), NEW n \in 0..Len(es)
  PROVE  /\ First(es, n) \in MemoryType
         /\ Len(First(es, n).order) = n
         /\ \A i \in 1..n : /\ First(es, n).order[i] = es[i].id
                            /\ First(es, n).nativeOf[es[i].id] = es[i].native
                            /\ First(es, n).byJob[es[i].native] = es[i].id
                            /\ First(es, n).byQueue[es[i].queue] = es[i].id
         /\ \A v \in Ids : (\A i \in 1..n : es[i].id # v) => First(es, n).nativeOf[v] = NoId
         /\ \A x \in NativeJobs : (\A i \in 1..n : es[i].native # x) => First(es, n).byJob[x] = NoId
         /\ \A q \in QueueJobs : (\A i \in 1..n : es[i].queue # q) => First(es, n).byQueue[q] = NoId
  <1> DEFINE f == First(es, n)
             order1 == [i \in 1..n |-> es[i].id]
  <1>1. /\ Len(es) \in Nat
        /\ \A i \in 1..Len(es) : /\ es[i].id \in Ids
                                 /\ es[i].native \in NativeJobs /\ es[i].queue \in QueueJobs
        /\ \A i, k \in 1..Len(es) : /\ es[i].id = es[k].id => i = k
                                    /\ es[i].native = es[k].native => i = k
                                    /\ es[i].queue = es[k].queue => i = k
    BY FileEntries
  <1>2. n \in Nat /\ \A i \in 1..n : i \in 1..Len(es)
    BY <1>1
  <1>3. order1 \in Seq(Ids) /\ Len(order1) = n /\ \A i \in 1..n : order1[i] = es[i].id
    <2>1. order1 \in [1..n -> Ids]
      BY <1>1, <1>2
    <2>2. \A i \in 1..n : order1[i] = es[i].id
      OBVIOUS
    <2> HIDE DEF order1
    <2>3. QED
      BY <1>2, <2>1, <2>2, FunctionIsSequence
  <1>4. f.order = order1
    BY DEF First
  <1>5. /\ f.nativeOf \in [Ids -> NativeJobs \cup {NoId}]
        /\ \A i \in 1..n : f.nativeOf[es[i].id] = es[i].native
        /\ \A v \in Ids : (\A i \in 1..n : es[i].id # v) => f.nativeOf[v] = NoId
    <2> DEFINE at(v) == CHOOSE i \in 1..n : es[i].id = v
    <2>1. f.nativeOf = [v \in Ids |-> IF \E i \in 1..n : es[i].id = v
                                      THEN es[at(v)].native ELSE NoId]
      BY DEF First
    <2>2. \A v \in Ids : (\E i \in 1..n : es[i].id = v) => at(v) \in 1..n /\ es[at(v)].id = v
      OBVIOUS
    <2>3. \A i \in 1..n : at(es[i].id) = i
      BY <1>1, <1>2, <2>2
    <2> HIDE DEF f, at
    <2>4. QED
      BY <1>1, <1>2, <2>1, <2>2, <2>3
  <1>6. /\ f.byJob \in [NativeJobs -> Ids \cup {NoId}]
        /\ \A i \in 1..n : f.byJob[es[i].native] = es[i].id
        /\ \A x \in NativeJobs : (\A i \in 1..n : es[i].native # x) => f.byJob[x] = NoId
    <2> DEFINE at(x) == CHOOSE i \in 1..n : es[i].native = x
    <2>1. f.byJob = [x \in NativeJobs |-> IF \E i \in 1..n : es[i].native = x
                                          THEN es[at(x)].id ELSE NoId]
      BY DEF First
    <2>2. \A x \in NativeJobs : (\E i \in 1..n : es[i].native = x)
                                => at(x) \in 1..n /\ es[at(x)].native = x
      OBVIOUS
    <2>3. \A i \in 1..n : at(es[i].native) = i
      BY <1>1, <1>2, <2>2
    <2> HIDE DEF f, at
    <2>4. QED
      BY <1>1, <1>2, <2>1, <2>2, <2>3
  <1>7. /\ f.byQueue \in [QueueJobs -> Ids \cup {NoId}]
        /\ \A i \in 1..n : f.byQueue[es[i].queue] = es[i].id
        /\ \A q \in QueueJobs : (\A i \in 1..n : es[i].queue # q) => f.byQueue[q] = NoId
    <2> DEFINE at(q) == CHOOSE i \in 1..n : es[i].queue = q
    <2>1. f.byQueue = [q \in QueueJobs |-> IF \E i \in 1..n : es[i].queue = q
                                           THEN es[at(q)].id ELSE NoId]
      BY DEF First
    <2>2. \A q \in QueueJobs : (\E i \in 1..n : es[i].queue = q)
                               => at(q) \in 1..n /\ es[at(q)].queue = q
      OBVIOUS
    <2>3. \A i \in 1..n : at(es[i].queue) = i
      BY <1>1, <1>2, <2>2
    <2> HIDE DEF f, at
    <2>4. QED
      BY <1>1, <1>2, <2>1, <2>2, <2>3
  <1>8. f = [order |-> f.order, nativeOf |-> f.nativeOf, byJob |-> f.byJob, byQueue |-> f.byQueue]
    BY DEF First
  <1> HIDE DEF f, order1
  <1>9. f \in MemoryType
    BY <1>3, <1>4, <1>5, <1>6, <1>7, <1>8 DEF MemoryType
  <1>10. QED
    BY <1>3, <1>4, <1>5, <1>6, <1>7, <1>9 DEF f

\* It is a sound memory, and holds what the file holds.
LEMMA FirstIsSound ==
  ASSUME NEW es, IsFile(es), NEW n \in 0..Len(es)
  PROVE  Sound(First(es, n))
  <1> DEFINE f == First(es, n)
  <1>1. /\ Len(es) \in Nat
        /\ \A i \in 1..Len(es) : /\ es[i].id \in Ids
                                 /\ es[i].native \in NativeJobs /\ es[i].queue \in QueueJobs
        /\ \A i, k \in 1..Len(es) : /\ es[i].id = es[k].id => i = k
                                    /\ es[i].native = es[k].native => i = k
                                    /\ es[i].queue = es[k].queue => i = k
    BY FileEntries
  <1>2. /\ f \in MemoryType /\ Len(f.order) = n
        /\ \A i \in 1..n : /\ f.order[i] = es[i].id
                           /\ f.nativeOf[es[i].id] = es[i].native
                           /\ f.byJob[es[i].native] = es[i].id
                           /\ f.byQueue[es[i].queue] = es[i].id
        /\ \A v \in Ids : (\A i \in 1..n : es[i].id # v) => f.nativeOf[v] = NoId
        /\ \A x \in NativeJobs : (\A i \in 1..n : es[i].native # x) => f.byJob[x] = NoId
        /\ \A q \in QueueJobs : (\A i \in 1..n : es[i].queue # q) => f.byQueue[q] = NoId
    BY FirstHolds
  <1>3. NoId \notin Ids /\ NoId \notin NativeJobs
    BY RegistryAssumption
  <1>4. \A i \in 1..n : i \in 1..Len(es)
    BY <1>1
  <1> HIDE DEF f
  <1>5. OrderOf(f)
    BY <1>1, <1>2, <1>3, <1>4 DEF OrderOf
  <1>6. ASSUME NEW x \in NativeJobs, NEW v \in Ids PROVE f.byJob[x] = v <=> f.nativeOf[v] = x
    <2>1. CASE \E i \in 1..n : es[i].native = x
      BY <1>1, <1>2, <1>3, <1>4, <2>1
    <2>2. CASE \A i \in 1..n : es[i].native # x
      BY <1>1, <1>2, <1>3, <1>4, <2>2
    <2>3. QED
      BY <2>1, <2>2
  <1>7. \A q \in QueueJobs : f.byQueue[q] # NoId => f.nativeOf[f.byQueue[q]] # NoId
    BY <1>1, <1>2, <1>3, <1>4
  <1>8. \A v \in Ids : f.nativeOf[v] # NoId => \E q \in QueueJobs : f.byQueue[q] = v
    BY <1>1, <1>2, <1>3, <1>4
  <1>9. \A p, q \in QueueJobs : f.byQueue[p] = f.byQueue[q] /\ f.byQueue[p] # NoId => p = q
    BY <1>1, <1>2, <1>3, <1>4
  <1>10. QED
    BY <1>2, <1>5, <1>6, <1>7, <1>8, <1>9 DEF Sound, IndexesOf, f

\* Memories with the same parts are the same.
LEMMA SameMemory ==
  ASSUME NEW m1 \in MemoryType, NEW m2 \in MemoryType,
         m1.order = m2.order,
         \A v \in Ids : m1.nativeOf[v] = m2.nativeOf[v],
         \A x \in NativeJobs : m1.byJob[x] = m2.byJob[x],
         \A q \in QueueJobs : m1.byQueue[q] = m2.byQueue[q]
  PROVE  m1 = m2
  <1>1. m1.nativeOf = m2.nativeOf
    BY DEF MemoryType
  <1>2. m1.byJob = m2.byJob
    BY DEF MemoryType
  <1>3. m1.byQueue = m2.byQueue
    BY DEF MemoryType
  <1>4. QED
    BY <1>1, <1>2, <1>3 DEF MemoryType

(***************************************************************************)
(* Storing the next entry of a file conflicts with none before it and      *)
(* evicts none (result-registry.ts lines 244-250).                         *)
(***************************************************************************)
LEMMA NextEntryIsStored ==
  ASSUME NEW es, IsFile(es), NEW n \in 1..Len(es)
  PROVE  /\ ~Conflict(First(es, n - 1), es[n])
         /\ Stored(First(es, n - 1), es[n]) = First(es, n)
  <1> DEFINE f == First(es, n - 1)
             g == First(es, n)
             e == es[n]
             s == Insert(f, e)
  <1>1. /\ Len(es) \in Nat /\ Len(es) <= MaxResults
        /\ \A i \in 1..Len(es) : /\ es[i] \in Entry /\ es[i].id \in Ids
                                 /\ es[i].native \in NativeJobs /\ es[i].queue \in QueueJobs
        /\ \A i, k \in 1..Len(es) : /\ es[i].id = es[k].id => i = k
                                    /\ es[i].native = es[k].native => i = k
                                    /\ es[i].queue = es[k].queue => i = k
    BY FileEntries
  <1>2. n - 1 \in 0..Len(es) /\ n \in 0..Len(es) /\ n \in Nat
    BY <1>1
  <1>3. /\ f \in MemoryType /\ Len(f.order) = n - 1
        /\ \A i \in 1..(n - 1) : /\ f.order[i] = es[i].id
                                 /\ f.nativeOf[es[i].id] = es[i].native
                                 /\ f.byJob[es[i].native] = es[i].id
                                 /\ f.byQueue[es[i].queue] = es[i].id
        /\ \A v \in Ids : (\A i \in 1..(n - 1) : es[i].id # v) => f.nativeOf[v] = NoId
        /\ \A x \in NativeJobs : (\A i \in 1..(n - 1) : es[i].native # x) => f.byJob[x] = NoId
        /\ \A q \in QueueJobs : (\A i \in 1..(n - 1) : es[i].queue # q) => f.byQueue[q] = NoId
    BY <1>2, FirstHolds
  <1>4. /\ g \in MemoryType /\ Len(g.order) = n
        /\ \A i \in 1..n : /\ g.order[i] = es[i].id
                           /\ g.nativeOf[es[i].id] = es[i].native
                           /\ g.byJob[es[i].native] = es[i].id
                           /\ g.byQueue[es[i].queue] = es[i].id
        /\ \A v \in Ids : (\A i \in 1..n : es[i].id # v) => g.nativeOf[v] = NoId
        /\ \A x \in NativeJobs : (\A i \in 1..n : es[i].native # x) => g.byJob[x] = NoId
        /\ \A q \in QueueJobs : (\A i \in 1..n : es[i].queue # q) => g.byQueue[q] = NoId
    BY <1>2, FirstHolds
  <1>5. \A i \in 1..(n - 1) : i \in 1..Len(es) /\ i # n /\ i \in 1..n
    BY <1>1
  <1>6. \A i \in 1..n : i \in 1..(n - 1) \/ i = n
    BY <1>2
  <1>7. n \in 1..n
    BY <1>2
  <1> HIDE DEF f, g
  <1>8. f.nativeOf[e.id] = NoId /\ f.byJob[e.native] = NoId /\ f.byQueue[e.queue] = NoId
    BY <1>1, <1>3, <1>5
  <1>9. \A x \in NativeJobs : f.byJob[x] # e.id
    BY <1>1, <1>3, <1>5, RegistryAssumption
  <1>10. \A q \in QueueJobs : f.byQueue[q] # e.id
    BY <1>1, <1>3, <1>5, RegistryAssumption
  <1>11. /\ s \in MemoryType
         /\ s.order = Append(f.order, e.id)
         /\ \A v \in Ids : s.nativeOf[v] = IF v = e.id THEN e.native ELSE f.nativeOf[v]
         /\ \A x \in NativeJobs : s.byJob[x] = IF x = e.native THEN e.id ELSE f.byJob[x]
         /\ \A q \in QueueJobs : s.byQueue[q] = IF q = e.queue THEN e.id ELSE f.byQueue[q]
    <2>1. f \in MemoryType /\ e \in Entry
      BY <1>1, <1>3
    <2>2. /\ s \in MemoryType
          /\ s.order = IF f.nativeOf[e.id] # NoId THEN f.order ELSE Append(f.order, e.id)
          /\ \A v \in Ids : s.nativeOf[v] = IF v = e.id THEN e.native ELSE f.nativeOf[v]
          /\ \A x \in NativeJobs : s.byJob[x] =
                IF x = e.native THEN e.id ELSE IF f.byJob[x] = e.id THEN NoId ELSE f.byJob[x]
          /\ \A q \in QueueJobs : s.byQueue[q] =
                IF q = e.queue THEN e.id ELSE IF f.byQueue[q] = e.id THEN NoId ELSE f.byQueue[q]
      <3> HIDE DEF e
      <3>1. QED
        BY <2>1, InsertEffect
    <2> HIDE DEF s, e
    <2>3. QED
      BY <1>8, <1>9, <1>10, <2>2
  <1> HIDE DEF s
  <1>12. s = g
    <2>1. s.order = g.order
      <3>1. f.order \in Seq(Ids) /\ g.order \in Seq(Ids) /\ e.id \in Ids
        BY <1>1, <1>3, <1>4 DEF MemoryType
      <3>2. /\ Append(f.order, e.id) \in Seq(Ids) /\ Len(Append(f.order, e.id)) = n
            /\ \A i \in 1..n : Append(f.order, e.id)[i] = IF i = n THEN e.id ELSE f.order[i]
        BY <1>2, <1>3, <1>6, <3>1
      <3>3. \A i \in 1..n : Append(f.order, e.id)[i] = g.order[i]
        BY <1>3, <1>4, <1>6, <3>2
      <3>4. Append(f.order, e.id) = g.order
        <4> DEFINE o == Append(f.order, e.id)
        <4>1. o \in Seq(Ids) /\ Len(o) = Len(g.order) /\ \A i \in 1..Len(o) : o[i] = g.order[i]
          BY <1>4, <3>2, <3>3
        <4> HIDE DEF o
        <4>2. o = g.order
          BY <3>1, <4>1, SeqEqual
        <4>3. QED
          BY <4>2 DEF o
      <3>5. QED
        BY <1>11, <3>4
    <2>2. ASSUME NEW v \in Ids PROVE s.nativeOf[v] = g.nativeOf[v]
      <3>1. CASE \E i \in 1..n : es[i].id = v
        BY <1>1, <1>3, <1>4, <1>5, <1>6, <1>11, <3>1
      <3>2. CASE \A i \in 1..n : es[i].id # v
        <4>1. v # e.id /\ f.nativeOf[v] = NoId /\ g.nativeOf[v] = NoId
          BY <1>3, <1>4, <1>5, <1>7, <3>2
        <4>2. QED
          BY <1>11, <4>1
      <3>3. QED
        BY <3>1, <3>2
    <2>3. ASSUME NEW x \in NativeJobs PROVE s.byJob[x] = g.byJob[x]
      <3>1. CASE \E i \in 1..n : es[i].native = x
        BY <1>1, <1>3, <1>4, <1>5, <1>6, <1>11, <3>1
      <3>2. CASE \A i \in 1..n : es[i].native # x
        <4>1. x # e.native /\ f.byJob[x] = NoId /\ g.byJob[x] = NoId
          BY <1>3, <1>4, <1>5, <1>7, <3>2
        <4>2. QED
          BY <1>11, <4>1
      <3>3. QED
        BY <3>1, <3>2
    <2>4. ASSUME NEW q \in QueueJobs PROVE s.byQueue[q] = g.byQueue[q]
      <3>1. CASE \E i \in 1..n : es[i].queue = q
        BY <1>1, <1>3, <1>4, <1>5, <1>6, <1>11, <3>1
      <3>2. CASE \A i \in 1..n : es[i].queue # q
        <4>1. q # e.queue /\ f.byQueue[q] = NoId /\ g.byQueue[q] = NoId
          BY <1>3, <1>4, <1>5, <1>7, <3>2
        <4>2. QED
          BY <1>11, <4>1
      <3>3. QED
        BY <3>1, <3>2
    <2>5. QED
      BY <1>4, <1>11, <2>1, <2>2, <2>3, <2>4, SameMemory
  <1>13. ~(Len(s.order) > MaxResults)
    BY <1>1, <1>2, <1>4, <1>12, RegistryAssumption
  <1>14. Stored(f, e) = s
    BY <1>13 DEF Stored, s
  <1>15. ~Conflict(f, e)
    BY <1>8 DEF Conflict
  <1>16. QED
    BY <1>12, <1>14, <1>15 DEF f, g

\* The recursion of Loaded, as a property of a function.
Loads(load, es) ==
    load = [n \in 0..Len(es) |->
               IF n = 0 THEN EmptyMemory
               ELSE IF Conflict(load[n - 1], es[n]) THEN load[n - 1]
               ELSE Stored(load[n - 1], es[n])]

(***************************************************************************)
(* A restart finds exactly the results of the file: no entry is refused    *)
(* and none is evicted.                                                    *)
(***************************************************************************)
LEMMA LoadedIsFile ==
  ASSUME NEW es, IsFile(es)
  PROVE  Loaded(es) = First(es, Len(es))
  <1> DEFINE g == [n \in 0..Len(es) |-> First(es, n)]
  <1>1. Len(es) \in Nat
    BY FileEntries
  <1>2. First(es, 0) = EmptyMemory
    <2>1. [i \in 1..0 |-> es[i].id] = <<>>
      OBVIOUS
    <2>2. QED
      BY <2>1 DEF First, EmptyMemory
  <1>3. Loads(g, es)
    <2> DEFINE h == [n \in 0..Len(es) |->
                        IF n = 0 THEN EmptyMemory
                        ELSE IF Conflict(g[n - 1], es[n]) THEN g[n - 1]
                        ELSE Stored(g[n - 1], es[n])]
    <2>1. ASSUME NEW n \in 0..Len(es) PROVE g[n] = h[n]
      <3>1. CASE n = 0
        BY <1>2, <3>1
      <3>2. CASE n # 0
        <4>1. n \in 1..Len(es) /\ n - 1 \in 0..Len(es)
          BY <1>1, <3>2
        <4>2. g[n - 1] = First(es, n - 1) /\ g[n] = First(es, n)
          BY <4>1
        <4>3. /\ ~Conflict(First(es, n - 1), es[n])
              /\ Stored(First(es, n - 1), es[n]) = First(es, n)
          BY <4>1, NextEntryIsStored
        <4>4. h[n] = IF Conflict(g[n - 1], es[n]) THEN g[n - 1] ELSE Stored(g[n - 1], es[n])
          BY <3>2
        <4> HIDE DEF g, h
        <4>5. QED
          BY <4>2, <4>3, <4>4
      <3>3. QED
        BY <3>1, <3>2
    <2>2. g = h
      <3>1. DOMAIN g = 0..Len(es) /\ DOMAIN h = 0..Len(es)
        OBVIOUS
      <3>2. g = [n \in 0..Len(es) |-> g[n]] /\ h = [n \in 0..Len(es) |-> h[n]]
        OBVIOUS
      <3> HIDE DEF g, h
      <3>3. QED
        BY <2>1, <3>2
    <2>3. QED
      BY <2>2 DEF Loads
  <1> HIDE DEF g
  <1>4. ASSUME NEW f, Loads(f, es) PROVE f[Len(es)] = First(es, Len(es))
    <2> DEFINE Wrong == {n \in 0..Len(es) : f[n] # First(es, n)}
    <2>1. Wrong \in SUBSET Nat
      BY <1>1
    <2>2. ASSUME NEW n \in Wrong, \A k \in Wrong : n <= k PROVE FALSE
      <3>1. n \in 0..Len(es) /\ f[n] # First(es, n)
        OBVIOUS
      <3>2. f[n] = IF n = 0 THEN EmptyMemory
                   ELSE IF Conflict(f[n - 1], es[n]) THEN f[n - 1]
                   ELSE Stored(f[n - 1], es[n])
        BY <1>4, <3>1 DEF Loads
      <3>3. n # 0
        BY <1>2, <3>1, <3>2
      <3>4. n \in 1..Len(es) /\ n - 1 \in 0..Len(es) /\ ~(n <= n - 1)
        BY <1>1, <3>1, <3>3
      <3>5. f[n - 1] = First(es, n - 1)
        BY <2>2, <3>4
      <3>6. ~Conflict(First(es, n - 1), es[n]) /\ Stored(First(es, n - 1), es[n]) = First(es, n)
        BY <3>4, NextEntryIsStored
      <3> HIDE DEF Wrong
      <3>7. QED
        BY <3>1, <3>2, <3>3, <3>5, <3>6
    <2>3. Wrong = {}
      <3> HIDE DEF Wrong
      <3>1. QED
        BY <2>1, <2>2, LeastNumber
    <2>4. QED
      BY <1>1, <2>3
  <1>5. Loads(CHOOSE f : Loads(f, es), es)
    BY <1>3
  <1>6. Loaded(es) = (CHOOSE f : Loads(f, es))[Len(es)]
    BY DEF Loaded, Loads
  <1>7. QED
    BY <1>4, <1>5, <1>6

-----------------------------------------------------------------------------
(***************************************************************************)
(* The inductive invariant: the memory is sound and within the limit, the  *)
(* entry list names each queue job once, and the file, written by          *)
(* whichever store, names each identity once, so that it can be loaded.    *)
(***************************************************************************)
RegistryIInv ==
    /\ Sound(Memory) /\ Len(order) <= MaxResults
    /\ Lists(entries)
    /\ IsFile(file)
    /\ synced \in BOOLEAN
    /\ synced => Retains(Memory, file)

\* The memory after SetMemory.
LEMMA MemoryAfter ==
  ASSUME NEW m, m \in MemoryType, SetMemory(m)
  PROVE  Memory' = m /\ order' = m.order
  BY DEF SetMemory, Memory, MemoryType

LEMMA EmptyIsSound ==
  /\ Sound(EmptyMemory) /\ Len(EmptyMemory.order) <= MaxResults
  /\ Lists(<<>>) /\ IsFile(<<>>) /\ \A m : Retains(m, <<>>)
  <1>1. <<>> \in Seq(Ids) /\ <<>> \in Seq(Entry) /\ Len(<<>>) = 0
    OBVIOUS
  <1>2. MaxResults \in Nat /\ NoId \notin Ids /\ NoId \notin NativeJobs
    BY RegistryAssumption
  <1>3. EmptyMemory \in MemoryType /\ EmptyMemory.order = <<>>
    BY <1>1 DEF EmptyMemory, MemoryType
  <1>4. OrderOf(EmptyMemory)
    BY <1>1 DEF EmptyMemory, OrderOf
  <1>5. IndexesOf(EmptyMemory)
    BY <1>2 DEF EmptyMemory, IndexesOf
  <1>6. Lists(<<>>) /\ IsFile(<<>>) /\ \A m : Retains(m, <<>>)
    BY <1>1, <1>2 DEF Lists, IsFile, Distinct, Retains
  <1>7. QED
    BY <1>1, <1>2, <1>3, <1>4, <1>5, <1>6 DEF Sound

LEMMA NextRegistry ==
  ASSUME RegistryIInv, [RegistryNext]_registryVars
  PROVE  RegistryIInv'
  <1>1. ASSUME UNCHANGED registryVars PROVE RegistryIInv'
    BY <1>1 DEF registryVars, memory, RegistryIInv, Memory
  <1>2. ASSUME NEW e \in Entry, Store(e) PROVE RegistryIInv'
    <2> DEFINE m == Stored(Memory, e)
               es == Listed(entries, e)
    <2>1. /\ ~Conflict(Memory, e) /\ SetMemory(m) /\ entries' = es
          /\ \/ file' = Snapshot(m, es) /\ synced' = TRUE
             \/ file' = file /\ synced' = FALSE
      BY <1>2 DEF Store
    <2>2. Sound(Memory) /\ Len(Memory.order) <= MaxResults
      BY DEF RegistryIInv, Memory
    <2>3. Sound(m) /\ Len(m.order) <= MaxResults
      BY <2>1, <2>2, StoredIsSound
    <2> HIDE DEF m
    <2>4. Memory' = m /\ order' = m.order
      BY <2>1, <2>3, MemoryAfter DEF Sound
    <2>5. Lists(es)
      BY ListedLists DEF RegistryIInv
    <2> HIDE DEF es
    <2>6. IsFile(Snapshot(m, es)) /\ Retains(m, Snapshot(m, es))
      BY <2>3, <2>5, SnapshotIsFile
    <2>7. Sound(Memory)' /\ (Len(order) <= MaxResults)' /\ Lists(entries)'
      BY <2>1, <2>3, <2>4, <2>5
    <2>8. IsFile(file') /\ synced' \in BOOLEAN /\ (synced' => Retains(Memory', file'))
      BY <2>1, <2>4, <2>6 DEF RegistryIInv
    <2>9. QED
      BY <2>7, <2>8 DEF RegistryIInv
  <1>3. CASE Clear
    <2>1. /\ SetMemory(EmptyMemory) /\ entries' = <<>>
          /\ \/ file' = <<>> /\ synced' = TRUE
             \/ file' = file /\ synced' = FALSE
      BY <1>3 DEF Clear
    <2>2. /\ Sound(EmptyMemory) /\ Len(EmptyMemory.order) <= MaxResults
          /\ Lists(<<>>) /\ IsFile(<<>>) /\ \A m : Retains(m, <<>>)
      BY EmptyIsSound
    <2>3. Memory' = EmptyMemory /\ order' = EmptyMemory.order
      BY <2>1, <2>2, MemoryAfter DEF Sound
    <2>4. Sound(Memory)' /\ (Len(order) <= MaxResults)' /\ Lists(entries)'
      BY <2>1, <2>2, <2>3
    <2>5. IsFile(file') /\ synced' \in BOOLEAN /\ (synced' => Retains(Memory', file'))
      BY <2>1, <2>2 DEF RegistryIInv
    <2>6. QED
      BY <2>4, <2>5 DEF RegistryIInv
  <1>4. CASE Reload
    <2> DEFINE m == First(file, Len(file))
    <2>1. SetMemory(Loaded(file)) /\ entries' = file /\ file' = file /\ synced' = TRUE
      BY <1>4 DEF Reload
    <2>2. IsFile(file) /\ Len(file) \in Nat /\ Len(file) <= MaxResults
      BY FileEntries DEF RegistryIInv
    <2>3. Loaded(file) = m
      BY <2>2, LoadedIsFile
    <2>4. Len(file) \in 0..Len(file)
      BY <2>2
    <2>5. Sound(m)
      BY <2>2, <2>4, FirstIsSound
    <2>6. /\ Len(m.order) = Len(file)
          /\ \A i \in 1..Len(file) : /\ m.nativeOf[file[i].id] = file[i].native
                                     /\ m.byQueue[file[i].queue] = file[i].id
      BY <2>2, <2>4, FirstHolds
    <2> HIDE DEF m
    <2>7. Memory' = m /\ order' = m.order
      BY <2>1, <2>3, <2>5, MemoryAfter DEF Sound
    <2>8. Lists(file)
      BY <2>2 DEF IsFile, Distinct, Lists
    <2>9. Sound(Memory)' /\ (Len(order) <= MaxResults)' /\ Lists(entries)'
      BY <2>1, <2>2, <2>5, <2>6, <2>7, <2>8
    <2>10. IsFile(file') /\ synced' \in BOOLEAN /\ Retains(Memory', file')
      BY <2>1, <2>2, <2>6, <2>7 DEF Retains
    <2>11. QED
      BY <2>9, <2>10 DEF RegistryIInv
  <1>5. QED
    BY <1>1, <1>2, <1>3, <1>4 DEF RegistryNext, StoreRejected

LEMMA RegistryInvariant == RegistrySpec => []RegistryIInv
  <1>1. RegistryInit => RegistryIInv
    <2> SUFFICES ASSUME RegistryInit PROVE RegistryIInv
      OBVIOUS
    <2>1. Memory = EmptyMemory /\ order = EmptyMemory.order
      BY DEF RegistryInit, Memory, EmptyMemory
    <2>2. QED
      BY <2>1, EmptyIsSound DEF RegistryInit, RegistryIInv
  <1>2. RegistryIInv /\ [RegistryNext]_registryVars => RegistryIInv'
    BY NextRegistry
  <1>3. QED
    BY <1>1, <1>2, PTL DEF RegistrySpec

(***************************************************************************)
(* Through stores, replacements, evictions, failed writes and restarts,    *)
(* every retained result is found under its own native job and under       *)
(* exactly one queue job, no mapping leads to an evicted result, and the   *)
(* order of eviction lists each result once and never more than the limit  *)
(* (result-registry.ts lines 77-181).                                      *)
(***************************************************************************)
THEOREM IndexesStayConsistent == RegistrySpec => []RegistryInv
  <1>1. RegistryIInv => RegistryInv
    <2> SUFFICES ASSUME RegistryIInv PROVE RegistryInv
      OBVIOUS
    <2>1. /\ order \in Seq(Ids) /\ nativeOf \in [Ids -> NativeJobs \cup {NoId}]
          /\ byJob \in [NativeJobs -> Ids \cup {NoId}] /\ byQueue \in [QueueJobs -> Ids \cup {NoId}]
      BY DEF RegistryIInv, Sound, Memory, MemoryType
    <2>2. RegistryTypeOK
      BY <2>1 DEF RegistryIInv, Lists, IsFile, RegistryTypeOK
    <2>3. IndexesOf(Memory) /\ OrderOf(Memory) /\ Len(order) <= MaxResults
      BY DEF RegistryIInv, Sound
    <2>4. /\ \A n \in NativeJobs, v \in Ids : byJob[n] = v <=> nativeOf[v] = n
          /\ \A q \in QueueJobs : byQueue[q] # NoId => nativeOf[byQueue[q]] # NoId
          /\ \A v \in Ids : nativeOf[v] # NoId => \E q \in QueueJobs : byQueue[q] = v
          /\ \A p, q \in QueueJobs : byQueue[p] = byQueue[q] /\ byQueue[p] # NoId => p = q
      BY <2>3 DEF IndexesOf, Memory
    <2>5. IndexesAgree
      <3>1. ASSUME NEW v \in Ids, nativeOf[v] # NoId
            PROVE  Cardinality({q \in QueueJobs : byQueue[q] = v}) = 1
        <4>1. PICK q \in QueueJobs : byQueue[q] = v
          BY <2>4, <3>1
        <4>2. v # NoId
          BY RegistryAssumption
        <4>3. {p \in QueueJobs : byQueue[p] = v} = {q}
          BY <2>4, <4>1, <4>2
        <4>4. Cardinality({q}) = 1
          BY FS_Singleton
        <4>5. QED
          BY <4>3, <4>4
      <3>2. \A v \in Ids : nativeOf[v] # NoId => byJob[nativeOf[v]] = v
        BY <2>1, <2>4
      <3>3. \A n \in NativeJobs : byJob[n] # NoId => nativeOf[byJob[n]] = n
        BY <2>1, <2>4
      <3>4. QED
        BY <2>4, <3>1, <3>2, <3>3 DEF IndexesAgree
    <2>6. RetentionBounded
      <3> DEFINE kept == Retained(Memory)
                 at == [i \in 1..Len(order) |-> order[i]]
      <3>1. /\ \A i, k \in 1..Len(order) : i # k => order[i] # order[k]
            /\ \A v \in Ids : nativeOf[v] # NoId <=> \E i \in 1..Len(order) : order[i] = v
        BY <2>3 DEF OrderOf, Memory
      <3>2. kept = {v \in Ids : nativeOf[v] # NoId}
        BY DEF Retained, Memory
      <3>3. Len(order) \in Nat /\ \A i \in 1..Len(order) : order[i] \in Ids
        BY <2>1
      <3>4. {order[i] : i \in 1..Len(order)} = kept
        BY <3>1, <3>2, <3>3
      <3>5. at \in Bijection(1..Len(order), kept)
        <4>1. at \in [1..Len(order) -> kept]
          BY <3>4
        <4>2. \A i, k \in 1..Len(order) : at[i] = at[k] => i = k
          BY <3>1
        <4>3. \A v \in kept : \E i \in 1..Len(order) : at[i] = v
          BY <3>1, <3>2
        <4> HIDE DEF at, kept
        <4>4. QED
          BY <4>1, <4>2, <4>3 DEF Bijection, Injection, Surjection, IsInjective
      <3>6. IsFiniteSet(1..Len(order)) /\ Cardinality(1..Len(order)) = Len(order)
        BY <3>3, FS_Interval
      <3> HIDE DEF at, kept
      <3>7. Cardinality(kept) = Len(order)
        BY <3>5, <3>6, FS_Bijection DEF ExistsBijection
      <3>8. QED
        BY <2>3, <3>4, <3>7 DEF RetentionBounded, kept
    <2>7. QED
      BY <2>2, <2>5, <2>6 DEF RegistryInv
  <1>2. QED
    BY <1>1, RegistryInvariant, PTL

(***************************************************************************)
(* A file written after a store holds only results that are retained, as   *)
(* they are retained, and a restart brings back those and no other         *)
(* (result-registry.ts lines 244-289).                                     *)
(***************************************************************************)
THEOREM FileHoldsTheRetained == RegistrySpec => []FileIsRetained
  <1>1. RegistryIInv => FileIsRetained
    BY DEF RegistryIInv, Retains, Memory, FileIsRetained
  <1>2. QED
    BY <1>1, RegistryInvariant, PTL
==============================================================================
