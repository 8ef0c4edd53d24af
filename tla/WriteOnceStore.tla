--------------------------- MODULE WriteOnceStore ---------------------------
(***************************************************************************)
(* What the snapshot store promises its readers, the sandbox first of all: *)
(* under a name there is nothing, or a complete tree that never changes.   *)
(* SnapshotStore implements it, staging trees, lost races, leases, crashes *)
(* and all.                                                                *)
(***************************************************************************)
CONSTANTS
    Names,       \* the names of the store
    None,        \* nothing is published under a name
    Complete(_)  \* the trees that are complete for a name

VARIABLE stored

Init ==
    /\ stored = [n \in Names |-> stored[n]]
    /\ \A n \in Names : stored[n] # None => stored[n] \in Complete(n)

\* First writer wins; nobody removes or replaces what is published.
Put(n) ==
    /\ stored[n] = None /\ stored'[n] # None
    /\ stored'[n] \in Complete(n)
    /\ stored' = [stored EXCEPT ![n] = stored'[n]]

Next == \E n \in Names : Put(n)

Spec == Init /\ [][Next]_stored
=============================================================================
