-------------------------- MODULE MCResultRegistry --------------------------
(***************************************************************************)
(* Small instances of ResultRegistry for TLC; each kind of identity is     *)
(* interchangeable.                                                        *)
(***************************************************************************)
EXTENDS ResultRegistry, TLC

Symmetry ==
    Permutations(QueueJobs) \cup Permutations(Ids) \cup Permutations(NativeJobs)
=============================================================================
