-------------------------- MODULE MCSettledOutcomes --------------------------
(***************************************************************************)
(* Small instances of SettledOutcomes for TLC; jobs and waiters are        *)
(* interchangeable.                                                        *)
(***************************************************************************)
EXTENDS SettledOutcomes, TLC

Symmetry == Permutations(Jobs) \cup Permutations(Waiters)
=============================================================================
