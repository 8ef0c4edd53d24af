---------------------------- MODULE MCJobRuntime ----------------------------
(***************************************************************************)
(* The instance of JobRuntime that TLC checks: three generations, so that  *)
(* a third one chains behind a second that chains behind a first; two      *)
(* stops that may await different generations; a direct caller that        *)
(* competes with the loop for two jobs; a queue with and one without       *)
(* notifications.  A cfg gives the sets their model values.                *)
(***************************************************************************)
EXTENDS JobRuntime, TLC

ASSUME InstanceAssumption == Cardinality(Stoppers) = 2 /\ MaxGenerations = 3
=============================================================================
