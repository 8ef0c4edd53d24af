------------------------- MODULE MCServiceLifecycle -------------------------
(***************************************************************************)
(* Small instances of ServiceLifecycle for TLC.  With three callers a      *)
(* start can wait for a shutdown that another stop joins.                  *)
(***************************************************************************)
EXTENDS ServiceLifecycle, TLC

ASSUME InstanceAssumption == Cardinality(Callers) >= 2
=============================================================================
