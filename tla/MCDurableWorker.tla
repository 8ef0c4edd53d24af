--------------------------- MODULE MCDurableWorker ---------------------------
(***************************************************************************)
(* Small instances of DurableWorker for TLC.  There is one identity more   *)
(* than there are jobs, so that an attempt always finds one the registry   *)
(* does not hold.                                                          *)
(***************************************************************************)
EXTENDS DurableWorker, TLC

ASSUME InstanceAssumption == Cardinality(Ids) > Cardinality(Jobs)
=============================================================================
