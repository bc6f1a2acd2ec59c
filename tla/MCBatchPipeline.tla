--------------------------- MODULE MCBatchPipeline ---------------------------
(***************************************************************************)
(* Instances of BatchPipeline for TLC.  The slots of ticks in flight are   *)
(* interchangeable; assets and transactions are ordered.                   *)
(***************************************************************************)
EXTENDS BatchPipelineInv, TLC

SlotSymmetry == Permutations(TickSlots) \cup Permutations(RecSlots)
=============================================================================
