----------------------- MODULE MCSubtreeQueueFindings -----------------------
(***************************************************************************)
(* Instances of SubtreeQueue with the scripts for which the engine does    *)
(* not do what its comments say.                                           *)
(***************************************************************************)
EXTENDS SubtreeQueue
=============================================================================
