--------------------------- MODULE MCSubtreeQueue ---------------------------
(***************************************************************************)
(* Instances of SubtreeQueue with the scripts its theorems are about.      *)
(***************************************************************************)
EXTENDS SubtreeQueue_proofs

\* uint64_t positions of parallel loops: none, one and two iterations.
MCLoopRanges == {<<1, 1>>, <<0, 1>>, <<0, 2>>}
=============================================================================
