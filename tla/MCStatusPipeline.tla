--------------------------- MODULE MCStatusPipeline ---------------------------
(* Small instances of StatusPipeline.                                        *)
EXTENDS StatusPipeline, TLC

Symmetry == Permutations(Tasks) \cup Permutations(Workers)

WorkerSymmetry == Permutations(Workers)
=============================================================================
