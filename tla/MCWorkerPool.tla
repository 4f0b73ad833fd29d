----------------------------- MODULE MCWorkerPool -----------------------------
(* Small instances of WorkerPool.                                            *)
EXTENDS WorkerPool, TLC

Symmetry == Permutations(Threads \ Initial) \cup Permutations(Initial)
=============================================================================
