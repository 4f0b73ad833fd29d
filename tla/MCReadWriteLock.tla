-------------------------- MODULE MCReadWriteLock --------------------------
(* Small instances of ReadWriteLock.                                        *)
EXTENDS ReadWriteLock, TLC

Symmetry == Permutations(Threads)
=============================================================================
