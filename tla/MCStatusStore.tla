----------------------------- MODULE MCStatusStore -----------------------------
(* Small instances of StatusStore: t1 and t3 always share a shard.           *)
EXTENDS StatusStore, TLC
CONSTANTS t1, t2, t3

MCHash == [t \in Tasks |-> CASE t = t1 -> 0 [] t = t2 -> 1 [] t = t3 -> 2]

Setup(i, l, c) == [impl |-> i, limit |-> l, count |-> c]

(* Both limits take both ways of trimming; Rust does not distinguish them.   *)
BothStores ==
  {Setup("python", l, c) : l \in {1, 2}, c \in {1, 2}} \cup {Setup("rust", 2, 2)}
RustStore == {Setup("rust", 2, 1)}
PythonStore == {Setup("python", 2, 2)}
=============================================================================
