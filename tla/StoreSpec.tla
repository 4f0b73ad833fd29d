------------------------------- MODULE StoreSpec -------------------------------
(***************************************************************************)
(* What a status store promises, whatever its shards, locks and heaps: one  *)
(* map from tasks to records.  A record goes only because a client removed  *)
(* it, because its task ended at least Ttl ago, or because the store held   *)
(* more records than its limit when it was last counted.                    *)
(***************************************************************************)
EXTENDS Naturals, FiniteSets

CONSTANTS Tasks, None, Ttl, Limits

VARIABLES
  map,      (* none, open (no end_time) or ended, for each task            *)
  endedAt,  (* when each task ended                                        *)
  asked,    (* the tasks whose record a client has removed                 *)
  now,      (* the clock                                                   *)
  excess,   (* how many records the limit may still remove                 *)
  limit     (* the most records to keep                                    *)

vars == <<map, endedAt, asked, now, excess, limit>>

Size == Cardinality({t \in Tasks : map[t] # "none"})
Over == IF Size > limit THEN Size - limit ELSE 0
Without(S) == [t \in Tasks |-> IF t \in S THEN "none" ELSE map[t]]

Init ==
  /\ map = [t \in Tasks |-> "none"] /\ endedAt = [t \in Tasks |-> None]
  /\ asked = {} /\ now = 0 /\ excess = 0 /\ limit \in Limits

Tick == now' = now + 1 /\ UNCHANGED <<map, endedAt, asked, excess, limit>>

End(t) ==
  /\ endedAt[t] = None /\ endedAt' = [endedAt EXCEPT ![t] = now]
  /\ UNCHANGED <<map, asked, now, excess, limit>>

(* An outcome is recorded only of a task that ended, and never taken back.  *)
Write(t, r) ==
  /\ r = "ended" => endedAt[t] # None
  /\ r = "open" => map[t] # "ended"
  /\ map' = [map EXCEPT ![t] = r]
  /\ UNCHANGED <<endedAt, asked, now, excess, limit>>

Remove(S) ==
  /\ map' = Without(S) /\ asked' = asked \cup S
  /\ UNCHANGED <<endedAt, now, excess, limit>>

Expire(t) ==
  /\ endedAt[t] # None /\ now >= endedAt[t] + Ttl
  /\ map' = Without({t}) /\ UNCHANGED <<endedAt, asked, now, excess, limit>>

Count == excess' \in {0, Over} /\ UNCHANGED <<map, endedAt, asked, now, limit>>

(* Of what was counted as too much, or counting under all locks at once.    *)
Trim(S, most) ==
  /\ Cardinality(S) <= most /\ excess' \in {0, most - Cardinality(S)}
  /\ map' = Without(S) /\ UNCHANGED <<endedAt, asked, now, limit>>

Next ==
  \/ Tick \/ Count
  \/ \E t \in Tasks : End(t) \/ Expire(t) \/ \E r \in {"open", "ended"} : Write(t, r)
  \/ \E S \in SUBSET Tasks : Remove(S) \/ Trim(S, excess) \/ Trim(S, Over)

Spec == Init /\ [][Next]_vars
=============================================================================
