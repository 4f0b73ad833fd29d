--------------------------- MODULE StatusStoreProofs ---------------------------
(***************************************************************************)
(* The status store, for any tasks, shard counts, hash, limits and times.   *)
(* Whatever overlaps: its types, and that the heaps of the Python store     *)
(* forget no record of a task that ended, resizing and trimming included.   *)
(* Where no other call overlaps resize_shards: that a Python pass leaves    *)
(* nothing behind that had expired, that in both implementations it leaves  *)
(* no more records than the limit, and that the store is one map, of which  *)
(* shards, locks, heaps and resizing do not show.                           *)
(***************************************************************************)
EXTENDS StatusStore, FiniteSetTheorems, WellFoundedInduction, TLAPS

Slot == Records \cup {None}
PassFields == {"pc", "at", "n", "left", "now", "held", "calm"}

StoreTypes ==
  /\ impl \in {"python", "rust"} /\ limit \in Nat /\ count \in Counts /\ now \in Times
  /\ life \in [Tasks -> {"new", "open", "ended", "written"}]
  /\ bornAt \in [Tasks -> Times] /\ endedAt \in [Tasks -> Times \cup {None}]
  /\ \A t \in Tasks : life[t] = "ended" => endedAt[t] \in Times
  /\ pushed \subseteq Tasks /\ (impl = "python" => pushed = {} /\ ~clearing)

ShardTypes ==
  /\ \E n \in Counts : DOMAIN shards = 0 .. n - 1
  /\ DOMAIN heaps = DOMAIN shards
  /\ \A i \in Indexes : shards[i] \in [Tasks -> Slot]
  /\ \A i \in Indexes : heaps[i] \subseteq Nat \X Tasks

PassTypes ==
  /\ DOMAIN pass = PassFields /\ pass.now \in Nat /\ pass.at \in Nat
  /\ resize.seen \in [Tasks -> Slot]
  /\ DOMAIN resize = {"pc", "to", "seen"} /\ (resize.pc # "idle" => resize.to \in Counts)

Types == StoreTypes /\ ShardTypes /\ PassTypes

(* The entry of an ended record is in the heap of its own shard.            *)
Listed(i, t) ==
  shards[i][t] # None /\ shards[i][t].ended # None =>
    Entry(t, shards[i][t].ended) \in heaps[i] \/ t \in missed

HeapInv == impl = "python" => \A i \in Indexes, t \in Tasks : Listed(i, t)

-----------------------------------------------------------------------------
(* Every set of natural numbers has a least one.                            *)
LEMMA LeastNat ==
  ASSUME NEW T \in SUBSET Nat, T # {}
  PROVE  \E x \in T : \A y \in T : x <= y
  <1> DEFINE R == {ss \in Nat \X Nat : ss[1] < ss[2]}
  <1>1. IsWellFoundedOn(R, Nat)
    BY NatLessThanWellFounded, Zenon DEF OpToRel
  <1>2. ASSUME NEW x \in Nat, NEW y \in Nat, y < x PROVE <<y, x>> \in R
    BY <1>2
  <1> HIDE DEF R
  <1>3. PICK x \in T : \A y \in T : ~ (<<y, x>> \in R)
    BY <1>1, WFMin
  <1>4. ASSUME NEW y \in T PROVE x <= y
    <2>1. ~ (y < x)
      BY <1>2, <1>3
    <2> QED
      BY <2>1
  <1> QED
    BY <1>4

(* Every task has its place among the shards there are.                     *)
LEMMA PlaceOf ==
  ASSUME ShardTypes, NEW t \in Tasks
  PROVE  ShardIndex(t, Cardinality(Indexes)) \in Indexes /\ Found(t) \in Slot
  <1>1. PICK n \in Counts : Indexes = 0 .. n - 1
    BY DEF ShardTypes, Indexes
  <1>2. n \in Nat /\ n > 0 /\ Hash[t] \in Nat
    BY StoreAssumption
  <1>3. Cardinality(Indexes) = n
    <2>1. Cardinality(0 .. n - 1) = n
      BY <1>2, FS_Interval
    <2> QED
      BY <1>1, <2>1
  <1>4. Hash[t] % n \in 0 .. n - 1
    BY <1>2
  <1> QED
    BY <1>1, <1>3, <1>4 DEF ShardTypes, Found, ShardIndex

(* One record is written or removed.                                        *)
LEMMA OneRecord ==
  ASSUME ShardTypes, NEW i \in Indexes, NEW t \in Tasks, NEW r \in Slot,
         shards' = [shards EXCEPT ![i][t] = r]
  PROVE  /\ Indexes' = Indexes
         /\ \A j \in Indexes : shards'[j] \in [Tasks -> Slot]
         /\ \A j \in Indexes, u \in Tasks :
              shards'[j][u] = IF j = i /\ u = t THEN r ELSE shards[j][u]
  <1>1. Indexes' = Indexes
    BY DEF ShardTypes, Indexes
  <1>2. \A j \in Indexes : shards'[j] = IF j = i THEN [shards[i] EXCEPT ![t] = r] ELSE shards[j]
    BY DEF Indexes
  <1>3. ASSUME NEW j \in Indexes
        PROVE  /\ shards'[j] \in [Tasks -> Slot]
               /\ \A u \in Tasks : shards'[j][u] = IF j = i /\ u = t THEN r ELSE shards[j][u]
    BY <1>2 DEF ShardTypes
  <1> QED
    BY <1>1, <1>3

(* A set of records is removed from a shard.                                *)
LEMMA SomeDropped ==
  ASSUME ShardTypes, NEW i \in Indexes, NEW D, DropFrom(i, D)
  PROVE  /\ Indexes' = Indexes
         /\ \A j \in Indexes : shards'[j] \in [Tasks -> Slot]
         /\ \A j \in Indexes, u \in Tasks :
              shards'[j][u] = IF j = i /\ u \in D THEN None ELSE shards[j][u]
  <1>1. shards' = [shards EXCEPT ![i] = [t \in Tasks |-> IF t \in D THEN None ELSE shards[i][t]]]
    BY DEF DropFrom
  <1>2. Indexes' = Indexes
    BY <1>1 DEF Indexes
  <1>3. \A j \in Indexes :
          shards'[j] = IF j = i THEN [t \in Tasks |-> IF t \in D THEN None ELSE shards[i][t]]
                                ELSE shards[j]
    BY <1>1 DEF Indexes
  <1>4. ASSUME NEW j \in Indexes
        PROVE  /\ shards'[j] \in [Tasks -> Slot]
               /\ \A u \in Tasks : shards'[j][u] = IF j = i /\ u \in D THEN None ELSE shards[j][u]
    <2>1. shards[j] \in [Tasks -> Slot] /\ None \in Slot
      BY DEF ShardTypes, Slot
    <2>2. CASE j = i
      BY <1>3, <2>1, <2>2
    <2>3. CASE j # i
      BY <1>3, <2>1, <2>3
    <2> QED
      BY <2>2, <2>3
  <1> QED
    BY <1>2, <1>4

-----------------------------------------------------------------------------
LEMMA TypesStart == Init => Types
  <1> SUFFICES ASSUME Init PROVE Types
    OBVIOUS
  <1> USE StoreAssumption
  <1>1. StoreTypes
    BY DEF Init, StoreTypes, Times
  <1>2. ShardTypes
    BY <1>1 DEF Init, StoreTypes, ShardTypes, Indexes, Slot, NoRecords
  <1>3. PassTypes
    BY DEF Init, PassTypes, NoPass, NoResize, PassFields, Slot
  <1> QED
    BY <1>1, <1>2, <1>3 DEF Types

LEMMA StoreTypesKept ==
  ASSUME Types, [Next]_vars
  PROVE  StoreTypes'
  <1> USE StoreAssumption DEF Types, StoreTypes, Times
  <1>1. CASE Tick
    BY <1>1 DEF Tick, fixed, reports, rust, history
  <1>2. ASSUME NEW t \in Tasks, Submit(t) PROVE StoreTypes'
    BY <1>2 DEF Submit, fixed, rust, history
  <1>3. ASSUME NEW t \in Tasks, End(t) PROVE StoreTypes'
    BY <1>3 DEF End, fixed, rust, history
  <1>4. ASSUME NEW t \in Tasks, UpdateStatus(t) PROVE StoreTypes'
    BY <1>4 DEF UpdateStatus, fixed, rust, history
  <1>5. ASSUME NEW t \in Tasks, RustPush(t) PROVE StoreTypes'
    BY <1>5 DEF RustPush, fixed, reports, history
  <1>6. ASSUME NEW t \in Tasks, RustInsert(t) PROVE StoreTypes'
    BY <1>6 DEF RustInsert, fixed, history
  <1>7. CASE ReplaceCount
    BY <1>7 DEF ReplaceCount, fixed, reports, rust, history, PassTypes
  <1>8. CASE \/ \E t \in Tasks : RemoveStatus(t)
             \/ ClearAll \/ StartPass \/ NextShard \/ EndExpiring \/ Pop \/ RustPop
    <2>1. UNCHANGED <<impl, limit, count, now, life, bornAt, endedAt, pushed, clearing>>
      BY <1>8 DEF RemoveStatus, ClearAll, StartPass, NextShard, EndExpiring, Pop, RustPop,
         fixed, reports, rust
    <2> QED
      BY <2>1
  <1>11. CASE RustClearShards \/ RustClearHeaps
    BY <1>11 DEF RustClearShards, RustClearHeaps, fixed, reports
  <1>9. CASE \/ CountRecords \/ CountAgain \/ TrimShard \/ RustTrimShard \/ TrimAll
             \/ EndTrimming \/ EndPass \/ (\E n \in Counts : Collect(n)) \/ ReplaceShards
    BY <1>9 DEF CountRecords, CountAgain, TrimShard, RustTrimShard, TrimAll, EndTrimming, EndPass,
       Collect, ReplaceShards, fixed, reports, rust, history
  <1>10. CASE UNCHANGED vars
    BY <1>10 DEF vars, fixed, reports, rust
  <1> QED
    BY <1>1, <1>2, <1>3, <1>4, <1>5, <1>6, <1>7, <1>8, <1>9, <1>10, <1>11 DEF Next

LEMMA PassTypesKept ==
  ASSUME Types, [Next]_vars
  PROVE  PassTypes'
  <1> USE StoreAssumption DEF Types, PassTypes, PassFields, Times
  <1>1. CASE \E t \in Tasks : Submit(t) \/ End(t) \/ UpdateStatus(t) \/ RustPush(t) \/ RustInsert(t)
    BY <1>1 DEF Submit, End, UpdateStatus, RustPush, RustInsert, Store
  <1>2. CASE \/ Tick \/ ClearAll \/ RustClearShards \/ RustClearHeaps
             \/ \E t \in Tasks : RemoveStatus(t)
    BY <1>2 DEF Tick, ClearAll, RustClearShards, RustClearHeaps, RemoveStatus
  <1>3. CASE StartPass
    BY <1>3 DEF StartPass, NoPass, StoreTypes
  <1>4. CASE NextShard
    BY <1>4 DEF NextShard
  <1>5. CASE EndExpiring
    BY <1>5 DEF EndExpiring
  <1>6. CASE Pop \/ RustPop
    BY <1>6 DEF Pop, RustPop
  <1>7. CASE CountRecords \/ CountAgain \/ EndTrimming \/ TrimAll \/ TrimShard \/ RustTrimShard
    <2>1. CASE CountRecords
      BY <2>1 DEF CountRecords
    <2>2. CASE CountAgain
      BY <2>2 DEF CountAgain
    <2>3. CASE EndTrimming \/ TrimAll
      BY <2>3 DEF EndTrimming, TrimAll
    <2>4. CASE TrimShard
      <3>1. UNCHANGED resize /\ \E D : DropFrom(pass.at, D)
        BY <2>4 DEF TrimShard
      <3> QED
        BY <3>1 DEF DropFrom
    <2>5. CASE RustTrimShard
      BY <2>5 DEF RustTrimShard, DropFrom
    <2> QED
      BY <1>7, <2>1, <2>2, <2>3, <2>4, <2>5
  <1>8. CASE EndPass
    BY <1>8 DEF EndPass, NoPass
  <1>9. ASSUME NEW n \in Counts, Collect(n) PROVE PassTypes'
    <2>1. \A t \in Tasks : Found(t) \in Slot
      BY PlaceOf
    <2> QED
      BY <1>9, <2>1 DEF Collect
  <1>10. CASE ReplaceShards
    BY <1>10 DEF ReplaceShards
  <1>11. CASE ReplaceCount
    BY <1>11, StoreAssumption DEF ReplaceCount, NoResize, Slot
  <1>12. CASE UNCHANGED vars
    BY <1>12 DEF vars
  <1> QED
    BY <1>1, <1>2, <1>3, <1>4, <1>5, <1>6, <1>7, <1>8, <1>9, <1>10, <1>11, <1>12 DEF Next

-----------------------------------------------------------------------------
(* A write puts the entry of an outcome next to its record.                 *)
LEMMA WriteKeeps ==
  ASSUME Types, HeapInv, NEW t \in Tasks,
         Submit(t) \/ UpdateStatus(t) \/ RustPush(t) \/ RustInsert(t) \/ RemoveStatus(t)
  PROVE  ShardTypes' /\ HeapInv'
  <1> USE DEF Types, HeapInv
  <1> DEFINE i == ShardIndex(t, count)
  <1>1. ASSUME NEW r \in Slot, i \in Indexes, shards' = [shards EXCEPT ![i][t] = r],
               UNCHANGED impl, missed' = missed,
               impl = "python" /\ r # None /\ r.ended # None => Entry(t, r.ended) \in heaps'[i],
               DOMAIN heaps' = Indexes,
               \A j \in Indexes : heaps'[j] \subseteq Nat \X Tasks /\ heaps[j] \subseteq heaps'[j]
        PROVE  ShardTypes' /\ HeapInv'
    <2>1. /\ Indexes' = Indexes
          /\ \A j \in Indexes : shards'[j] \in [Tasks -> Slot]
          /\ \A j \in Indexes, u \in Tasks :
               shards'[j][u] = IF j = i /\ u = t THEN r ELSE shards[j][u]
      <3>1. ShardTypes
        OBVIOUS
      <3> HIDE DEF i, Types, HeapInv
      <3>2. i \in Indexes /\ r \in Slot /\ shards' = [shards EXCEPT ![i][t] = r]
        BY <1>1
      <3> QED
        BY <3>1, <3>2, OneRecord
    <2>2. ShardTypes'
      BY <1>1, <2>1 DEF ShardTypes, Indexes
    <2>3. HeapInv'
      BY <1>1, <2>1 DEF Listed, Entry
    <2> QED
      BY <2>2, <2>3
  <1>2. DOMAIN heaps = Indexes /\ \A j \in Indexes : heaps[j] \subseteq Nat \X Tasks
    BY DEF ShardTypes, Indexes
  <1>3. ASSUME life[t] = "ended"
        PROVE  /\ Entry(t, endedAt[t]) \in Nat \X Tasks /\ endedAt[t] # None
               /\ Outcome(t) \in Slot /\ Outcome(t).ended = endedAt[t]
    BY <1>3, StoreAssumption DEF StoreTypes, Entry, Outcome, Slot, Records, Times
  <1>4. CASE Submit(t)
    <2> DEFINE r == [born |-> now, ended |-> None]
    <2>1. r \in Slot
      BY DEF Slot, Records, StoreTypes
    <2>2. i \in Indexes /\ shards' = [shards EXCEPT ![i][t] = r] /\ UNCHANGED <<impl, heaps, missed>>
      BY <1>4 DEF Submit, Store, fixed, history
    <2> QED
      BY <1>1, <1>2, <2>1, <2>2
  <1>5. CASE UpdateStatus(t)
    <2>1. /\ i \in Indexes /\ shards' = [shards EXCEPT ![i][t] = Outcome(t)]
          /\ heaps' = [heaps EXCEPT ![i] = @ \cup {Entry(t, endedAt[t])}]
          /\ UNCHANGED <<impl, missed>> /\ life[t] = "ended"
      BY <1>5 DEF UpdateStatus, Store, fixed, history
    <2> HIDE DEF i
    <2>2. /\ DOMAIN heaps' = Indexes /\ Entry(t, endedAt[t]) \in heaps'[i]
          /\ \A j \in Indexes : heaps'[j] \subseteq Nat \X Tasks /\ heaps[j] \subseteq heaps'[j]
      BY <1>2, <1>3, <2>1
    <2> QED
      BY <1>1, <1>3, <2>1, <2>2
  <1>6. CASE RustPush(t)
    <2>1. /\ heaps' = [heaps EXCEPT ![i] = @ \cup {Entry(t, endedAt[t])}]
          /\ UNCHANGED <<impl, shards>> /\ life[t] = "ended" /\ impl = "rust"
      BY <1>6 DEF RustPush, fixed
    <2> HIDE DEF i
    <2>2. DOMAIN heaps' = Indexes /\ \A j \in Indexes : heaps'[j] \subseteq Nat \X Tasks
      BY <1>2, <1>3, <2>1
    <2> QED
      BY <2>1, <2>2 DEF ShardTypes, Indexes
  <1>7. CASE RustInsert(t)
    <2>1. /\ i \in Indexes /\ shards' = [shards EXCEPT ![i][t] = Outcome(t)]
          /\ UNCHANGED <<impl, heaps, missed>> /\ impl # "python"
      BY <1>7 DEF RustInsert, Store, fixed, history, StoreTypes
    <2>2. Outcome(t) \in Slot
      BY DEF Outcome, Slot, Records, StoreTypes
    <2> QED
      BY <1>1, <1>2, <2>1, <2>2
  <1>8. CASE RemoveStatus(t)
    <2>1. i \in Indexes /\ shards' = [shards EXCEPT ![i][t] = None] /\ UNCHANGED <<impl, heaps, missed>>
      BY <1>8 DEF RemoveStatus, fixed
    <2>2. None \in Slot
      BY DEF Slot
    <2> QED
      BY <1>1, <1>2, <2>1, <2>2
  <1> QED
    BY <1>4, <1>5, <1>6, <1>7, <1>8

(* A popped entry took its record with it, was not that of the record the   *)
(* task has now, or came due at this very instant.                          *)
LEMMA PopKeepsHeaps ==
  ASSUME Types, HeapInv, Pop \/ RustPop
  PROVE  ShardTypes' /\ HeapInv'
  <1> USE DEF Types, HeapInv
  <1> DEFINE i == pass.at
  <1>1. PICK e \in heaps[i] :
          /\ Due(e) /\ i \in Indexes /\ heaps' = [heaps EXCEPT ![i] = @ \ {e}]
          /\ \/ impl = "python" /\ Expired(shards[i][e[2]]) /\ UNCHANGED missed
                /\ shards' = [shards EXCEPT ![i][e[2]] = None]
             \/ impl = "python" /\ ~Expired(shards[i][e[2]]) /\ UNCHANGED shards
                /\ missed' = IF shards[i][e[2]] # None /\ pass.now = e[1]
                               THEN missed \cup {e[2]} ELSE missed
             \/ impl = "rust" /\ shards' = [shards EXCEPT ![i][e[2]] = None]
          /\ UNCHANGED impl
    BY DEF Pop, RustPop, InShard, fixed, history
  <1>2. e[2] \in Tasks /\ e[1] \in Nat /\ e = <<e[1], e[2]>> /\ e[1] <= pass.now
    BY <1>1 DEF ShardTypes, Due
  <1> HIDE DEF i
  <1>3. /\ DOMAIN heaps' = Indexes /\ \A j \in Indexes : heaps'[j] \subseteq Nat \X Tasks
        /\ \A j \in Indexes : heaps'[j] = IF j = i THEN heaps[j] \ {e} ELSE heaps[j]
    BY <1>1 DEF ShardTypes, Indexes
  <1>4. ASSUME shards' = [shards EXCEPT ![i][e[2]] = None]
        PROVE  /\ Indexes' = Indexes /\ \A j \in Indexes : shards'[j] \in [Tasks -> Slot]
               /\ \A j \in Indexes, u \in Tasks :
                    shards'[j][u] = IF j = i /\ u = e[2] THEN None ELSE shards[j][u]
    <2>1. None \in Slot
      BY DEF Slot
    <2> QED
      <3>1. ShardTypes /\ i \in Indexes
        BY <1>1
      <3> HIDE DEF Types, HeapInv
      <3> QED
        BY <3>1, <1>2, <1>4, <2>1, OneRecord
  <1>5. CASE impl = "rust"
    BY <1>1, <1>3, <1>4, <1>5 DEF ShardTypes, Indexes
  <1>6. CASE impl = "python" /\ Expired(shards[i][e[2]])
    <2>1. shards' = [shards EXCEPT ![i][e[2]] = None] /\ UNCHANGED <<missed, impl>>
      BY <1>1, <1>6
    <2>2. ShardTypes'
      BY <1>3, <1>4, <2>1 DEF ShardTypes, Indexes
    <2>3. ASSUME NEW j \in Indexes, NEW u \in Tasks PROVE Listed(j, u)'
      BY <1>1, <1>2, <1>3, <1>4, <1>6, <2>1, <2>3 DEF Listed, Entry
    <2> QED
      BY <1>4, <2>1, <2>2, <2>3
  <1>7. CASE impl = "python" /\ ~Expired(shards[i][e[2]])
    <2>1. /\ UNCHANGED <<shards, impl>>
          /\ missed' = IF shards[i][e[2]] # None /\ pass.now = e[1] THEN missed \cup {e[2]} ELSE missed
      BY <1>1, <1>7
    <2>2. ShardTypes' /\ Indexes' = Indexes
      BY <1>3, <2>1 DEF ShardTypes, Indexes
    <2>3. ASSUME NEW j \in Indexes, NEW u \in Tasks PROVE Listed(j, u)'
      <3>1. Listed(j, u) /\ shards[j][u] \in Slot
        BY <1>7 DEF ShardTypes
      <3>2. CASE j = i /\ u = e[2] /\ shards[j][u] # None /\ shards[j][u].ended # None
                 /\ e = Entry(u, shards[j][u].ended)
        <4>1. shards[j][u].ended \in Nat /\ pass.now \in Nat /\ Ttl \in Nat
          <5>1. shards[j][u] \in Records
            BY <3>1, <3>2 DEF Slot
          <5>2. shards[j][u].ended \in 0 .. MaxTime
            BY <3>2, <5>1 DEF Records, Times
          <5> QED
            BY <5>2, StoreAssumption DEF PassTypes
        <4>2. e[1] = shards[j][u].ended + Ttl
          BY <3>2 DEF Entry
        <4>3. pass.now = e[1]
          BY <1>2, <1>7, <3>2, <4>1, <4>2 DEF Expired
        <4> QED
          BY <2>1, <3>2, <4>3 DEF Listed
      <3>3. CASE ~(j = i /\ u = e[2] /\ shards[j][u] # None /\ shards[j][u].ended # None
                   /\ e = Entry(u, shards[j][u].ended))
        BY <1>2, <1>3, <2>1, <3>1, <3>3 DEF Listed, Entry
      <3> QED
        BY <3>2, <3>3
    <2> QED
      BY <2>1, <2>2, <2>3
  <1> QED
    BY <1>1, <1>5, <1>6, <1>7

(* Trimming and clearing keep the entries of the records they keep.         *)
LEMMA TrimKeeps ==
  ASSUME Types, HeapInv,
         TrimShard \/ RustTrimShard \/ TrimAll \/ ClearAll \/ RustClearShards \/ RustClearHeaps
  PROVE  ShardTypes' /\ HeapInv'
  <1> USE DEF Types, HeapInv
  <1>1. ASSUME NEW D, UNCHANGED <<impl, missed>>, DOMAIN heaps' = Indexes, Indexes' = Indexes,
               \A j \in Indexes : heaps'[j] \subseteq heaps[j] /\ shards'[j] \in [Tasks -> Slot],
               \A j \in Indexes, u \in Tasks : shards'[j][u] \in {None, shards[j][u]},
               impl = "python" =>
                 \A j \in Indexes : \A e \in heaps[j] :
                   e[2] \in Tasks /\ shards'[j][e[2]] # None => e \in heaps'[j]
        PROVE  ShardTypes' /\ HeapInv'
    <2>1. ShardTypes'
      BY <1>1 DEF ShardTypes, Indexes
    <2>2. ASSUME impl = "python", NEW j \in Indexes, NEW u \in Tasks PROVE Listed(j, u)'
      BY <1>1, <2>2 DEF Listed, Entry
    <2> QED
      BY <1>1, <2>1, <2>2
  <1>2. DOMAIN heaps = Indexes
    BY DEF ShardTypes, Indexes
  <1>3. CASE TrimShard
    <2> DEFINE i == pass.at
    <2>1. i \in Indexes /\ UNCHANGED <<impl, missed>>
      BY <1>3 DEF TrimShard, InShard, fixed, history
    <2>2. PICK D : /\ DropFrom(i, D)
                   /\ \/ D = {} /\ UNCHANGED heaps
                      \/ heaps' = [heaps EXCEPT ![i] = {e \in @ : e[2] \in Held(i) \ D}]
      BY <1>3 DEF TrimShard
    <2>3. /\ Indexes' = Indexes /\ \A j \in Indexes : shards'[j] \in [Tasks -> Slot]
          /\ \A j \in Indexes, u \in Tasks :
               shards'[j][u] = IF j = i /\ u \in D THEN None ELSE shards[j][u]
      BY <2>1, <2>2, SomeDropped
    <2> HIDE DEF i
    <2>4. /\ DOMAIN heaps' = Indexes /\ \A j \in Indexes : heaps'[j] \subseteq heaps[j]
          /\ \A j \in Indexes : \A e \in heaps[j] :
               e[2] \in Tasks /\ shards'[j][e[2]] # None => e \in heaps'[j]
      BY <1>2, <2>1, <2>2, <2>3 DEF Held
    <2> QED
      BY <1>1, <2>1, <2>3, <2>4
  <1>4. CASE RustTrimShard
    <2>1. /\ pass.at \in Indexes /\ UNCHANGED <<impl, missed, heaps>> /\ impl = "rust"
          /\ \E D : DropFrom(pass.at, D)
      BY <1>4 DEF RustTrimShard, InShard, fixed, history
    <2>2. Indexes' = Indexes /\ \A j \in Indexes : shards'[j] \in [Tasks -> Slot]
      BY <2>1, SomeDropped
    <2> QED
      BY <2>1, <2>2 DEF ShardTypes, Indexes
  <1>5. CASE TrimAll
    <2> DEFINE all == UNION {Held(j) : j \in Indexes}
    <2>1. UNCHANGED <<impl, missed>>
      BY <1>5 DEF TrimAll, fixed, history
    <2>2. CASE UNCHANGED <<shards, heaps>>
      BY <1>1, <1>2, <2>1, <2>2 DEF Indexes, ShardTypes
    <2>3. ASSUME NEW D,
                 shards' = [j \in Indexes |-> [t \in Tasks |-> IF t \in D THEN None ELSE shards[j][t]]],
                 heaps' = [j \in Indexes |-> {e \in heaps[j] : e[2] \in all \ D}]
          PROVE  ShardTypes' /\ HeapInv'
      <3>1. Indexes' = Indexes /\ DOMAIN heaps' = Indexes
        BY <2>3 DEF Indexes
      <3>2. \A j \in Indexes, u \in Tasks :
              shards'[j][u] = IF u \in D THEN None ELSE shards[j][u]
        BY <2>3
      <3>3. \A j \in Indexes : shards'[j] \in [Tasks -> Slot]
        BY <2>3 DEF ShardTypes, Slot
      <3>4. ASSUME NEW j \in Indexes, NEW u \in Tasks, shards'[j][u] # None PROVE u \in all \ D
        BY <3>2, <3>4 DEF Held
      <3> HIDE DEF all
      <3>5. \A j \in Indexes : \A e \in heaps[j] :
              e[2] \in Tasks /\ shards'[j][e[2]] # None => e \in heaps'[j]
        BY <2>3, <3>4
      <3> QED
        BY <1>1, <2>1, <2>3, <3>1, <3>2, <3>3, <3>5
    <2> QED
      BY <1>5, <2>2, <2>3 DEF TrimAll
  <1>6. CASE ClearAll
    BY <1>6 DEF ClearAll, NoRecords, ShardTypes, Indexes, Slot, Listed, fixed
  <1>7. CASE RustClearShards
    BY <1>7 DEF RustClearShards, NoRecords, ShardTypes, Indexes, Slot, fixed
  <1>8. CASE RustClearHeaps
    <2>1. impl # "python" /\ UNCHANGED <<impl, shards>>
      BY <1>8 DEF RustClearHeaps, StoreTypes, fixed
    <2> QED
      BY <1>8, <2>1 DEF RustClearHeaps, ShardTypes, Indexes
  <1> QED
    BY <1>3, <1>4, <1>5, <1>6, <1>7, <1>8

(* resize_shards gives every record it has read its entry, with the record. *)
LEMMA ReplaceKeeps ==
  ASSUME Types, HeapInv, ReplaceShards
  PROVE  ShardTypes' /\ HeapInv'
  <1> USE DEF Types
  <1> DEFINE seen == resize.seen
             home(i) == {t \in Tasks : ShardIndex(t, resize.to) = i /\ seen[t] # None}
             ended(i) == {t \in home(i) : seen[t].ended # None}
  <1>1. /\ shards' = [i \in 0 .. resize.to - 1 |->
                        [t \in Tasks |-> IF t \in home(i) THEN seen[t] ELSE None]]
        /\ heaps' = [i \in 0 .. resize.to - 1 |-> {Entry(t, seen[t].ended) : t \in ended(i)}]
        /\ resize.to \in Counts /\ UNCHANGED impl
    BY DEF ReplaceShards, PassTypes, fixed
  <1>2. Indexes' = 0 .. resize.to - 1 /\ DOMAIN heaps' = Indexes'
    BY <1>1 DEF Indexes
  <1>3. \A t \in Tasks : seen[t] \in Slot
    BY DEF PassTypes
  <1>4. ASSUME NEW t \in Tasks, seen[t] # None, seen[t].ended # None
        PROVE  Entry(t, seen[t].ended) \in Nat \X Tasks
    BY <1>3, <1>4, StoreAssumption DEF Slot, Records, Times, Entry
  <1>5. ASSUME NEW i \in Indexes'
        PROVE  /\ shards'[i] = [t \in Tasks |-> IF t \in home(i) THEN seen[t] ELSE None]
               /\ heaps'[i] = {Entry(t, seen[t].ended) : t \in ended(i)}
    BY <1>1, <1>2
  <1>6. ASSUME NEW i \in Indexes'
        PROVE  shards'[i] \in [Tasks -> Slot] /\ heaps'[i] \subseteq Nat \X Tasks
    <2>1. None \in Slot
      BY DEF Slot
    <2>2. shards'[i] \in [Tasks -> Slot]
      BY <1>3, <1>5, <2>1
    <2>3. heaps'[i] \subseteq Nat \X Tasks
      <3>1. ASSUME NEW e \in heaps'[i] PROVE e \in Nat \X Tasks
        <4>1. PICK t \in ended(i) : e = Entry(t, seen[t].ended)
          <5>1. e \in {Entry(t, seen[t].ended) : t \in ended(i)}
            BY <1>5, <3>1, Zenon
          <5> HIDE DEF ended, home, seen
          <5> QED
            BY <5>1
        <4>2. t \in Tasks /\ seen[t] # None /\ seen[t].ended # None
          OBVIOUS
        <4> HIDE DEF ended, home, seen
        <4> QED
          BY <1>4, <4>1, <4>2
      <3> QED
        BY <3>1
    <2> QED
      BY <2>2, <2>3
  <1>7. ShardTypes'
    BY <1>1, <1>2, <1>6 DEF ShardTypes, Indexes
  <1>8. ASSUME NEW i \in Indexes', NEW t \in Tasks PROVE Listed(i, t)'
    <2>1. shards'[i][t] = IF t \in home(i) THEN seen[t] ELSE None
      BY <1>5
    <2>2. ASSUME shards'[i][t] # None, shards'[i][t].ended # None
          PROVE  Entry(t, shards'[i][t].ended) \in heaps'[i]
      <3>1. t \in ended(i) /\ shards'[i][t] = seen[t]
        BY <2>1, <2>2
      <3> HIDE DEF ended, home, seen
      <3> QED
        BY <1>5, <3>1
    <2> QED
      BY <2>2 DEF Listed, Entry
  <1> QED
    BY <1>7, <1>8 DEF HeapInv

LEMMA HeapsKept ==
  ASSUME Types, HeapInv, [Next]_vars
  PROVE  ShardTypes' /\ HeapInv'
  <1>1. CASE \/ Tick \/ StartPass \/ NextShard \/ EndExpiring \/ CountRecords \/ CountAgain
             \/ EndTrimming \/ EndPass \/ ReplaceCount \/ UNCHANGED vars
             \/ (\E n \in Counts : Collect(n)) \/ \E t \in Tasks : End(t)
    <2>1. UNCHANGED <<impl, shards, heaps, missed>>
      BY <1>1 DEF Tick, StartPass, NextShard, EndExpiring, CountRecords, CountAgain, EndTrimming,
         EndPass, ReplaceCount, Collect, End, vars, fixed, history
    <2> QED
      BY <2>1 DEF Types, ShardTypes, HeapInv, Indexes, Listed
  <1> QED
    BY <1>1, WriteKeeps, PopKeepsHeaps, TrimKeeps, ReplaceKeeps DEF Next

LEMMA HeapInvariant == Spec => [](Types /\ HeapInv)
  <1>1. Init => Types /\ HeapInv
    BY TypesStart DEF Init, HeapInv, Indexes, NoRecords, Listed
  <1>2. Types /\ HeapInv /\ [Next]_vars => (Types /\ HeapInv)'
    BY StoreTypesKept, PassTypesKept, HeapsKept DEF Types
  <1> QED
    BY <1>1, <1>2, PTL DEF Spec

(* update_status, the cleanup pass and resize_shards: the record of a task  *)
(* that ended can expire, but for an entry popped at the instant it is due. *)
THEOREM NoRecordForgotten == Spec => []EndedCanExpire
  <1>1. Types /\ HeapInv => EndedCanExpire
    BY PlaceOf DEF Types, HeapInv, Listed, EndedCanExpire, Status, Found
  <1> QED
    BY <1>1, HeapInvariant, PTL

-----------------------------------------------------------------------------
(* Types of the pass, of what resize_shards has read, and of the history.   *)

PassPcs == {"idle", "expiring", "expired", "incremental", "full", "trimming", "trimmed"}

Stages ==
  /\ pass.pc \in PassPcs /\ pass.left \in Nat /\ pass.n \in Counts \cup {0}
  /\ resize.pc \in {"idle", "collected", "replaced"}
  /\ asked \subseteq Tasks /\ missed \subseteq Tasks

LEMMA SizeIsNat ==
  ASSUME ShardTypes
  PROVE  Size \in Nat
  <1>1. PICK n \in Counts : Indexes = 0 .. n - 1
    BY DEF ShardTypes, Indexes
  <1>2. IsFiniteSet(0 .. n - 1)
    BY <1>1, StoreAssumption, FS_Interval
  <1>3. IsFiniteSet(Indexes) /\ IsFiniteSet(Tasks)
    BY <1>1, <1>2, StoreAssumption
  <1>4. IsFiniteSet(Indexes \X Tasks)
    BY <1>3, FS_Product
  <1> DEFINE P == {p \in Indexes \X Tasks : p[2] \in Held(p[1])}
  <1>5. P \subseteq Indexes \X Tasks
    OBVIOUS
  <1> HIDE DEF P
  <1>6. IsFiniteSet(P)
    BY <1>4, <1>5, FS_Subset
  <1> QED
    BY <1>6, FS_CardinalityType DEF Size, P

(* After the counting the pass is past both.                                *)
LEMMA CountingEnds ==
  ASSUME Types, CountRecords \/ CountAgain
  PROVE  pass'.pc \in {"full", "incremental", "trimming", "trimmed"}
  <1>1. Size \in Nat /\ limit \in Nat /\ impl \in {"python", "rust"} /\ "pc" \in DOMAIN pass
    BY SizeIsNat DEF Types, StoreTypes, PassTypes, PassFields
  <1>2. CASE CountRecords
    BY <1>1, <1>2 DEF CountRecords
  <1>3. CASE CountAgain
    BY <1>1, <1>3 DEF CountAgain
  <1> QED
    BY <1>2, <1>3

(* A shard's records, and what keeping the newest of them takes out.        *)
LEMMA HeldIsFinite == \A i : IsFiniteSet(Held(i)) /\ Cardinality(Held(i)) \in Nat
  <1> SUFFICES ASSUME NEW i PROVE IsFiniteSet(Held(i)) /\ Cardinality(Held(i)) \in Nat
    OBVIOUS
  <1>1. IsFiniteSet(Tasks) /\ Held(i) \subseteq Tasks
    BY StoreAssumption DEF Held
  <1> QED
    BY <1>1, FS_Subset, FS_CardinalityType

LEMMA OldestFacts ==
  ASSUME NEW S, IsFiniteSet(S), NEW k \in Nat, NEW D \in Oldest(S, k)
  PROVE  /\ D \subseteq S /\ Cardinality(S) \in Nat /\ Cardinality(D) \in Nat
         /\ Cardinality(D) = Cardinality(S) - k
         /\ Cardinality(S \ D) = k
  <1>1. D \subseteq S /\ Cardinality(D) = Cardinality(S) - k
    BY DEF Oldest
  <1>2. IsFiniteSet(D) /\ S \cap D = D
    BY <1>1, FS_Subset
  <1>3. Cardinality(S) \in Nat /\ Cardinality(D) \in Nat
    BY <1>2, FS_CardinalityType
  <1>4. Cardinality(S \ D) = Cardinality(S) - Cardinality(D)
    BY <1>2, FS_Difference
  <1> QED
    BY <1>1, <1>3, <1>4

(* The records a trimmed shard still has when there is more to remove.      *)
Few(n) == n <= (IF impl = "python" THEN 1 ELSE 0)

(* Trimming one shard takes out no more than there is to remove, and, when  *)
(* that is not enough, leaves the shard empty or with its one record.       *)
LEMMA TrimDrops ==
  ASSUME Types, Stages, TrimShard \/ RustTrimShard
  PROVE  /\ pass.at \in Indexes /\ pass.pc = "trimming"
         /\ \E D \in SUBSET Held(pass.at) :
              /\ DropFrom(pass.at, D)
              /\ Cardinality(D) \in 0 .. pass.left
              /\ Cardinality(D) < pass.left => Few(Cardinality(Held(pass.at) \ D))
  <1> DEFINE i == pass.at
             n == pass.left
             h == Cardinality(Held(i))
  <1>0. IsFiniteSet(Held(i)) /\ h \in Nat /\ n \in Nat /\ n > 0
        /\ i \in Indexes /\ pass.pc = "trimming"
    BY HeldIsFinite DEF Stages, TrimShard, RustTrimShard, InShard
  <1>1. ASSUME TrimShard, h <= 1
        PROVE  \E D \in SUBSET Held(i) :
                 DropFrom(i, D) /\ Cardinality(D) \in 0 .. n
                 /\ (Cardinality(D) < n => Few(Cardinality(Held(i) \ D)))
    <2>1. DropFrom(i, {}) /\ impl = "python"
      BY <1>1 DEF TrimShard
    <2>2. Cardinality({}) = 0 /\ Held(i) \ {} = Held(i)
      BY FS_EmptySet
    <2>3. Few(Cardinality(Held(i) \ {}))
      BY <1>1, <2>1, <2>2 DEF Few
    <2> HIDE DEF i, n, h
    <2> QED
      BY <1>0, <2>1, <2>2, <2>3
  <1>2. ASSUME NEW k \in Nat, NEW D \in Oldest(Held(i), k), DropFrom(i, D),
               \/ impl = "python" /\ h > 1 /\ k = (IF Kept(i, n) = 0 THEN 1 ELSE Kept(i, n))
               \/ impl = "rust" /\ k = Kept(i, n)
        PROVE  \E C \in SUBSET Held(i) :
                 DropFrom(i, C) /\ Cardinality(C) \in 0 .. n
                 /\ (Cardinality(C) < n => Few(Cardinality(Held(i) \ C)))
    <2>1. D \subseteq Held(i) /\ Cardinality(D) \in Nat /\ Cardinality(D) = h - k
          /\ Cardinality(Held(i) \ D) = k
      BY <1>0, OldestFacts
    <2>2. Kept(i, n) = IF n > h THEN 0 ELSE h - n
      BY DEF Kept
    <2>3. Cardinality(D) <= n /\ (Cardinality(D) < n => Few(k))
      <3> HIDE DEF i, n, h
      <3> QED
        BY <1>0, <1>2, <2>1, <2>2 DEF Few
    <2>4. Cardinality(D) \in 0 .. n
      BY <1>0, <2>1, <2>3
    <2>5. Cardinality(D) < n => Few(Cardinality(Held(i) \ D))
      BY <2>1, <2>3
    <2> QED
      BY <1>2, <2>1, <2>4, <2>5
  <1>3. Kept(i, n) \in Nat
    BY <1>0 DEF Kept
  <1>4. CASE TrimShard /\ h > 1
    <2>1. PICK D \in Oldest(Held(i), IF Kept(i, n) = 0 THEN 1 ELSE Kept(i, n)) :
            DropFrom(i, D) /\ impl = "python"
      BY <1>0, <1>4 DEF TrimShard
    <2> QED
      BY <1>0, <1>2, <1>3, <1>4, <2>1
  <1>5. CASE RustTrimShard
    <2>1. PICK D \in Oldest(Held(i), Kept(i, n)) : DropFrom(i, D) /\ impl = "rust"
      BY <1>5 DEF RustTrimShard
    <2> QED
      BY <1>0, <1>2, <1>3, <2>1
  <1>6. h <= 1 \/ h > 1
    BY <1>0
  <1> QED
    BY <1>0, <1>1, <1>4, <1>5, <1>6

LEMMA StagesKept ==
  ASSUME Types, Stages, [Next]_vars
  PROVE  Stages'
  <1> USE StoreAssumption DEF Stages, Types, PassTypes, PassFields, PassPcs
  <1>1. CASE \E t \in Tasks : Submit(t) \/ End(t) \/ UpdateStatus(t) \/ RustPush(t) \/ RustInsert(t)
    BY <1>1 DEF Submit, End, UpdateStatus, RustPush, RustInsert, Store, history
  <1>2. CASE \/ Tick \/ ClearAll \/ RustClearShards \/ RustClearHeaps
             \/ \E t \in Tasks : RemoveStatus(t)
    BY <1>2 DEF Tick, ClearAll, RustClearShards, RustClearHeaps, RemoveStatus, history
  <1>3. CASE StartPass
    BY <1>3 DEF StartPass, NoPass, StoreTypes, history
  <1>4. CASE NextShard
    BY <1>4 DEF NextShard, history
  <1>5. CASE EndExpiring
    BY <1>5 DEF EndExpiring, history
  <1>6. CASE Pop
    <2>1. PICK e \in heaps[pass.at] :
            /\ pass.at \in Indexes /\ pass.left > 0 /\ UNCHANGED <<resize, asked>>
            /\ pass'.pc = pass.pc /\ pass'.n = pass.n /\ pass'.left \in {pass.left, pass.left - 1}
            /\ missed' \in {missed, missed \cup {e[2]}}
      BY <1>6 DEF Pop, InShard
    <2>2. e[2] \in Tasks
      BY <2>1 DEF ShardTypes
    <2> QED
      BY <2>1, <2>2
  <1>7. CASE RustPop
    <2>1. /\ pass.left > 0 /\ UNCHANGED <<resize, asked, missed>>
          /\ pass'.pc = pass.pc /\ pass'.n = pass.n /\ pass'.left \in {pass.left, pass.left - 1}
      BY <1>7 DEF RustPop, history
    <2> QED
      BY <2>1
  <1>8. CASE CountRecords
    <2>1. ExcessOf(Size) \in Nat
      BY SizeIsNat DEF ExcessOf, StoreTypes
    <2>2. /\ UNCHANGED <<resize, asked, missed>> /\ pass'.n = pass.n
          /\ pass'.left \in {ExcessOf(Size), 0}
      BY <1>8 DEF CountRecords, history
    <2> QED
      BY <1>8, <2>1, <2>2, CountingEnds
  <1>9. CASE CountAgain
    <2>1. ExcessOf(Size) \in Nat
      BY SizeIsNat DEF ExcessOf, StoreTypes
    <2> QED
      BY <1>9, <2>1 DEF CountAgain, history, StoreTypes
  <1>10. CASE TrimShard \/ RustTrimShard
    <2>1. PICK D \in SUBSET Held(pass.at) : DropFrom(pass.at, D) /\ Cardinality(D) \in 0 .. pass.left
      BY <1>10, TrimDrops
    <2>2. UNCHANGED <<resize, asked, missed>>
      BY <1>10 DEF TrimShard, RustTrimShard, history
    <2>3. pass' = [pass EXCEPT !.at = pass.at + 1, !.left = pass.left - Cardinality(D)]
      BY <2>1 DEF DropFrom
    <2> QED
      BY <2>1, <2>2, <2>3
  <1>11. CASE EndTrimming
    BY <1>11 DEF EndTrimming, history
  <1>12. CASE TrimAll
    BY <1>12 DEF TrimAll, history
  <1>13. CASE EndPass
    BY <1>13 DEF EndPass, NoPass, history
  <1>14. CASE \E n \in Counts : Collect(n)
    BY <1>14 DEF Collect, history
  <1>15. CASE ReplaceShards \/ ReplaceCount
    BY <1>15 DEF ReplaceShards, ReplaceCount, NoResize, history
  <1>16. CASE UNCHANGED vars
    BY <1>16 DEF vars, history
  <1> QED
    BY <1>1, <1>2, <1>3, <1>4, <1>5, <1>6, <1>7, <1>8, <1>9, <1>10, <1>11, <1>12, <1>13, <1>14,
       <1>15, <1>16 DEF Next

(* clear_all of the Rust store raises a flag, which its second half lowers. *)
LEMMA ClearingKept ==
  ASSUME clearing \in BOOLEAN, [Next]_vars
  PROVE  clearing' \in BOOLEAN
  <1>1. CASE RustClearShards \/ RustClearHeaps
    BY <1>1, Zenon DEF RustClearShards, RustClearHeaps
  <1>2. ASSUME clearing' = clearing PROVE clearing' \in BOOLEAN
    BY <1>2, Zenon
  <1>3. CASE \/ Tick \/ ClearAll \/ StartPass \/ NextShard \/ EndExpiring \/ Pop \/ RustPop
             \/ CountRecords \/ CountAgain \/ TrimShard \/ RustTrimShard \/ TrimAll \/ EndTrimming
             \/ EndPass \/ ReplaceShards \/ ReplaceCount
    BY <1>2, <1>3, Zenon DEF Tick, ClearAll, StartPass, NextShard, EndExpiring, Pop, RustPop,
       CountRecords, CountAgain, TrimShard, RustTrimShard, TrimAll, EndTrimming, EndPass,
       ReplaceShards, ReplaceCount, rust
  <1>4. CASE (\E n \in Counts : Collect(n)) \/ UNCHANGED vars
    BY <1>2, <1>4, Zenon DEF Collect, vars, rust
  <1>5. CASE \E t \in Tasks : Submit(t) \/ End(t) \/ UpdateStatus(t) \/ RustPush(t) \/ RustInsert(t)
                              \/ RemoveStatus(t)
    BY <1>2, <1>5, Zenon DEF Submit, End, UpdateStatus, RustPush, RustInsert, RemoveStatus, rust
  <1> QED
    BY <1>1, <1>3, <1>4, <1>5, Zenon DEF Next

LEMMA StagesStart == Init => Stages
  BY StoreAssumption DEF Init, Stages, PassPcs, NoPass, NoResize

(* Records, heaps, pass and resize keep their types, whatever overlaps: the *)
(* pass never removes more than it may.                                     *)
THEOREM StoreTypeCorrect == Spec => []TypeOK
  <1>1. Types /\ Stages /\ clearing \in BOOLEAN => TypeOK
    <2> SUFFICES ASSUME Types, Stages, clearing \in BOOLEAN PROVE TypeOK
      OBVIOUS
    <2>1. \E n \in Counts : Indexes = 0 .. n - 1
      BY DEF Types, ShardTypes, Indexes
    <2>2. /\ impl \in {"python", "rust"} /\ limit \in Nat /\ now \in Times /\ count \in Counts
          /\ life \in [Tasks -> {"new", "open", "ended", "written"}]
          /\ bornAt \in [Tasks -> Times] /\ endedAt \in [Tasks -> Times \cup {None}]
          /\ pushed \subseteq Tasks
      BY DEF Types, StoreTypes
    <2>3. /\ DOMAIN heaps = Indexes
          /\ \A i \in Indexes : shards[i] \in [Tasks -> Records \cup {None}]
          /\ \A i \in Indexes : heaps[i] \subseteq (Nat \X Tasks)
      BY DEF Types, ShardTypes, Slot, Indexes
    <2>4. /\ pass.pc \in PassPcs /\ pass.at \in Nat /\ pass.left \in Nat /\ pass.n \in Counts \cup {0}
          /\ resize.pc \in {"idle", "collected", "replaced"}
          /\ asked \subseteq Tasks /\ missed \subseteq Tasks
      BY DEF Types, Stages, PassTypes
    <2> QED
      BY <2>1, <2>2, <2>3, <2>4, Zenon DEF TypeOK, PassPcs
  <1>2. Init => Types /\ HeapInv /\ Stages
    BY TypesStart, StagesStart DEF Init, HeapInv, Indexes, NoRecords, Listed
  <1>3. Types /\ HeapInv /\ Stages /\ [Next]_vars => (Types /\ HeapInv /\ Stages)'
    BY StoreTypesKept, PassTypesKept, HeapsKept, StagesKept DEF Types
  <1>4. Init => clearing \in BOOLEAN
    BY Zenon DEF Init
  <1>5. clearing \in BOOLEAN /\ [Next]_vars => (clearing \in BOOLEAN)'
    BY ClearingKept, Zenon
  <1> QED
    BY <1>1, <1>2, <1>3, <1>4, <1>5, PTL DEF Spec

-----------------------------------------------------------------------------
(* If no call overlaps resize_shards, a pass sees the same shards all along.*)
InStep ==
  /\ pass.pc # "idle" => resize.pc = "idle" /\ pass.n = count
  /\ impl = "rust" => resize.pc = "idle"
  /\ Indexes = 0 .. (IF resize.pc = "replaced" THEN resize.to ELSE count) - 1

Clean(i) == \A t \in Tasks : Expired(shards[i][t]) => t \in missed

(* The shards that a pass has left behind it have nothing that expired.     *)
Swept ==
  impl = "python" /\ pass.calm /\ pass.left > 0 =>
    /\ pass.pc = "expiring" => \A i \in Indexes : i < pass.at => Clean(i)
    /\ pass.pc = "expired" => \A i \in Indexes : Clean(i)

LEMMA InStepKept ==
  ASSUME Overlap = FALSE, Types, Stages, InStep, [Next]_vars
  PROVE  InStep'
  <1> USE DEF Types, PassTypes, PassFields, InStep, Indexes, fixed
  <1>1. CASE \E t \in Tasks : Submit(t) \/ UpdateStatus(t) \/ RustInsert(t) \/ RemoveStatus(t)
    <2>1. /\ DOMAIN shards' = DOMAIN shards /\ UNCHANGED <<impl, resize, count>>
          /\ pass'.pc = pass.pc /\ pass'.n = pass.n
      BY <1>1 DEF Submit, UpdateStatus, RustInsert, RemoveStatus, Store
    <2> QED
      BY <2>1
  <1>2. CASE Tick \/ UNCHANGED vars \/ RustClearHeaps \/ \E t \in Tasks : End(t) \/ RustPush(t)
    BY <1>2 DEF Tick, vars, RustClearHeaps, End, RustPush
  <1>3. CASE ClearAll \/ RustClearShards
    BY <1>3 DEF ClearAll, RustClearShards
  <1>4. CASE StartPass
    BY <1>4 DEF StartPass, MayCall, NoPass
  <1>5. CASE NextShard \/ EndExpiring
    <2>1. /\ UNCHANGED <<impl, shards, resize, count>> /\ pass.pc = "expiring" /\ pass'.n = pass.n
          /\ pass'.pc \in {"expiring", "expired"}
      BY <1>5 DEF NextShard, EndExpiring, InShard
    <2> QED
      BY <2>1
  <1>6. CASE Pop \/ RustPop
    <2>1. /\ DOMAIN shards' = DOMAIN shards /\ UNCHANGED <<impl, resize, count>>
          /\ pass'.pc = pass.pc /\ pass'.n = pass.n
      BY <1>6 DEF Pop, RustPop
    <2> QED
      BY <2>1
  <1>7. CASE CountRecords \/ CountAgain
    <2>1. UNCHANGED <<impl, shards, resize, count>> /\ pass.pc # "idle" /\ pass'.n \in {pass.n, count}
      BY <1>7 DEF CountRecords, CountAgain
    <2> QED
      BY <2>1
  <1>8. CASE TrimShard \/ RustTrimShard
    <2>1. /\ \E D : DropFrom(pass.at, D)
          /\ UNCHANGED <<impl, resize, count>> /\ pass.pc = "trimming"
      BY <1>8 DEF TrimShard, RustTrimShard, InShard
    <2>2. DOMAIN shards' = DOMAIN shards /\ pass'.pc = "trimming" /\ pass'.n = pass.n
      BY <2>1 DEF DropFrom
    <2> QED
      BY <2>1, <2>2
  <1>9. CASE TrimAll \/ EndTrimming
    BY <1>9 DEF TrimAll, EndTrimming
  <1>10. CASE EndPass
    BY <1>10 DEF EndPass, NoPass
  <1>11. CASE \E n \in Counts : Collect(n)
    BY <1>11 DEF Collect
  <1>12. CASE ReplaceShards
    BY <1>12 DEF ReplaceShards
  <1>13. CASE ReplaceCount
    BY <1>13 DEF ReplaceCount, NoResize
  <1> QED
    BY <1>1, <1>2, <1>3, <1>4, <1>5, <1>6, <1>7, <1>8, <1>9, <1>10, <1>11, <1>12, <1>13 DEF Next

(* A pass that leaves a Python shard has popped all that was due: where the *)
(* earliest entry is not due, none is.                                      *)
LEMMA NothingDueIsClean ==
  ASSUME Types, HeapInv, impl = "python", pass.at \in Indexes,
         ~ \E e \in heaps[pass.at] : Due(e)
  PROVE  Clean(pass.at)
  <1> DEFINE i == pass.at
             heap == heaps[i]
             T == {e[1] : e \in heap}
  <1>1. heap \subseteq Nat \X Tasks
    BY DEF Types, ShardTypes
  <1>2. ASSUME NEW e \in heap PROVE e[1] > pass.now
    <2>1. T \in SUBSET Nat /\ T # {}
      BY <1>1
    <2>2. PICK x \in T : \A y \in T : x <= y
      BY <2>1, LeastNat
    <2>3. PICK f \in heap : f[1] = x
      OBVIOUS
    <2>4. \A g \in heap : f[1] <= g[1]
      BY <2>2, <2>3
    <2>5. Top(f, heap)
      BY <2>4 DEF Top
    <2>6. ~ (f[1] <= pass.now)
      BY <2>5 DEF Due
    <2>7. f[1] <= e[1] /\ f[1] \in Nat /\ e[1] \in Nat /\ pass.now \in Nat
      BY <1>1, <2>4 DEF Types, PassTypes
    <2> QED
      BY <2>6, <2>7
  <1>3. ASSUME NEW t \in Tasks, Expired(shards[i][t]) PROVE t \in missed
    <2>1. shards[i][t] \in Records /\ shards[i][t].ended # None /\ pass.now - shards[i][t].ended > Ttl
      BY <1>3 DEF Expired, Types, ShardTypes, Slot
    <2>2. shards[i][t].ended \in Nat /\ pass.now \in Nat /\ Ttl \in Nat
      BY <2>1, StoreAssumption DEF Records, Times, Types, PassTypes
    <2>3. Entry(t, shards[i][t].ended)[1] = shards[i][t].ended + Ttl
      BY DEF Entry
    <2>4. Entry(t, shards[i][t].ended) \notin heap
      BY <1>2, <2>1, <2>2, <2>3
    <2>5. shards[i][t] # None
      BY <1>3 DEF Expired
    <2> QED
      BY <2>1, <2>4, <2>5 DEF HeapInv, Listed
  <1> QED
    BY <1>3 DEF Clean

(* Removing records, or missing more, makes no clean shard dirty.           *)
LEMMA CleanKept ==
  ASSUME NEW i, Clean(i), pass'.now = pass.now, missed \subseteq missed',
         \A t \in Tasks : shards'[i][t] \in {None, shards[i][t]}
  PROVE  Clean(i)'
  <1>1. ASSUME NEW t \in Tasks, Expired(shards[i][t])' PROVE t \in missed'
    BY <1>1 DEF Clean, Expired
  <1> QED
    BY <1>1 DEF Clean

(* What the calls beside a pass do to the shards that it has swept.         *)
LEMMA OthersKeepSwept ==
  ASSUME Overlap = FALSE, Types, InStep, Swept,
         \/ Tick \/ ClearAll \/ RustClearShards \/ RustClearHeaps \/ UNCHANGED vars
         \/ \E t \in Tasks : Submit(t) \/ End(t) \/ UpdateStatus(t) \/ RustPush(t) \/ RustInsert(t)
                             \/ RemoveStatus(t)
         \/ \E n \in Counts : Collect(n)
         \/ ReplaceShards \/ ReplaceCount
  PROVE  Swept'
  <1> USE DEF Types
  <1>1. ASSUME UNCHANGED <<impl, pass, missed>>, Indexes' = Indexes,
               \A i \in Indexes, t \in Tasks : shards'[i][t] \in {None, shards[i][t]}
        PROVE  Swept'
    <2>1. \A i \in Indexes : Clean(i) => Clean(i)'
      BY <1>1, CleanKept
    <2> QED
      BY <1>1, <2>1 DEF Swept
  <1>2. CASE \/ Tick \/ RustClearHeaps \/ UNCHANGED vars \/ ReplaceCount
             \/ (\E t \in Tasks : End(t) \/ RustPush(t)) \/ \E n \in Counts : Collect(n)
    <2>1. UNCHANGED <<impl, pass, missed, shards>>
      BY <1>2 DEF Tick, RustClearHeaps, ReplaceCount, vars, End, RustPush, Collect, fixed, history
    <2> QED
      BY <1>1, <2>1 DEF Indexes
  <1>3. CASE ClearAll \/ RustClearShards
    <2>1. UNCHANGED <<impl, pass, missed>> /\ shards' = [i \in Indexes |-> NoRecords]
      BY <1>3 DEF ClearAll, RustClearShards, fixed
    <2>2. Indexes' = Indexes
      BY <2>1 DEF Indexes
    <2>3. \A i \in Indexes, t \in Tasks : shards'[i][t] = None
      BY <2>1 DEF NoRecords
    <2> QED
      BY <1>1, <2>1, <2>2, <2>3
  <1>4. ASSUME NEW t \in Tasks, Submit(t) \/ UpdateStatus(t) \/ RustInsert(t) PROVE Swept'
    <2>1. pass' = [pass EXCEPT !.calm = FALSE] /\ "calm" \in DOMAIN pass
      BY <1>4 DEF Submit, UpdateStatus, RustInsert, Store, PassTypes, PassFields
    <2>2. ~ pass'.calm
      BY <2>1
    <2> QED
      BY <2>2 DEF Swept
  <1>5. ASSUME NEW t \in Tasks, RemoveStatus(t) PROVE Swept'
    <2> DEFINE i == ShardIndex(t, count)
    <2>1. /\ i \in Indexes /\ shards' = [shards EXCEPT ![i][t] = None]
          /\ UNCHANGED <<impl, pass, missed>>
      BY <1>5 DEF RemoveStatus, fixed
    <2>2. ShardTypes /\ None \in Slot
      BY DEF Slot
    <2>3. /\ Indexes' = Indexes
          /\ \A j \in Indexes, u \in Tasks :
               shards'[j][u] = IF j = i /\ u = t THEN None ELSE shards[j][u]
      <3> HIDE DEF i, Types
      <3> QED
        BY <2>1, <2>2, OneRecord
    <2> HIDE DEF i
    <2> QED
      BY <1>1, <2>1, <2>3
  <1>6. CASE ReplaceShards
    <2>1. pass'.pc = "idle"
      BY <1>6 DEF ReplaceShards, InStep, PassTypes, PassFields
    <2> QED
      BY <2>1 DEF Swept
  <1> QED
    BY <1>2, <1>3, <1>4, <1>5, <1>6

(* The steps of the pass itself.                                            *)
LEMMA PassSweeps ==
  ASSUME Types, HeapInv, InStep, Swept,
         \/ StartPass \/ NextShard \/ EndExpiring \/ Pop \/ RustPop \/ CountRecords \/ CountAgain
         \/ TrimShard \/ RustTrimShard \/ TrimAll \/ EndTrimming \/ EndPass
  PROVE  Swept'
  <1> USE DEF Types, PassTypes, PassFields
  <1>1. CASE StartPass
    <2>1. pass'.pc = "expiring" /\ pass'.at = 0
      BY <1>1 DEF StartPass, NoPass
    <2>2. \A i \in Indexes' : ~(i < 0)
      <3>1. Indexes' = Indexes /\ \E n \in Counts : Indexes = 0 .. n - 1
        BY <1>1 DEF StartPass, Indexes, ShardTypes
      <3> QED
        BY <3>1, StoreAssumption
    <2> QED
      BY <2>1, <2>2 DEF Swept
  <1>2. CASE NextShard
    <2>1. /\ pass'.pc = "expiring" /\ pass.pc = "expiring" /\ pass'.at = pass.at + 1
          /\ pass'.left = pass.left /\ pass'.calm = pass.calm /\ pass'.now = pass.now
          /\ UNCHANGED <<impl, shards, missed>> /\ pass.at \in Indexes
          /\ (pass.left = 0 \/ ~\E e \in heaps[pass.at] : Due(e))
      BY <1>2 DEF NextShard, InShard, fixed, history
    <2>2. Indexes' = Indexes /\ \A i \in Indexes : i \in Nat
      BY <2>1, StoreAssumption DEF Indexes, ShardTypes
    <2>3. \A i \in Indexes : Clean(i) => Clean(i)'
      BY <2>1, CleanKept
    <2>4. ASSUME impl = "python", pass.calm, pass.left > 0, NEW i \in Indexes, i < pass.at + 1
          PROVE  Clean(i)
      <3>1. CASE i = pass.at
        BY <2>1, <2>4, <3>1, NothingDueIsClean
      <3>2. CASE i < pass.at
        BY <2>1, <2>4, <3>2 DEF Swept
      <3> QED
        BY <2>2, <2>4, <3>1, <3>2
    <2> QED
      BY <2>1, <2>2, <2>3, <2>4 DEF Swept
  <1>3. CASE EndExpiring
    <2>1. /\ pass'.pc = "expired" /\ pass.pc = "expiring" /\ pass.at = pass.n
          /\ pass'.left = pass.left /\ pass'.calm = pass.calm /\ pass'.now = pass.now
          /\ UNCHANGED <<impl, shards, missed>>
      BY <1>3 DEF EndExpiring, fixed, history
    <2>2. Indexes' = Indexes /\ \A i \in Indexes : i < pass.at
      BY <2>1, StoreAssumption DEF Indexes, InStep, StoreTypes
    <2>3. \A i \in Indexes : Clean(i) => Clean(i)'
      BY <2>1, CleanKept
    <2> QED
      BY <2>1, <2>2, <2>3 DEF Swept
  <1>4. CASE Pop
    <2> DEFINE i == pass.at
    <2>1. PICK e \in heaps[i] :
            /\ i \in Indexes /\ pass.left > 0 /\ pass.pc = "expiring"
            /\ pass'.pc = pass.pc /\ pass'.at = pass.at /\ pass'.now = pass.now
            /\ pass'.calm = pass.calm /\ UNCHANGED impl /\ missed \subseteq missed'
            /\ shards' = [shards EXCEPT ![i][e[2]] = None] \/ UNCHANGED shards
      BY <1>4 DEF Pop, InShard, fixed
    <2>2. e[2] \in Tasks
      BY <2>1 DEF ShardTypes
    <2>3. /\ Indexes' = Indexes
          /\ \A j \in Indexes, u \in Tasks : shards'[j][u] \in {None, shards[j][u]}
      <3>1. CASE UNCHANGED shards
        BY <3>1 DEF Indexes
      <3>2. CASE shards' = [shards EXCEPT ![i][e[2]] = None]
        <4>1. ShardTypes /\ i \in Indexes /\ None \in Slot
          BY <2>1 DEF Slot
        <4> HIDE DEF i, Types
        <4>2. /\ Indexes' = Indexes
              /\ \A j \in Indexes, u \in Tasks :
                   shards'[j][u] = IF j = i /\ u = e[2] THEN None ELSE shards[j][u]
          BY <2>2, <3>2, <4>1, OneRecord
        <4> QED
          BY <4>2
      <3> QED
        BY <2>1, <3>1, <3>2
    <2>4. \A j \in Indexes : Clean(j) => Clean(j)'
      BY <2>1, <2>3, CleanKept
    <2> QED
      BY <2>1, <2>3, <2>4 DEF Swept
  <1>5. CASE RustPop
    BY <1>5 DEF RustPop, fixed, Swept
  <1>6. CASE CountRecords \/ CountAgain
    <2>1. pass'.pc # "expiring" /\ pass'.pc # "expired"
      BY <1>6, CountingEnds
    <2> QED
      BY <2>1 DEF Swept
  <1>7. CASE TrimShard \/ RustTrimShard
    <2>1. (\E D : DropFrom(pass.at, D)) /\ pass.pc = "trimming"
      BY <1>7 DEF TrimShard, RustTrimShard, InShard
    <2>2. pass'.pc = "trimming"
      BY <2>1 DEF DropFrom
    <2> QED
      BY <2>2 DEF Swept
  <1>8. CASE TrimAll \/ EndTrimming
    <2>1. pass'.pc = "trimmed"
      BY <1>8 DEF TrimAll, EndTrimming
    <2> QED
      BY <2>1 DEF Swept
  <1>9. CASE EndPass
    BY <1>9 DEF EndPass, NoPass, Swept
  <1> QED
    BY <1>1, <1>2, <1>3, <1>4, <1>5, <1>6, <1>7, <1>8, <1>9

LEMMA SweptKept ==
  ASSUME Overlap = FALSE, Types, HeapInv, InStep, Swept, [Next]_vars
  PROVE  Swept'
  BY OthersKeepSwept, PassSweeps DEF Next

LEMMA SweptStart == Init => InStep /\ Swept
  BY DEF Init, InStep, Swept, NoPass, NoResize, Indexes

(* cleanup_old_task_status in Python, where no other call overlaps          *)
(* resize_shards: a pass nobody wrote during, whose allowance was not used  *)
(* up, leaves no record that had expired when it began.                     *)
THEOREM PythonPassExpires ==
  ASSUME Overlap = FALSE
  PROVE  Spec => []PythonExpires
  <1>1. Init => Types /\ HeapInv /\ Stages /\ InStep /\ Swept
    BY TypesStart, StagesStart, SweptStart DEF Init, HeapInv, Indexes, NoRecords, Listed
  <1>2. Types /\ HeapInv /\ Stages /\ InStep /\ Swept /\ [Next]_vars =>
          (Types /\ HeapInv /\ Stages /\ InStep /\ Swept)'
    BY StoreTypesKept, PassTypesKept, HeapsKept, StagesKept, InStepKept, SweptKept DEF Types
  <1>3. Types /\ HeapInv /\ InStep /\ Swept => PythonExpires
    <2> SUFFICES ASSUME Types, Swept, impl = "python", pass.pc = "expired", pass.calm, pass.left > 0,
                        NEW t \in Tasks, Expired(Found(t))
                 PROVE  t \in missed
      BY DEF PythonExpires, NothingExpiredStays
    <2>1. ShardIndex(t, Cardinality(Indexes)) \in Indexes
      BY PlaceOf DEF Types
    <2> QED
      BY <2>1 DEF Swept, Clean, Found
  <1> QED
    BY <1>1, <1>2, <1>3, PTL DEF Spec

-----------------------------------------------------------------------------
(* If no call overlaps resize_shards, the shards are one map: a task has a  *)
(* record in one shard only, that of its hash, and what is known there of   *)
(* its end is true.                                                         *)

Lives ==
  \A t \in Tasks : /\ endedAt[t] = None <=> life[t] \in {"new", "open"}
                   /\ t \in pushed => life[t] = "ended"

Placed ==
  \A i \in Indexes, t \in Tasks :
    shards[i][t] # None =>
      /\ i = ShardIndex(t, Cardinality(Indexes))
      /\ shards[i][t].ended # None => shards[i][t].ended = endedAt[t]

(* Rust removes whatever record the task of an entry has.                   *)
TrueEntry(e) == endedAt[e[2]] # None /\ e[1] = endedAt[e[2]] + Ttl

RustHeaps == impl = "rust" => \A i \in Indexes : \A e \in heaps[i] : TrueEntry(e)

SeenIsStored == resize.pc = "collected" => \A t \in Tasks : resize.seen[t] = Found(t)

Sound == Lives /\ Placed /\ RustHeaps /\ SeenIsStored /\ pass.now <= now

LEMMA LivesKept ==
  ASSUME Types, Lives, [Next]_vars
  PROVE  /\ Lives'
         /\ \A t \in Tasks : endedAt[t] # None => endedAt'[t] = endedAt[t]
  <1> USE StoreAssumption DEF Types, StoreTypes, Lives, Times
  <1>0. None \notin Times
    BY DEF Times
  <1>1. CASE UNCHANGED <<life, endedAt, pushed>>
    BY <1>1
  <1>2. ASSUME NEW t \in Tasks, Submit(t)
        PROVE  Lives' /\ \A u \in Tasks : endedAt[u] # None => endedAt'[u] = endedAt[u]
    BY <1>2 DEF Submit, rust
  <1>3. ASSUME NEW t \in Tasks, End(t)
        PROVE  Lives' /\ \A u \in Tasks : endedAt[u] # None => endedAt'[u] = endedAt[u]
    BY <1>0, <1>3 DEF End, rust
  <1>4. ASSUME NEW t \in Tasks, UpdateStatus(t)
        PROVE  Lives' /\ \A u \in Tasks : endedAt[u] # None => endedAt'[u] = endedAt[u]
    BY <1>4 DEF UpdateStatus, rust
  <1>5. ASSUME NEW t \in Tasks, RustPush(t)
        PROVE  Lives' /\ \A u \in Tasks : endedAt[u] # None => endedAt'[u] = endedAt[u]
    BY <1>5 DEF RustPush, reports
  <1>6. ASSUME NEW t \in Tasks, RustInsert(t)
        PROVE  Lives' /\ \A u \in Tasks : endedAt[u] # None => endedAt'[u] = endedAt[u]
    BY <1>6 DEF RustInsert
  <1>7. CASE \/ Tick \/ ClearAll \/ RustClearShards \/ RustClearHeaps
             \/ StartPass \/ NextShard \/ EndExpiring \/ Pop \/ RustPop
             \/ (\E t \in Tasks : RemoveStatus(t)) \/ UNCHANGED vars
    <2>1. UNCHANGED <<life, endedAt, pushed>>
      BY <1>7 DEF Tick, ClearAll, RustClearShards, RustClearHeaps, StartPass, NextShard,
         EndExpiring, Pop, RustPop, RemoveStatus, vars, reports, rust
    <2> QED
      BY <1>1, <2>1
  <1>8. CASE \/ CountRecords \/ CountAgain \/ TrimShard \/ RustTrimShard \/ TrimAll
             \/ EndTrimming \/ EndPass \/ ReplaceShards \/ ReplaceCount
             \/ \E n \in Counts : Collect(n)
    <2>1. UNCHANGED <<life, endedAt, pushed>>
      BY <1>8 DEF CountRecords, CountAgain, TrimShard, RustTrimShard, TrimAll, EndTrimming,
         EndPass, ReplaceShards, ReplaceCount, Collect, reports, rust
    <2> QED
      BY <1>1, <2>1
  <1> QED
    BY <1>2, <1>3, <1>4, <1>5, <1>6, <1>7, <1>8 DEF Next

(* What any step does to the shards.                                        *)
Wrote(t, r) ==
  /\ ShardIndex(t, count) \in Indexes
  /\ shards' = [shards EXCEPT ![ShardIndex(t, count)][t] = r]
  /\ r.ended # None => r.ended = endedAt[t] /\ life[t] = "ended"
  /\ resize.pc = "idle" /\ pass' = [pass EXCEPT !.calm = FALSE]

Shrunk ==
  /\ Indexes' = Indexes
  /\ \A i \in Indexes, t \in Tasks : shards'[i][t] \in {None, shards[i][t]}

LEMMA WritesOne ==
  ASSUME Overlap = FALSE, Types, InStep, Lives, NEW t \in Tasks,
         Submit(t) \/ UpdateStatus(t) \/ RustInsert(t)
  PROVE  \E r \in Records : Wrote(t, r)
  <1>1. CASE Submit(t)
    <2> DEFINE r == [born |-> now, ended |-> None]
    <2>1. r \in Records
      BY DEF Types, StoreTypes, Records
    <2>2. Wrote(t, r)
      BY <1>1 DEF Submit, Store, MayCall, Wrote
    <2> QED
      BY <2>1, <2>2
  <1>2. Outcome(t) \in Records /\ Outcome(t).ended = endedAt[t]
    BY DEF Types, StoreTypes, Records, Outcome
  <1>3. CASE UpdateStatus(t)
    BY <1>2, <1>3 DEF UpdateStatus, Store, MayCall, Wrote
  <1>4. CASE RustInsert(t)
    <2>1. life[t] = "ended" /\ impl = "rust"
      BY <1>4 DEF RustInsert, Lives, Types, StoreTypes
    <2> QED
      BY <1>2, <1>4, <2>1 DEF RustInsert, Store, InStep, Wrote
  <1> QED
    BY <1>1, <1>3, <1>4

(* The records D are taken out of shard i.                                  *)
LEMMA DropShrinks ==
  ASSUME Types, TrimShard \/ RustTrimShard
  PROVE  Shrunk
  <1>1. pass.at \in Indexes /\ \E D : DropFrom(pass.at, D)
    BY DEF TrimShard, RustTrimShard, InShard
  <1> QED
    BY <1>1, SomeDropped DEF Types, Shrunk

LEMMA RemovalShrinks ==
  ASSUME Types, NEW i \in Indexes, NEW t \in Tasks, shards' = [shards EXCEPT ![i][t] = None]
  PROVE  Shrunk
  <1>1. None \in Slot
    BY DEF Slot
  <1>2. ShardTypes
    BY DEF Types
  <1>3. /\ Indexes' = Indexes
        /\ \A j \in Indexes, u \in Tasks :
             shards'[j][u] = IF j = i /\ u = t THEN None ELSE shards[j][u]
    BY <1>1, <1>2, OneRecord
  <1> QED
    BY <1>3 DEF Shrunk

LEMMA ShardMoves ==
  ASSUME Overlap = FALSE, Types, InStep, Lives, [Next]_vars
  PROVE  \/ \E t \in Tasks, r \in Records : Wrote(t, r)
         \/ Shrunk
         \/ ReplaceShards
  <1>0. UNCHANGED shards => Shrunk
    BY DEF Shrunk, Indexes
  <1>1. CASE \E t \in Tasks : Submit(t) \/ UpdateStatus(t) \/ RustInsert(t)
    BY <1>1, WritesOne
  <1>2. CASE \/ Tick \/ RustClearHeaps \/ StartPass \/ NextShard \/ EndExpiring \/ CountRecords
             \/ CountAgain \/ EndTrimming \/ EndPass \/ ReplaceCount \/ UNCHANGED vars
             \/ (\E n \in Counts : Collect(n)) \/ \E t \in Tasks : End(t) \/ RustPush(t)
    <2>1. UNCHANGED shards
      BY <1>2 DEF Tick, RustClearHeaps, StartPass, NextShard, EndExpiring, CountRecords, CountAgain,
         EndTrimming, EndPass, ReplaceCount, Collect, End, RustPush, vars
    <2> QED
      BY <1>0, <2>1
  <1>3. CASE \E t \in Tasks : RemoveStatus(t)
    BY <1>3, RemovalShrinks DEF RemoveStatus
  <1>4. CASE ClearAll \/ RustClearShards
    BY <1>4 DEF ClearAll, RustClearShards, NoRecords, Shrunk, Indexes
  <1>5. CASE Pop \/ RustPop
    <2>1. PICK e \in heaps[pass.at] :
            /\ pass.at \in Indexes
            /\ UNCHANGED shards \/ shards' = [shards EXCEPT ![pass.at][e[2]] = None]
      BY <1>5 DEF Pop, RustPop, InShard
    <2>2. e[2] \in Tasks
      BY <2>1 DEF Types, ShardTypes
    <2> QED
      BY <1>0, <2>1, <2>2, RemovalShrinks
  <1>6. CASE TrimAll
    <2>1. \/ UNCHANGED shards
          \/ \E D : shards' = [i \in Indexes |->
                              [t \in Tasks |-> IF t \in D THEN None ELSE shards[i][t]]]
      BY <1>6 DEF TrimAll
    <2> QED
      BY <1>0, <2>1 DEF Shrunk, Indexes
  <1> QED
    BY <1>1, <1>2, <1>3, <1>4, <1>5, <1>6, DropShrinks DEF Next

LEMMA ShardCount == \A n \in Counts : Cardinality(0 .. n - 1) = n
  <1> SUFFICES ASSUME NEW n \in Counts PROVE Cardinality(0 .. n - 1) = n
    OBVIOUS
  <1>1. n \in Nat /\ n > 0
    BY StoreAssumption
  <1> QED
    BY <1>1, FS_Interval

(* A record is written in the shard its task belongs to.                    *)
LEMMA WrotePlace ==
  ASSUME Types, InStep, NEW t \in Tasks, NEW r \in Records, Wrote(t, r)
  PROVE  /\ ShardIndex(t, count) = ShardIndex(t, Cardinality(Indexes))
         /\ Indexes' = Indexes /\ r # None
         /\ \A j \in Indexes, u \in Tasks :
              shards'[j][u] = IF j = ShardIndex(t, count) /\ u = t THEN r ELSE shards[j][u]
  <1>1. Indexes = 0 .. count - 1 /\ count \in Counts
    BY DEF Wrote, InStep, Types, StoreTypes
  <1>2. Cardinality(Indexes) = count
    BY <1>1, ShardCount
  <1>3. /\ ShardTypes /\ ShardIndex(t, count) \in Indexes /\ r \in Slot
        /\ shards' = [shards EXCEPT ![ShardIndex(t, count)][t] = r]
    BY DEF Types, Wrote, Slot
  <1>4. r # None
    BY StoreAssumption
  <1>5. /\ Indexes' = Indexes
        /\ \A j \in Indexes, u \in Tasks :
             shards'[j][u] = IF j = ShardIndex(t, count) /\ u = t THEN r ELSE shards[j][u]
    BY <1>3, OneRecord
  <1> QED
    BY <1>2, <1>4, <1>5

LEMMA Replaced ==
  ASSUME Types, ReplaceShards
  PROVE  /\ Indexes' = 0 .. resize.to - 1 /\ Cardinality(Indexes') = resize.to
         /\ \A i \in Indexes', t \in Tasks :
              shards'[i][t] = IF ShardIndex(t, resize.to) = i THEN resize.seen[t] ELSE None
  <1>1. resize.to \in Counts
    BY DEF ReplaceShards, Types, PassTypes
  <1>2. Indexes' = 0 .. resize.to - 1
    BY DEF ReplaceShards, Indexes
  <1>3. Cardinality(Indexes') = resize.to
    BY <1>1, <1>2, ShardCount
  <1>4. ASSUME NEW i \in Indexes', NEW t \in Tasks
        PROVE  shards'[i][t] = IF ShardIndex(t, resize.to) = i THEN resize.seen[t] ELSE None
    BY <1>2 DEF ReplaceShards
  <1> QED
    BY <1>2, <1>3, <1>4

LEMMA PlacedKept ==
  ASSUME Overlap = FALSE, Types, InStep, Sound, [Next]_vars
  PROVE  Placed'
  <1>0. \A t \in Tasks : endedAt[t] # None => endedAt'[t] = endedAt[t]
    BY LivesKept DEF Sound
  <1>1. ASSUME NEW t \in Tasks, NEW r \in Records, Wrote(t, r) PROVE Placed'
    <2>1. r.ended # None => r.ended = endedAt'[t]
      BY <1>0, <1>1 DEF Wrote, Sound, Lives
    <2>2. \A j \in Indexes, u \in Tasks :
            shards[j][u] # None =>
              /\ j = ShardIndex(u, Cardinality(Indexes))
              /\ shards[j][u].ended # None => shards[j][u].ended = endedAt'[u]
      BY <1>0 DEF Sound, Placed
    <2>3. /\ ShardIndex(t, count) = ShardIndex(t, Cardinality(Indexes)) /\ Indexes' = Indexes
          /\ \A j \in Indexes, u \in Tasks :
               shards'[j][u] = IF j = ShardIndex(t, count) /\ u = t THEN r ELSE shards[j][u]
      BY <1>1, WrotePlace
    <2> QED
      BY <2>1, <2>2, <2>3 DEF Placed
  <1>2. CASE Shrunk
    BY <1>0, <1>2 DEF Shrunk, Sound, Placed
  <1>3. CASE ReplaceShards
    <2> SUFFICES ASSUME NEW i \in Indexes', NEW t \in Tasks, shards'[i][t] # None
                 PROVE  /\ i = ShardIndex(t, Cardinality(Indexes'))
                        /\ shards'[i][t].ended # None => shards'[i][t].ended = endedAt'[t]
      BY DEF Placed
    <2>1. /\ ShardIndex(t, resize.to) = i /\ Cardinality(Indexes') = resize.to
          /\ shards'[i][t] = resize.seen[t]
      BY <1>3, Replaced
    <2>2. resize.seen[t] = Found(t)
      BY <1>3 DEF ReplaceShards, Sound, SeenIsStored
    <2>3. ShardIndex(t, Cardinality(Indexes)) \in Indexes
      BY PlaceOf DEF Types
    <2>4. Found(t).ended # None => Found(t).ended = endedAt'[t]
      BY <1>0, <2>1, <2>2, <2>3 DEF Found, Sound, Placed
    <2> QED
      BY <2>1, <2>2, <2>4
  <1> QED
    BY <1>1, <1>2, <1>3, ShardMoves DEF Sound

(* Every entry of a Rust heap tells when its task ended.                    *)
LEMMA RustHeapsKept ==
  ASSUME Overlap = FALSE, Types, InStep, Sound, [Next]_vars
  PROVE  RustHeaps'
  <1> SUFFICES ASSUME impl = "rust", NEW i \in Indexes', NEW e \in heaps'[i]
               PROVE  TrueEntry(e)'
    <2>1. impl' = impl
      BY DEF Next, vars, fixed, Tick, Submit, End, UpdateStatus, RustPush, RustInsert, RemoveStatus,
         ClearAll, RustClearShards, RustClearHeaps, StartPass, NextShard, EndExpiring, Pop, RustPop,
         CountRecords, CountAgain, TrimShard, RustTrimShard, TrimAll, EndTrimming, EndPass, Collect,
         ReplaceShards, ReplaceCount
    <2> QED
      BY <2>1 DEF RustHeaps
  <1>0. /\ \A t \in Tasks : endedAt[t] # None => endedAt'[t] = endedAt[t]
        /\ \A j \in Indexes : heaps[j] \subseteq Nat \X Tasks /\ DOMAIN heaps = Indexes
        /\ \A j \in Indexes : \A f \in heaps[j] : TrueEntry(f)
    BY LivesKept DEF Sound, RustHeaps, Types, ShardTypes, Indexes
  <1>1. i \in Indexes
    BY ShardMoves, WrotePlace DEF Sound, Shrunk, ReplaceShards, InStep
  <1>2. \/ e \in heaps[i]
        \/ \E t \in Tasks : e = Entry(t, endedAt[t]) /\ life[t] = "ended"
    <2>1. CASE \E t \in Tasks : RustPush(t)
      BY <1>0, <1>1, <2>1 DEF RustPush
    <2>2. CASE UNCHANGED heaps
      BY <2>2
    <2>3. CASE \E f : \E j \in Indexes : heaps' = [heaps EXCEPT ![j] = @ \ {f}]
      BY <1>0, <1>1, <2>3
    <2>4. CASE \E D : heaps' = [j \in Indexes |-> {f \in heaps[j] : f[2] \in D}]
      BY <1>1, <2>4
    <2>5. CASE heaps' = [j \in Indexes |-> {}]
      BY <1>1, <2>5
    <2>6. CASE \/ Tick \/ StartPass \/ NextShard \/ EndExpiring \/ CountRecords \/ CountAgain
               \/ RustTrimShard \/ EndTrimming \/ EndPass \/ RustClearShards \/ ReplaceCount
               \/ (\E n \in Counts : Collect(n)) \/ UNCHANGED vars
               \/ \E t \in Tasks : Submit(t) \/ End(t) \/ RustInsert(t) \/ RemoveStatus(t)
      <3>1. UNCHANGED heaps
        BY <2>6 DEF Tick, StartPass, NextShard, EndExpiring, CountRecords, CountAgain, RustTrimShard,
           EndTrimming, EndPass, RustClearShards, ReplaceCount, Collect, Submit, End, RustInsert,
           RemoveStatus, vars
      <3> QED
        BY <2>2, <3>1
    <2>7. CASE RustPop \/ RustClearHeaps
      BY <2>3, <2>5, <2>7 DEF RustPop, InShard, RustClearHeaps
    <2>8. ~(\/ Pop \/ TrimShard \/ ClearAll \/ ReplaceShards \/ \E t \in Tasks : UpdateStatus(t))
      BY DEF Pop, TrimShard, ClearAll, ReplaceShards, UpdateStatus, InStep
    <2>9. CASE TrimAll
      BY <2>2, <2>4, <2>9 DEF TrimAll
    <2> QED
      BY <2>1, <2>6, <2>7, <2>8, <2>9 DEF Next
  <1>3. CASE e \in heaps[i]
    <2>1. e[2] \in Tasks /\ TrueEntry(e)
      BY <1>0, <1>1, <1>3
    <2> QED
      BY <1>0, <2>1 DEF TrueEntry
  <1>4. ASSUME NEW t \in Tasks, e = Entry(t, endedAt[t]), life[t] = "ended" PROVE TrueEntry(e)'
    <2>1. endedAt[t] # None
      BY <1>4 DEF Sound, Lives
    <2>2. e[2] = t /\ e[1] = endedAt[t] + Ttl
      BY <1>4 DEF Entry
    <2> QED
      BY <1>0, <2>1, <2>2 DEF TrueEntry
  <1> QED
    BY <1>2, <1>3, <1>4

(* Nothing is written between the two halves of resize_shards.              *)
LEMMA SeenKept ==
  ASSUME Overlap = FALSE, Types, InStep, Sound, [Next]_vars
  PROVE  SeenIsStored'
  <1>1. CASE resize.pc = "collected"
    <2>1. impl # "rust" /\ pass.pc = "idle" /\ ~MayCall /\ pushed = {} /\ ~clearing
      BY <1>1 DEF InStep, MayCall, Types, StoreTypes
    <2>2. CASE ReplaceShards
      <3>1. resize'.pc = "replaced"
        BY <2>2 DEF ReplaceShards, Types, PassTypes
      <3> QED
        BY <3>1 DEF SeenIsStored
    <2>3. CASE ~ReplaceShards
      <3>1. UNCHANGED <<shards, resize>>
        BY <1>1, <2>1, <2>3 DEF Next, vars, Tick, Submit, End, UpdateStatus, RustPush, RustInsert,
           RemoveStatus, ClearAll, RustClearShards, RustClearHeaps, StartPass, NextShard, EndExpiring,
           Pop, RustPop, CountRecords, CountAgain, TrimShard, RustTrimShard, TrimAll, EndTrimming,
           EndPass, PastShards, Collect, ReplaceCount, InShard
      <3> QED
        BY <3>1 DEF Sound, SeenIsStored, Found, Indexes
    <2> QED
      BY <2>2, <2>3
  <1>2. CASE resize.pc # "collected"
    <2>1. CASE \E n \in Counts : Collect(n)
      BY <2>1 DEF Collect, SeenIsStored, Found, Indexes
    <2>2. CASE resize' = resize \/ resize' = NoResize
      BY <1>2, <2>2 DEF SeenIsStored, NoResize
    <2>3. (\E n \in Counts : Collect(n)) \/ resize' = resize \/ resize' = NoResize
      BY <1>2 DEF Next, vars, Tick, Submit, End, UpdateStatus, RustPush, RustInsert, RemoveStatus,
         ClearAll, RustClearShards, RustClearHeaps, StartPass, NextShard, EndExpiring, Pop, RustPop,
         CountRecords, CountAgain, TrimShard, RustTrimShard, TrimAll, EndTrimming, EndPass,
         ReplaceShards, ReplaceCount
    <2> QED
      BY <2>1, <2>2, <2>3
  <1> QED
    BY <1>1, <1>2

LEMMA ClockKept ==
  ASSUME Types, pass.now <= now, [Next]_vars
  PROVE  pass'.now <= now'
  <1> USE StoreAssumption DEF Types, StoreTypes, PassTypes, PassFields, Times
  <1>1. CASE Tick
    BY <1>1 DEF Tick
  <1>2. ASSUME now' = now, pass'.now \in {pass.now, now, 0} PROVE pass'.now <= now'
    BY <1>2
  <1>3. CASE \E t \in Tasks : Submit(t) \/ UpdateStatus(t) \/ RustInsert(t)
    <2>1. now' = now /\ pass'.now = pass.now
      BY <1>3 DEF Submit, UpdateStatus, RustInsert, Store
    <2> QED
      BY <1>2, <2>1
  <1>4. CASE \/ ClearAll \/ RustClearShards \/ RustClearHeaps \/ ReplaceCount \/ UNCHANGED vars
             \/ (\E n \in Counts : Collect(n))
             \/ \E t \in Tasks : End(t) \/ RustPush(t) \/ RemoveStatus(t)
    <2>1. UNCHANGED <<now, pass>>
      BY <1>4 DEF ClearAll, RustClearShards, RustClearHeaps, ReplaceCount, vars, Collect, End,
         RustPush, RemoveStatus
    <2> QED
      BY <2>1
  <1>5. CASE StartPass \/ EndPass
    <2>1. CASE StartPass
      BY <1>2, <2>1 DEF StartPass, NoPass
    <2>2. CASE EndPass
      BY <1>2, <2>2 DEF EndPass, NoPass
    <2> QED
      BY <1>5, <2>1, <2>2
  <1>6. CASE TrimShard \/ RustTrimShard
    <2>1. now' = now /\ \E D : DropFrom(pass.at, D)
      BY <1>6 DEF TrimShard, RustTrimShard
    <2>2. pass'.now = pass.now
      BY <2>1 DEF DropFrom
    <2> QED
      BY <1>2, <2>1, <2>2
  <1>7. CASE \/ NextShard \/ EndExpiring \/ Pop \/ RustPop \/ CountRecords \/ CountAgain \/ TrimAll
             \/ EndTrimming \/ ReplaceShards
    <2>1. now' = now /\ pass'.now = pass.now
      BY <1>7 DEF NextShard, EndExpiring, Pop, RustPop, CountRecords, CountAgain, TrimAll,
         EndTrimming, ReplaceShards
    <2> QED
      BY <1>2, <2>1
  <1> QED
    BY <1>1, <1>3, <1>4, <1>5, <1>6, <1>7 DEF Next

(* All that is known of the store when nothing overlaps resize_shards.      *)
Known == Types /\ HeapInv /\ Stages /\ InStep /\ Sound

LEMMA KnownStart == Init => Known
  <1> SUFFICES ASSUME Init PROVE Known
    OBVIOUS
  <1>1. Types /\ HeapInv /\ Stages /\ InStep
    BY TypesStart, StagesStart, SweptStart DEF Init, HeapInv, Indexes, NoRecords, Listed
  <1>2. Lives /\ SeenIsStored /\ pass.now <= now
    BY DEF Init, Lives, SeenIsStored, NoPass, NoResize
  <1>3. Placed /\ RustHeaps
    BY DEF Init, Placed, RustHeaps, Indexes, NoRecords
  <1> QED
    BY <1>1, <1>2, <1>3 DEF Known, Sound

LEMMA KnownKept ==
  ASSUME Overlap = FALSE, Known, [Next]_vars
  PROVE  Known'
  <1>0. Types /\ HeapInv /\ Stages /\ InStep /\ Sound /\ Lives /\ pass.now <= now
    BY DEF Known, Sound
  <1>1. Types' /\ HeapInv' /\ Stages' /\ InStep'
    BY <1>0, StoreTypesKept, PassTypesKept, HeapsKept, StagesKept, InStepKept DEF Types
  <1>2. Lives' /\ (pass.now <= now)'
    BY <1>0, LivesKept, ClockKept
  <1>3. Placed' /\ RustHeaps' /\ SeenIsStored'
    BY <1>0, PlacedKept, RustHeapsKept, SeenKept
  <1> QED
    BY <1>1, <1>2, <1>3 DEF Known, Sound

LEMMA KnownAlways == Overlap = FALSE => (Spec => []Known)
  <1> SUFFICES ASSUME Overlap = FALSE PROVE Spec => []Known
    OBVIOUS
  <1>1. Known /\ [Next]_vars => Known'
    BY KnownKept
  <1> QED
    BY <1>1, KnownStart, PTL DEF Spec

-----------------------------------------------------------------------------
(* The number of records is that of the tasks that have one.                *)
HasRecord == {t \in Tasks : Found(t) # None}

LEMMA PlaceIsRecord ==
  ASSUME Types, Placed, NEW t \in Tasks, NEW i \in Indexes
  PROVE  t \in Held(i) <=> i = ShardIndex(t, Cardinality(Indexes)) /\ t \in HasRecord
  BY PlaceOf DEF Types, Placed, Held, HasRecord, Found

LEMMA SizeIsAll ==
  ASSUME Types, Placed
  PROVE  /\ Size = Cardinality(HasRecord) /\ IsFiniteSet(HasRecord)
         /\ UNION {Held(i) : i \in Indexes} = HasRecord
  <1> DEFINE Home(t) == ShardIndex(t, Cardinality(Indexes))
             P == {p \in Indexes \X Tasks : p[2] \in Held(p[1])}
             f == [t \in HasRecord |-> <<Home(t), t>>]
  <1>1. \A t \in Tasks : Home(t) \in Indexes
    BY PlaceOf DEF Types
  <1>2. HasRecord \subseteq Tasks
    BY DEF HasRecord
  <1>3. IsFiniteSet(HasRecord)
    BY <1>2, StoreAssumption, FS_Subset
  <1>4. \A t \in Tasks, i \in Indexes : t \in Held(i) <=> i = Home(t) /\ t \in HasRecord
    BY PlaceIsRecord
  <1> HIDE DEF Home
  <1>5. \A t \in HasRecord : f[t] \in P
    BY <1>1, <1>2, <1>4
  <1>6. \A a, b \in HasRecord : f[a] = f[b] => a = b
    OBVIOUS
  <1>7. ASSUME NEW p \in P PROVE \E t \in HasRecord : f[t] = p
    <2>1. p[2] \in Tasks /\ p[1] \in Indexes /\ p[2] \in Held(p[1]) /\ p = <<p[1], p[2]>>
      OBVIOUS
    <2>2. p[1] = Home(p[2]) /\ p[2] \in HasRecord
      BY <1>4, <2>1
    <2>3. f[p[2]] = p
      BY <2>1, <2>2
    <2> QED
      BY <2>2, <2>3
  <1>8. f \in [HasRecord -> P]
    BY <1>5
  <1> HIDE DEF P, f
  <1>9. f \in Bijection(HasRecord, P)
    BY <1>6, <1>7, <1>8 DEF Bijection, Injection, Surjection, IsInjective
  <1>10. ExistsBijection(HasRecord, P)
    BY <1>9 DEF ExistsBijection
  <1>11. Cardinality(P) = Cardinality(HasRecord)
    BY <1>3, <1>10, FS_Bijection
  <1>12. UNION {Held(i) : i \in Indexes} = HasRecord
    <2>1. ASSUME NEW t \in HasRecord PROVE t \in UNION {Held(i) : i \in Indexes}
      BY <1>1, <1>2, <1>4
    <2>2. ASSUME NEW i \in Indexes, NEW t \in Held(i) PROVE t \in HasRecord
      <3>1. t \in Tasks
        BY DEF Held
      <3> QED
        BY <1>4, <3>1
    <2> QED
      BY <2>1, <2>2
  <1> QED
    BY <1>3, <1>11, <1>12 DEF Size, P

LEMMA SizeIsAllNext ==
  (Types /\ Placed)' => /\ Size' = Cardinality(HasRecord') /\ IsFiniteSet(HasRecord')
  <1>1. Types /\ Placed => Size = Cardinality(HasRecord) /\ IsFiniteSet(HasRecord)
    BY SizeIsAll
  <1>2. (Types /\ Placed)' => (Size = Cardinality(HasRecord) /\ IsFiniteSet(HasRecord))'
    BY <1>1, PTL
  <1> QED
    BY <1>2

(* Where records only go there are fewer, in all and in each shard.         *)
LEMMA ShrunkIsLess ==
  ASSUME Types, Shrunk
  PROVE  /\ Size \in Nat /\ Size' \in Nat /\ Size' <= Size
         /\ \A i \in Indexes : /\ Cardinality(Held(i)) \in Nat /\ Cardinality(Held(i)') \in Nat
                               /\ Cardinality(Held(i)') <= Cardinality(Held(i))
  <1> DEFINE P == {p \in Indexes \X Tasks : p[2] \in Held(p[1])}
             Q == {p \in Indexes' \X Tasks : p[2] \in Held(p[1])'}
  <1>1. ASSUME NEW i \in Indexes PROVE Held(i)' \subseteq Held(i)
    BY DEF Shrunk, Held
  <1>2. Q \subseteq P
    <2>1. Indexes' = Indexes
      BY DEF Shrunk
    <2> QED
      BY <1>1, <2>1
  <1>3. IsFiniteSet(P)
    <2>1. PICK n \in Counts : Indexes = 0 .. n - 1
      BY DEF Types, ShardTypes, Indexes
    <2>2. IsFiniteSet(0 .. n - 1)
      BY <2>1, StoreAssumption, FS_Interval
    <2>3. IsFiniteSet(Indexes \X Tasks)
      BY <2>1, <2>2, StoreAssumption, FS_Product
    <2>4. P \subseteq Indexes \X Tasks
      OBVIOUS
    <2> HIDE DEF P
    <2> QED
      BY <2>3, <2>4, FS_Subset
  <1>4. Size = Cardinality(P) /\ Size' = Cardinality(Q)
    BY DEF Size
  <1> HIDE DEF P, Q
  <1>5. Size \in Nat /\ Size' \in Nat /\ Size' <= Size
    BY <1>2, <1>3, <1>4, FS_Subset, FS_CardinalityType
  <1>6. ASSUME NEW i \in Indexes
        PROVE  /\ Cardinality(Held(i)) \in Nat /\ Cardinality(Held(i)') \in Nat
               /\ Cardinality(Held(i)') <= Cardinality(Held(i))
    <2>1. IsFiniteSet(Held(i))
      BY HeldIsFinite
    <2> QED
      BY <1>1, <2>1, FS_Subset, FS_CardinalityType
  <1> QED
    BY <1>5, <1>6

(* Taking the records D out of one shard makes just so many fewer.          *)
LEMMA DropIsLess ==
  ASSUME Types, Placed, (Types /\ Placed)', NEW i \in Indexes, NEW D \in SUBSET Held(i),
         DropFrom(i, D)
  PROVE  /\ Size' = Size - Cardinality(D)
         /\ Held(i)' = Held(i) \ D
         /\ \A j \in Indexes : j # i => Held(j)' = Held(j)
         /\ HasRecord' = HasRecord \ D
  <1>0. ShardTypes
    BY DEF Types
  <1>1. /\ Indexes' = Indexes
        /\ \A j \in Indexes, u \in Tasks :
             shards'[j][u] = IF j = i /\ u \in D THEN None ELSE shards[j][u]
    BY <1>0, SomeDropped
  <1>2. D \subseteq Tasks
    BY DEF Held
  <1>3. Held(i)' = Held(i) \ D
    BY <1>1 DEF Held
  <1>4. ASSUME NEW j \in Indexes, j # i PROVE Held(j)' = Held(j)
    BY <1>1, <1>4 DEF Held
  <1>5. ASSUME NEW t \in Tasks PROVE t \in HasRecord' <=> t \in HasRecord \ D
    <2> DEFINE h == ShardIndex(t, Cardinality(Indexes))
    <2>1. h \in Indexes
      BY <1>0, PlaceOf
    <2>2. t \in D => h = i
      BY PlaceIsRecord
    <2>3. Found(t) = shards[h][t]
      BY DEF Found
    <2>4. Found(t)' = shards'[h][t]
      BY <1>1 DEF Found
    <2> HIDE DEF h
    <2> QED
      BY <1>1, <2>1, <2>2, <2>3, <2>4 DEF HasRecord
  <1>6. HasRecord' = HasRecord \ D
    BY <1>5 DEF HasRecord
  <1>7. D \subseteq HasRecord
    <2>1. ASSUME NEW t \in D PROVE t \in HasRecord
      BY <1>2, PlaceIsRecord
    <2> QED
      BY <2>1
  <1>8. /\ Size = Cardinality(HasRecord) /\ IsFiniteSet(HasRecord)
        /\ Size' = Cardinality(HasRecord')
    BY SizeIsAll, SizeIsAllNext
  <1>9. Size' = Size - Cardinality(D)
    <2>1. HasRecord \cap D = D
      BY <1>7
    <2> QED
      BY <1>6, <1>8, <2>1, FS_Difference
  <1> QED
    BY <1>3, <1>4, <1>6, <1>9

(* During a pass beside which nobody writes no more records are above the   *)
(* limit than it may still remove, and the shards it has trimmed without    *)
(* removing enough have no more than one record, in Rust none.              *)
AllFew == \A i \in Indexes : Few(Cardinality(Held(i)))

Bounded ==
  /\ pass.pc = "incremental" => pass.at = 0
  /\ pass.calm =>
       /\ pass.pc = "trimming" =>
            /\ Size <= limit + pass.left
            /\ pass.left > 0 => \A i \in Indexes : i < pass.at => Few(Cardinality(Held(i)))
       /\ pass.pc = "trimmed" => Size <= limit \/ AllFew

LEMMA BoundedBesidePass ==
  ASSUME Known, Bounded, UNCHANGED <<impl, limit, pass>>, Shrunk
  PROVE  Bounded'
  <1>1. /\ Size \in Nat /\ Size' \in Nat /\ Size' <= Size
        /\ \A i \in Indexes : /\ Cardinality(Held(i)) \in Nat /\ Cardinality(Held(i)') \in Nat
                              /\ Cardinality(Held(i)') <= Cardinality(Held(i))
    BY ShrunkIsLess DEF Known
  <1>2. \A i \in Indexes : Few(Cardinality(Held(i))) => Few(Cardinality(Held(i)))'
    BY <1>1 DEF Few
  <1>3. limit \in Nat /\ pass.left \in Nat /\ Indexes' = Indexes
    BY DEF Known, Types, StoreTypes, Stages, Shrunk
  <1>4. pass.pc = "incremental" => pass.at = 0
    BY DEF Bounded
  <1>5. CASE pass.calm /\ pass.pc = "trimming"
    <2>1. /\ Size <= limit + pass.left
          /\ pass.left > 0 => \A i \in Indexes : i < pass.at => Few(Cardinality(Held(i)))
      BY <1>5 DEF Bounded
    <2>2. Size' <= limit' + pass'.left
      BY <1>1, <1>3, <2>1
    <2> QED
      BY <1>2, <1>3, <1>5, <2>1, <2>2 DEF Bounded
  <1>6. CASE pass.calm /\ pass.pc = "trimmed"
    <2>1. Size <= limit \/ AllFew
      BY <1>6 DEF Bounded
    <2>2. Size <= limit => Size' <= limit'
      BY <1>1, <1>3
    <2>3. AllFew => AllFew'
      BY <1>2, <1>3 DEF AllFew
    <2> QED
      BY <1>6, <2>1, <2>2, <2>3 DEF Bounded
  <1> QED
    BY <1>4, <1>5, <1>6 DEF Bounded

(* The counting.                                                            *)
LEMMA BoundedCounting ==
  ASSUME Known, Bounded, CountRecords \/ CountAgain
  PROVE  Bounded'
  <1>1. /\ Size' = Size /\ limit' = limit /\ Size \in Nat /\ limit \in Nat
        /\ impl \in {"python", "rust"} /\ DOMAIN pass = PassFields /\ Indexes' = Indexes
    <2>1. UNCHANGED <<shards, limit>>
      BY DEF CountRecords, CountAgain, fixed
    <2> QED
      BY <2>1, SizeIsNat DEF Known, Types, StoreTypes, PassTypes, Size, Held, Indexes
  <1>2. pass'.at = 0
    BY <1>1 DEF CountRecords, CountAgain, Bounded, PassFields
  <1>3. pass'.pc = "trimming" => pass'.left = ExcessOf(Size)
    <2>1. CASE CountRecords
      BY <1>1, <2>1 DEF CountRecords, PassFields
    <2>2. CASE CountAgain
      BY <1>1, <2>2 DEF CountAgain, PassFields
    <2> QED
      BY <2>1, <2>2
  <1>4. pass'.pc = "trimmed" => Size <= limit
    <2>1. CASE CountRecords
      BY <1>1, <2>1 DEF CountRecords, PassFields
    <2>2. CASE CountAgain
      BY <1>1, <2>2 DEF CountAgain, PassFields
    <2> QED
      BY <2>1, <2>2
  <1>5. Size <= limit + ExcessOf(Size)
    BY <1>1 DEF ExcessOf
  <1>6. \A i \in Indexes : ~(i < 0)
    <2>1. \E n \in Counts : Indexes = 0 .. n - 1
      BY DEF Known, Types, ShardTypes, Indexes
    <2> QED
      BY <2>1, StoreAssumption
  <1> QED
    BY <1>1, <1>2, <1>3, <1>4, <1>5, <1>6 DEF Bounded

(* Trimming one shard.                                                      *)
LEMMA BoundedTrimming ==
  ASSUME Known, Known', Bounded, TrimShard \/ RustTrimShard
  PROVE  Bounded'
  <1>0. /\ limit \in Nat /\ pass.left \in Nat /\ pass.at \in Nat /\ DOMAIN pass = PassFields
        /\ UNCHANGED <<impl, limit>> /\ \A i \in Indexes : i \in Nat
    <2>1. UNCHANGED <<impl, limit>>
      BY DEF TrimShard, RustTrimShard, fixed
    <2>2. \E n \in Counts : Indexes = 0 .. n - 1
      BY DEF Known, Types, ShardTypes, Indexes
    <2> QED
      BY <2>1, <2>2, StoreAssumption DEF Known, Types, StoreTypes, PassTypes, Stages
  <1>1. /\ pass.at \in Indexes /\ pass.pc = "trimming"
        /\ \E D \in SUBSET Held(pass.at) :
              /\ DropFrom(pass.at, D)
              /\ Cardinality(D) \in 0 .. pass.left
              /\ Cardinality(D) < pass.left => Few(Cardinality(Held(pass.at) \ D))
    BY TrimDrops DEF Known
  <1>i. PICK i \in Indexes : i = pass.at
    BY <1>1
  <1>2. PICK D \in SUBSET Held(i) :
              /\ DropFrom(i, D)
              /\ Cardinality(D) \in 0 .. pass.left
              /\ Cardinality(D) < pass.left => Few(Cardinality(Held(i) \ D))
    BY <1>1, <1>i
  <1>3. Types /\ Placed /\ (Types /\ Placed)' /\ ShardTypes
    BY DEF Known, Sound, Types
  <1>4. /\ Size' = Size - Cardinality(D)
        /\ Held(i)' = Held(i) \ D
        /\ \A j \in Indexes : j # i => Held(j)' = Held(j)
    BY <1>2, <1>3, DropIsLess
  <1>5. Indexes' = Indexes
    BY <1>2, <1>3, SomeDropped
  <1>6. /\ pass'.at = pass.at + 1 /\ pass'.left = pass.left - Cardinality(D)
        /\ pass'.pc = "trimming" /\ pass'.calm = pass.calm
    BY <1>0, <1>1, <1>2, <1>i DEF DropFrom, PassFields
  <1>7. Size \in Nat
    BY <1>3, SizeIsNat
  <1>8. ASSUME pass.calm PROVE Size' <= limit' + pass'.left
    <2>1. Size <= limit + pass.left
      BY <1>1, <1>8 DEF Bounded
    <2> QED
      BY <1>0, <1>2, <1>4, <1>6, <1>7, <2>1
  <1>9. ASSUME pass.calm, pass'.left > 0, NEW j \in Indexes', j < pass'.at
        PROVE  Few(Cardinality(Held(j)))'
    <2>1. CASE j = i
      <3>1. Few(Cardinality(Held(i) \ D))
        BY <1>0, <1>2, <1>6, <1>9
      <3>2. Cardinality(Held(j))' = Cardinality(Held(i) \ D)
        BY <1>4, <2>1
      <3> QED
        BY <1>0, <3>1, <3>2 DEF Few
    <2>2. CASE j # i
      <3>1. j < pass.at /\ pass.left > 0
        BY <1>0, <1>2, <1>5, <1>6, <1>9, <1>i, <2>2
      <3>2. Few(Cardinality(Held(j)))
        BY <1>1, <1>5, <1>9, <3>1 DEF Bounded
      <3>3. Cardinality(Held(j))' = Cardinality(Held(j))
        BY <1>4, <1>5, <2>2
      <3> QED
        BY <1>0, <3>2, <3>3 DEF Few
    <2> QED
      BY <2>1, <2>2
  <1> QED
    BY <1>6, <1>8, <1>9 DEF Bounded

LEMMA BoundedEnding ==
  ASSUME Known, Bounded, EndTrimming
  PROVE  Bounded'
  <1>1. /\ DOMAIN pass = PassFields /\ pass.left \in Nat /\ limit \in Nat /\ pass.pc = "trimming"
        /\ UNCHANGED <<impl, limit, shards>> /\ (pass.at = pass.n \/ pass.left = 0)
    BY DEF Known, Types, StoreTypes, PassTypes, Stages, EndTrimming, fixed
  <1>2. pass'.pc = "trimmed" /\ pass'.calm = pass.calm
    BY <1>1 DEF EndTrimming, PassFields
  <1>3. UNCHANGED <<Size, AllFew, limit>>
    BY <1>1 DEF Size, AllFew, Held, Indexes, Few
  <1>4. ASSUME pass.calm PROVE Size <= limit \/ AllFew
    <2>1. /\ Size <= limit + pass.left
          /\ pass.left > 0 => \A i \in Indexes : i < pass.at => Few(Cardinality(Held(i)))
      BY <1>1, <1>4 DEF Bounded
    <2>2. CASE pass.left = 0
      BY <1>1, <2>1, <2>2
    <2>3. CASE pass.left > 0 /\ pass.at = pass.n
      <3>1. count \in Nat /\ Indexes = 0 .. count - 1 /\ pass.at = count
        BY <1>1, <2>3, StoreAssumption DEF Known, Types, StoreTypes, InStep
      <3>2. \A i \in Indexes : i < pass.at
        BY <3>1
      <3> QED
        BY <2>1, <2>3, <3>2 DEF AllFew
    <2> QED
      BY <1>1, <2>2, <2>3
  <1> QED
    BY <1>2, <1>3, <1>4 DEF Bounded

(* With all locks held the store keeps just as many records as it may.      *)
LEMMA TrimAllTakes ==
  ASSUME Known, Known', TrimAll
  PROVE  \/ Size <= limit /\ UNCHANGED shards
         \/ \E D \in Oldest(HasRecord, limit) :
              /\ Size > limit /\ HasRecord' = HasRecord \ D
              /\ shards' = [i \in Indexes |-> [t \in Tasks |-> IF t \in D THEN None ELSE shards[i][t]]]
  <1>1. Types /\ Placed /\ (Types /\ Placed)' /\ ShardTypes /\ Size \in Nat /\ limit \in Nat
    BY SizeIsNat DEF Known, Sound, Types, StoreTypes
  <1>2. UNION {Held(i) : i \in Indexes} = HasRecord
    BY <1>1, SizeIsAll
  <1>3. CASE Size > limit
    <2>1. PICK D \in Oldest(HasRecord, limit) :
            shards' = [i \in Indexes |-> [t \in Tasks |-> IF t \in D THEN None ELSE shards[i][t]]]
      BY <1>1, <1>2, <1>3 DEF TrimAll
    <2>2. Indexes' = Indexes
      BY <2>1 DEF Indexes
    <2>3. ASSUME NEW t \in Tasks PROVE t \in HasRecord' <=> t \in HasRecord \ D
      <3> DEFINE h == ShardIndex(t, Cardinality(Indexes))
      <3>1. h \in Indexes
        BY <1>1, PlaceOf
      <3>2. Found(t) = shards[h][t] /\ Found(t)' = shards'[h][t]
        BY <2>2 DEF Found
      <3> HIDE DEF h
      <3> QED
        BY <2>1, <3>1, <3>2 DEF HasRecord
    <2>4. HasRecord' = HasRecord \ D
      BY <2>3 DEF HasRecord
    <2> QED
      BY <1>3, <2>1, <2>4
  <1>4. CASE Size <= limit
    BY <1>4 DEF TrimAll
  <1> QED
    BY <1>1, <1>3, <1>4

LEMMA BoundedAfterTrimAll ==
  ASSUME Known, Known', Bounded, TrimAll
  PROVE  Bounded'
  <1>1. Types /\ Placed /\ (Types /\ Placed)' /\ limit \in Nat /\ limit' = limit
        /\ DOMAIN pass = PassFields
    BY DEF Known, Sound, Types, StoreTypes, PassTypes, TrimAll, fixed
  <1>2. pass'.pc = "trimmed"
    BY <1>1 DEF TrimAll, PassFields
  <1>3. /\ Size = Cardinality(HasRecord) /\ IsFiniteSet(HasRecord)
        /\ Size' = Cardinality(HasRecord')
    BY <1>1, SizeIsAll, SizeIsAllNext
  <1>4. Size' <= limit
    <2>1. CASE Size <= limit /\ UNCHANGED shards
      <3>1. Size' = Size
        BY <2>1 DEF Size, Held, Indexes
      <3> QED
        BY <2>1, <3>1
    <2>2. ASSUME NEW D \in Oldest(HasRecord, limit), HasRecord' = HasRecord \ D
          PROVE  Size' <= limit
      <3>1. Cardinality(HasRecord \ D) = limit
        BY <1>1, <1>3, OldestFacts
      <3> QED
        BY <1>1, <1>3, <2>2, <3>1
    <2> QED
      BY <2>1, <2>2, TrimAllTakes
  <1> QED
    BY <1>1, <1>2, <1>4 DEF Bounded

LEMMA BoundedKept ==
  ASSUME Overlap = FALSE, Known, Known', Bounded, [Next]_vars
  PROVE  Bounded'
  <1>0. /\ Types /\ InStep /\ DOMAIN pass = PassFields /\ Lives /\ Stages
        /\ pass.pc = "incremental" => pass.at = 0
    BY DEF Known, Types, PassTypes, Sound, Bounded
  <1>1. ASSUME pass'.pc \notin {"incremental", "trimming", "trimmed"} PROVE Bounded'
    BY <1>1 DEF Bounded
  <1>2. CASE \E t \in Tasks : Submit(t) \/ UpdateStatus(t) \/ RustInsert(t)
    <2>1. pass' = [pass EXCEPT !.calm = FALSE]
      BY <1>2 DEF Submit, UpdateStatus, RustInsert, Store
    <2>2. ~ pass'.calm /\ pass'.pc = pass.pc /\ pass'.at = pass.at
      BY <1>0, <2>1 DEF PassFields
    <2> QED
      BY <1>0, <2>2 DEF Bounded
  <1>3. CASE \/ Tick \/ RustClearHeaps \/ ReplaceCount \/ UNCHANGED vars
             \/ (\E n \in Counts : Collect(n)) \/ \E t \in Tasks : End(t) \/ RustPush(t)
    <2>1. UNCHANGED <<impl, limit, pass, shards>>
      BY <1>3 DEF Tick, RustClearHeaps, ReplaceCount, vars, Collect, End, RustPush, fixed
    <2>2. Shrunk
      BY <2>1 DEF Shrunk, Indexes
    <2> QED
      BY <2>1, <2>2, BoundedBesidePass
  <1>4. CASE ClearAll \/ RustClearShards \/ \E t \in Tasks : RemoveStatus(t)
    <2>1. UNCHANGED <<impl, limit, pass>>
      BY <1>4 DEF ClearAll, RustClearShards, RemoveStatus, fixed
    <2>2. ASSUME ClearAll \/ RustClearShards PROVE Shrunk
      BY <2>2 DEF ClearAll, RustClearShards, NoRecords, Shrunk, Indexes
    <2>3. ASSUME NEW t \in Tasks, RemoveStatus(t) PROVE Shrunk
      BY <1>0, <2>3, RemovalShrinks DEF RemoveStatus
    <2> QED
      BY <1>4, <2>1, <2>2, <2>3, BoundedBesidePass
  <1>5. CASE StartPass \/ NextShard \/ EndExpiring \/ Pop \/ RustPop \/ EndPass
    <2>1. pass'.pc \in {"expiring", "expired", "idle"}
      <3>1. CASE StartPass
        BY <3>1 DEF StartPass, NoPass
      <3>2. CASE NextShard
        BY <1>0, <3>2 DEF NextShard, InShard, PassFields
      <3>3. CASE EndExpiring
        BY <1>0, <3>3 DEF EndExpiring, PassFields
      <3>4. CASE Pop \/ RustPop
        BY <1>0, <3>4 DEF Pop, RustPop, InShard, PassFields
      <3>5. CASE EndPass
        BY <3>5 DEF EndPass, NoPass
      <3> QED
        BY <1>5, <3>1, <3>2, <3>3, <3>4, <3>5
    <2> QED
      BY <1>1, <2>1
  <1>6. CASE ReplaceShards
    <2>1. pass.pc = "idle" /\ pass'.pc = pass.pc
      BY <1>0, <1>6 DEF ReplaceShards, InStep, PassFields
    <2> QED
      BY <1>1, <2>1
  <1> QED
    BY <1>2, <1>3, <1>4, <1>5, <1>6, BoundedCounting, BoundedTrimming, BoundedEnding,
       BoundedAfterTrimAll DEF Next

(* enforce_max_count in both implementations, where no other call overlaps  *)
(* resize_shards: a pass nobody wrote during leaves no more records than    *)
(* the limit, or in Python than one in each shard.                          *)
THEOREM LimitIsEnforced ==
  ASSUME Overlap = FALSE
  PROVE  Spec => []LimitHolds
  <1>1. Init => Bounded
    BY DEF Init, Bounded, NoPass
  <1>2. Known /\ Known' /\ Bounded /\ [Next]_vars => Bounded'
    BY BoundedKept
  <1>3. Known /\ Bounded => LimitHolds
    <2> SUFFICES ASSUME Known, Bounded, pass.pc = "trimmed", pass.calm
                 PROVE  Size <= limit \/ (impl = "python" /\ \A i \in Indexes : Cardinality(Held(i)) <= 1)
      BY DEF LimitHolds
    <2>1. CASE Size <= limit
      BY <2>1
    <2>2. CASE AllFew /\ impl = "python"
      BY <2>2 DEF AllFew, Few
    <2>3. CASE AllFew /\ impl = "rust"
      <3>1. \A i \in Indexes : Held(i) = {}
        <4>1. \A i \in Indexes : Cardinality(Held(i)) = 0
          BY <2>3, HeldIsFinite DEF AllFew, Few
        <4> QED
          BY <4>1, HeldIsFinite, FS_EmptySet
      <3>2. {p \in Indexes \X Tasks : p[2] \in Held(p[1])} = {}
        BY <3>1
      <3>3. Size = 0 /\ limit \in Nat
        BY <3>2, FS_EmptySet DEF Size, Known, Types, StoreTypes
      <3> QED
        BY <3>3
    <2> QED
      BY <2>1, <2>2, <2>3 DEF Bounded, Known, Types, StoreTypes
  <1>4. Spec => []Known
    BY KnownAlways
  <1> QED
    BY <1>1, <1>2, <1>3, <1>4, PTL DEF Spec

-----------------------------------------------------------------------------
(* Every step of the store is one of the map.                               *)
Excess == IF pass.pc = "trimming" THEN pass.left ELSE 0
Home(t) == ShardIndex(t, Cardinality(Indexes))
Rest == <<endedAt, asked, now, limit>>

(* The tasks of S lose their records, the others keep theirs.               *)
Emptied(S) == \A u \in Tasks : Status(u)' = IF u \in S THEN "none" ELSE Status(u)

LEMMA HomeFacts ==
  ASSUME Known, NEW t \in Tasks
  PROVE  /\ Home(t) \in Indexes /\ Found(t) = shards[Home(t)][t]
         /\ Indexes' = Indexes => Found(t)' = shards'[Home(t)][t]
         /\ Found(t) # None /\ Found(t).ended # None => Found(t).ended = endedAt[t]
         /\ resize.pc = "idle" => Home(t) = ShardIndex(t, count)
  <1>1. Home(t) \in Indexes /\ Found(t) = shards[Home(t)][t]
    BY PlaceOf DEF Known, Types, Home, Found
  <1>2. Indexes' = Indexes => Found(t)' = shards'[Home(t)][t]
    BY DEF Home, Found
  <1>3. Found(t) # None /\ Found(t).ended # None => Found(t).ended = endedAt[t]
    BY <1>1 DEF Known, Sound, Placed
  <1>4. resize.pc = "idle" => Home(t) = ShardIndex(t, count)
    <2>1. resize.pc = "idle" => Cardinality(Indexes) = count
      BY ShardCount DEF Known, Types, StoreTypes, InStep
    <2> QED
      BY <2>1 DEF Home
  <1> QED
    BY <1>1, <1>2, <1>3, <1>4

LEMMA EmptiedIf ==
  ASSUME Known, Indexes' = Indexes, NEW S,
         \A u \in Tasks : shards'[Home(u)][u] = IF u \in S THEN None ELSE shards[Home(u)][u]
  PROVE  Emptied(S)
  <1> SUFFICES ASSUME NEW u \in Tasks PROVE Status(u)' = IF u \in S THEN "none" ELSE Status(u)
    BY DEF Emptied
  <1>1. Found(u) = shards[Home(u)][u] /\ Found(u)' = shards'[Home(u)][u]
    BY HomeFacts
  <1>2. Found(u)' = IF u \in S THEN None ELSE Found(u)
    BY <1>1
  <1> QED
    BY <1>2 DEF Status

LEMMA SameShards ==
  ASSUME UNCHANGED shards
  PROVE  Emptied({})
  BY DEF Emptied, Status, Found, Indexes

LEMMA SameCount == \A S : Abstract!Cardinality(S) = Cardinality(S)
  BY DEF Abstract!Cardinality, Cardinality, IsFiniteSet, Abstract!IsFiniteSet

(* Counting the map counts the store.                                       *)
LEMMA MapSize ==
  ASSUME Known
  PROVE  /\ Abstract!Size = Size /\ Abstract!Over = ExcessOf(Size)
         /\ Size = Cardinality(HasRecord) /\ Size \in Nat /\ limit \in Nat
  <1>1. /\ Size = Cardinality(HasRecord)
        /\ Size \in Nat /\ limit \in Nat
    BY SizeIsAll, SizeIsNat DEF Known, Sound, Types, StoreTypes
  <1>2. {t \in Tasks : [u \in Tasks |-> Status(u)][t] # "none"} = HasRecord
    BY DEF HasRecord, Status
  <1>3. Abstract!Size = Size
    BY <1>1, <1>2, SameCount DEF Abstract!Size
  <1> QED
    BY <1>1, <1>3 DEF Abstract!Over, ExcessOf

LEMMA MapUnchanged ==
  ASSUME Emptied({}), UNCHANGED <<Rest, Excess>>
  PROVE  UNCHANGED Abstract!vars
  BY DEF Abstract!vars, Rest, Excess, Emptied

LEMMA MapRemove ==
  ASSUME NEW S \in SUBSET Tasks, Emptied(S), asked' = asked \cup S,
         UNCHANGED <<endedAt, now, limit, Excess>>
  PROVE  Abstract!Next
  <1>1. Abstract!Remove(S)
    BY DEF Abstract!Remove, Abstract!Without, Emptied, Excess
  <1> QED
    BY <1>1 DEF Abstract!Next

LEMMA MapExpire ==
  ASSUME NEW t \in Tasks, Emptied({t}), endedAt[t] # None, now >= endedAt[t] + Ttl,
         UNCHANGED <<Rest, Excess>>
  PROVE  Abstract!Next
  <1>1. Abstract!Expire(t)
    BY DEF Abstract!Expire, Abstract!Without, Emptied, Excess, Rest
  <1> QED
    BY <1>1 DEF Abstract!Next

LEMMA MapCount ==
  ASSUME Known, Emptied({}), UNCHANGED Rest, Excess' \in {0, ExcessOf(Size)}
  PROVE  Abstract!Next
  <1>1. Abstract!Count
    BY MapSize DEF Abstract!Count, Emptied, Excess, Rest
  <1> QED
    BY <1>1 DEF Abstract!Next

LEMMA MapTrim ==
  ASSUME Known, NEW S \in SUBSET Tasks, Emptied(S), UNCHANGED Rest,
         \/ Cardinality(S) <= Excess /\ Excess' = Excess - Cardinality(S)
         \/ Cardinality(S) <= ExcessOf(Size) /\ Excess' = 0
  PROVE  Abstract!Next
  <1>1. CASE Cardinality(S) <= Excess /\ Excess' = Excess - Cardinality(S)
    <2>1. Abstract!Trim(S, Excess)
      BY <1>1, SameCount DEF Abstract!Trim, Abstract!Without, Emptied, Excess, Rest
    <2> QED
      BY <2>1 DEF Abstract!Next, Excess
  <1>2. CASE Cardinality(S) <= ExcessOf(Size) /\ Excess' = 0
    <2>1. Abstract!Trim(S, Abstract!Over)
      BY <1>2, MapSize, SameCount DEF Abstract!Trim, Abstract!Without, Emptied, Excess, Rest
    <2> QED
      BY <2>1 DEF Abstract!Next
  <1> QED
    BY <1>1, <1>2

LEMMA MapWrite ==
  ASSUME Known, NEW t \in Tasks, NEW r \in Records, Wrote(t, r), UNCHANGED Rest,
         r.ended = None => endedAt[t] = None
  PROVE  Abstract!Next
  <1> DEFINE s == IF r.ended = None THEN "open" ELSE "ended"
  <1>1. /\ ShardIndex(t, count) = Home(t) /\ Indexes' = Indexes /\ r # None
        /\ \A j \in Indexes, u \in Tasks :
              shards'[j][u] = IF j = Home(t) /\ u = t THEN r ELSE shards[j][u]
    BY WrotePlace DEF Known, Home
  <1>2. ASSUME NEW u \in Tasks
        PROVE  Status(u)' = IF u = t THEN s ELSE Status(u)
    <2>1. Home(u) \in Indexes /\ Found(u) = shards[Home(u)][u] /\ Found(u)' = shards'[Home(u)][u]
      BY <1>1, HomeFacts
    <2>2. Found(u)' = IF u = t THEN r ELSE Found(u)
      BY <1>1, <2>1
    <2> QED
      BY <1>1, <2>2 DEF Status
  <1>3. r.ended # None => endedAt[t] # None
    BY DEF Wrote, Known, Sound, Lives
  <1>4. r.ended = None => Status(t) # "ended"
    BY HomeFacts DEF Status
  <1>5. UNCHANGED Excess
    BY DEF Wrote, Excess, Known, Types, PassTypes, PassFields
  <1>6. Abstract!Write(t, s)
    BY <1>2, <1>3, <1>4, <1>5 DEF Abstract!Write, Excess, Rest
  <1> QED
    BY <1>6 DEF Abstract!Next

LEMMA RemovedEmpties ==
  ASSUME Known, NEW t \in Tasks, shards' = [shards EXCEPT ![Home(t)][t] = None]
  PROVE  Emptied({t})
  <1>1. ShardTypes /\ Home(t) \in Indexes /\ None \in Slot
    BY HomeFacts DEF Known, Types, Slot
  <1>2. /\ Indexes' = Indexes
        /\ \A j \in Indexes, u \in Tasks :
             shards'[j][u] = IF j = Home(t) /\ u = t THEN None ELSE shards[j][u]
    BY <1>1, OneRecord
  <1>3. \A u \in Tasks : shards'[Home(u)][u] = IF u \in {t} THEN None ELSE shards[Home(u)][u]
    BY <1>2, HomeFacts
  <1> QED
    BY <1>2, <1>3, EmptiedIf

(* The clients' calls.                                                      *)
LEMMA CallsRefine ==
  ASSUME Overlap = FALSE, Known, NEW t \in Tasks,
         Submit(t) \/ End(t) \/ UpdateStatus(t) \/ RustPush(t) \/ RustInsert(t) \/ RemoveStatus(t)
  PROVE  Abstract!Next \/ UNCHANGED Abstract!vars
  <1>0. Types /\ InStep /\ Lives /\ DOMAIN pass = PassFields
    BY DEF Known, Sound, Types, PassTypes
  <1>1. CASE Submit(t)
    <2> DEFINE r == [born |-> now, ended |-> None]
    <2>1. r \in Records
      BY <1>0 DEF Types, StoreTypes, Records
    <2>2. Wrote(t, r) /\ UNCHANGED Rest
      BY <1>1 DEF Submit, Store, MayCall, Wrote, Rest, fixed, history
    <2>3. r.ended = None => endedAt[t] = None
      BY <1>0, <1>1 DEF Submit, Lives
    <2> HIDE DEF r
    <2> QED
      BY <2>1, <2>2, <2>3, MapWrite
  <1>2. Outcome(t) \in Records /\ Outcome(t).ended = endedAt[t]
    BY <1>0 DEF Types, StoreTypes, Records, Outcome
  <1>3. CASE UpdateStatus(t)
    <2>1. Wrote(t, Outcome(t)) /\ UNCHANGED Rest
      BY <1>2, <1>3 DEF UpdateStatus, Store, MayCall, Wrote, Rest, fixed, history
    <2> QED
      BY <1>2, <2>1, MapWrite
  <1>4. CASE RustInsert(t)
    <2>1. life[t] = "ended" /\ impl = "rust"
      BY <1>0, <1>4 DEF RustInsert, Lives, Types, StoreTypes
    <2>2. Wrote(t, Outcome(t)) /\ UNCHANGED Rest
      BY <1>0, <1>2, <1>4, <2>1 DEF RustInsert, Store, InStep, Wrote, Rest, fixed, history
    <2> QED
      BY <1>2, <2>2, MapWrite
  <1>5. CASE End(t)
    <2>1. /\ endedAt[t] = None /\ endedAt' = [endedAt EXCEPT ![t] = now]
          /\ UNCHANGED <<asked, now, limit, shards, pass>>
      BY <1>0, <1>5 DEF End, Lives, fixed, history
    <2>2. Emptied({})
      BY <2>1, SameShards
    <2>3. Abstract!End(t)
      BY <2>1, <2>2 DEF Abstract!End, Emptied
    <2> QED
      BY <2>3 DEF Abstract!Next
  <1>6. CASE RustPush(t)
    <2>1. UNCHANGED <<endedAt, asked, now, limit, shards, pass>>
      BY <1>6 DEF RustPush, reports, fixed, history
    <2> QED
      BY <2>1, SameShards, MapUnchanged DEF Rest, Excess
  <1>7. CASE RemoveStatus(t)
    <2>1. /\ shards' = [shards EXCEPT ![Home(t)][t] = None] /\ Home(t) \in Indexes
          /\ asked' = asked \cup {t} /\ UNCHANGED <<endedAt, now, limit, pass>>
      BY <1>7, HomeFacts DEF RemoveStatus, MayCall, reports, fixed
    <2>2. Emptied({t})
      BY <2>1, RemovedEmpties
    <2> QED
      BY <2>1, <2>2, MapRemove DEF Excess
  <1> QED
    BY <1>1, <1>3, <1>4, <1>5, <1>6, <1>7

LEMMA ClearingRefines ==
  ASSUME Known, ClearAll \/ RustClearShards \/ RustClearHeaps
  PROVE  Abstract!Next \/ UNCHANGED Abstract!vars
  <1>1. CASE ClearAll \/ RustClearShards
    <2>1. /\ shards' = [i \in Indexes |-> NoRecords] /\ asked' = Tasks
          /\ UNCHANGED <<endedAt, now, limit, pass>>
      BY <1>1 DEF ClearAll, RustClearShards, reports, fixed
    <2>2. Indexes' = Indexes
      BY <2>1 DEF Indexes
    <2>3. \A u \in Tasks : shards'[Home(u)][u] = None
      BY <2>1, HomeFacts DEF NoRecords
    <2>4. Emptied(Tasks)
      BY <2>2, <2>3, EmptiedIf
    <2>5. asked' = asked \cup Tasks
      BY <2>1 DEF Known, Stages
    <2> QED
      BY <2>1, <2>4, <2>5, MapRemove DEF Excess
  <1>2. CASE RustClearHeaps
    <2>1. UNCHANGED <<endedAt, asked, now, limit, shards, pass>>
      BY <1>2 DEF RustClearHeaps, reports, fixed
    <2> QED
      BY <2>1, SameShards, MapUnchanged DEF Rest, Excess
  <1> QED
    BY <1>1, <1>2

(* Expiring: what a pass removes ended at least its ttl ago.                *)
LEMMA PopRefines ==
  ASSUME Known, Pop \/ RustPop
  PROVE  Abstract!Next \/ UNCHANGED Abstract!vars
  <1>0. /\ ShardTypes /\ now \in Nat /\ pass.now \in Nat /\ pass.now <= now /\ Ttl \in Nat
        /\ DOMAIN pass = PassFields /\ endedAt \in [Tasks -> Times \cup {None}]
    BY StoreAssumption DEF Known, Sound, Types, StoreTypes, PassTypes, Times
  <1>i. PICK i \in Indexes : i = pass.at
    BY DEF Pop, RustPop, InShard
  <1>1. PICK e \in heaps[i] :
          /\ pass.pc = "expiring" /\ e[1] <= pass.now
          /\ \/ UNCHANGED shards
             \/ /\ shards' = [shards EXCEPT ![i][e[2]] = None]
                /\ Expired(shards[i][e[2]]) \/ impl = "rust"
          /\ UNCHANGED Rest /\ pass'.pc = pass.pc
    BY <1>0, <1>i DEF Pop, RustPop, InShard, Due, Rest, reports, fixed, history, PassFields
  <1>2. e[2] \in Tasks /\ e[1] \in Nat
    BY <1>0, <1>1 DEF ShardTypes
  <1>3. UNCHANGED Excess
    BY <1>1 DEF Excess
  <1>4. CASE UNCHANGED shards
    BY <1>1, <1>3, <1>4, SameShards, MapUnchanged
  <1>5. CASE /\ shards' = [shards EXCEPT ![i][e[2]] = None]
             /\ Expired(shards[i][e[2]]) \/ impl = "rust"
    <2>1. CASE i = Home(e[2])
      <3>1. Emptied({e[2]})
        BY <1>2, <1>5, <2>1, RemovedEmpties
      <3>2. endedAt[e[2]] # None /\ now >= endedAt[e[2]] + Ttl
        <4>1. CASE impl = "rust"
          <5>1. TrueEntry(e)
            BY <1>1, <4>1 DEF Known, Sound, RustHeaps
          <5>2. endedAt[e[2]] \in Nat
            BY <1>0, <1>2, <5>1 DEF TrueEntry, Times
          <5> QED
            BY <1>0, <1>1, <1>2, <5>1, <5>2 DEF TrueEntry
        <4>2. CASE Expired(shards[i][e[2]])
          <5>1. shards[i][e[2]] = Found(e[2])
            BY <1>2, <2>1, HomeFacts
          <5>2. /\ endedAt[e[2]] # None /\ endedAt[e[2]] = Found(e[2]).ended
                /\ pass.now - Found(e[2]).ended > Ttl
            BY <1>2, <4>2, <5>1, HomeFacts DEF Expired
          <5>3. endedAt[e[2]] \in Nat
            BY <1>0, <1>2, <5>2 DEF Times
          <5> QED
            BY <1>0, <5>2, <5>3
        <4> QED
          BY <1>5, <4>1, <4>2
      <3> QED
        BY <1>1, <1>2, <1>3, <3>1, <3>2, MapExpire
    <2>2. CASE i # Home(e[2])
      <3>1. shards[i][e[2]] = None
        BY <1>2, <2>2 DEF Known, Sound, Placed, Home
      <3>2. /\ Indexes' = Indexes
            /\ \A j \in Indexes, u \in Tasks :
                 shards'[j][u] = IF j = i /\ u = e[2] THEN None ELSE shards[j][u]
        <4>1. /\ ShardTypes /\ e[2] \in Tasks /\ None \in Slot
              /\ shards' = [shards EXCEPT ![i][e[2]] = None]
          BY <1>0, <1>2, <1>5 DEF Slot
        <4> QED
          BY <4>1, OneRecord
      <3>3. Emptied({})
        BY <3>1, <3>2, HomeFacts, EmptiedIf
      <3> QED
        BY <1>1, <1>3, <3>3, MapUnchanged
    <2> QED
      BY <2>1, <2>2
  <1> QED
    BY <1>1, <1>4, <1>5

(* The pass counts, and removes no more than was too much.                  *)
LEMMA CountRefines ==
  ASSUME Known, CountRecords \/ CountAgain \/ EndTrimming \/ EndPass
  PROVE  Abstract!Next
  <1>1. UNCHANGED <<shards, Rest>> /\ DOMAIN pass = PassFields
    BY DEF CountRecords, CountAgain, EndTrimming, EndPass, Rest, reports, fixed, history, Known,
       Types, PassTypes
  <1>2. Excess' \in {0, ExcessOf(Size)}
    <2>1. CASE CountRecords
      BY <1>1, <2>1, MapSize DEF CountRecords, Excess, PassFields, ExcessOf, Known, Types, StoreTypes
    <2>2. CASE CountAgain
      BY <1>1, <2>2, MapSize DEF CountAgain, Excess, PassFields
    <2>3. CASE EndTrimming
      BY <1>1, <2>3 DEF EndTrimming, Excess, PassFields
    <2>4. CASE EndPass
      BY <2>4 DEF EndPass, Excess, NoPass
    <2> QED
      BY <2>1, <2>2, <2>3, <2>4
  <1> QED
    BY <1>1, <1>2, SameShards, MapCount

LEMMA TrimRefines ==
  ASSUME Known, Known', TrimShard \/ RustTrimShard \/ TrimAll
  PROVE  Abstract!Next \/ UNCHANGED Abstract!vars
  <1>0. /\ Types /\ Placed /\ Stages /\ (Types /\ Placed)' /\ DOMAIN pass = PassFields
        /\ pass.left \in Nat /\ UNCHANGED Rest
    BY DEF Known, Sound, Types, PassTypes, Stages, TrimShard, RustTrimShard, TrimAll, Rest, reports,
       fixed, history
  <1>1. CASE TrimShard \/ RustTrimShard
    <2>i. PICK i \in Indexes : i = pass.at
      BY <1>0, <1>1, TrimDrops
    <2>1. PICK D \in SUBSET Held(i) :
            pass.pc = "trimming" /\ DropFrom(i, D) /\ Cardinality(D) \in 0 .. pass.left
      BY <1>0, <1>1, <2>i, TrimDrops
    <2>2. D \in SUBSET Tasks
      BY DEF Held
    <2>3. /\ Indexes' = Indexes
          /\ \A j \in Indexes, u \in Tasks :
               shards'[j][u] = IF j = i /\ u \in D THEN None ELSE shards[j][u]
      BY <1>0, <2>1, SomeDropped DEF Types
    <2>4. ASSUME NEW u \in Tasks
          PROVE  shards'[Home(u)][u] = IF u \in D THEN None ELSE shards[Home(u)][u]
      <3>1. Home(u) \in Indexes
        BY HomeFacts
      <3>2. u \in D => i = Home(u)
        BY <1>0, PlaceIsRecord DEF Home
      <3> QED
        BY <2>3, <3>1, <3>2
    <2>5. Emptied(D)
      BY <2>3, <2>4, EmptiedIf
    <2>6. Cardinality(D) <= Excess /\ Excess' = Excess - Cardinality(D)
      BY <1>0, <2>1 DEF DropFrom, Excess, PassFields
    <2> QED
      BY <1>0, <2>2, <2>5, <2>6, MapTrim
  <1>2. CASE TrimAll
    <2>1. Excess = 0 /\ Excess' = 0
      BY <1>0, <1>2 DEF TrimAll, Excess, PassFields
    <2>2. CASE UNCHANGED shards
      BY <1>0, <2>1, <2>2, SameShards, MapUnchanged
    <2>3. ASSUME NEW D \in Oldest(HasRecord, limit), Size > limit,
                 shards' = [j \in Indexes |-> [t \in Tasks |-> IF t \in D THEN None ELSE shards[j][t]]]
          PROVE  Abstract!Next
      <3>1. IsFiniteSet(HasRecord) /\ Size = Cardinality(HasRecord) /\ limit \in Nat /\ Size \in Nat
        BY <1>0, SizeIsAll, MapSize
      <3>2. D \subseteq HasRecord /\ Cardinality(D) = Size - limit
        BY <3>1, OldestFacts
      <3>3. D \in SUBSET Tasks
        BY <3>2 DEF HasRecord
      <3>4. Indexes' = Indexes
        BY <2>3 DEF Indexes
      <3>5. \A u \in Tasks : shards'[Home(u)][u] = IF u \in D THEN None ELSE shards[Home(u)][u]
        BY <2>3, HomeFacts
      <3>6. Emptied(D)
        BY <3>4, <3>5, EmptiedIf
      <3>7. Cardinality(D) <= ExcessOf(Size)
        BY <2>3, <3>1, <3>2 DEF ExcessOf
      <3> QED
        BY <1>0, <2>1, <3>3, <3>6, <3>7, MapTrim
    <2> QED
      BY <1>2, <2>2, <2>3, TrimAllTakes
  <1> QED
    BY <1>1, <1>2

(* resize_shards puts every record it has read where it will be found.      *)
LEMMA ReplaceRefines ==
  ASSUME Known, ReplaceShards
  PROVE  UNCHANGED Abstract!vars
  <1>1. UNCHANGED <<Rest, Excess>> /\ Types
    BY DEF ReplaceShards, Rest, Excess, reports, fixed, history, Known, Types, PassTypes, PassFields
  <1>2. ASSUME NEW t \in Tasks PROVE Found(t)' = Found(t)
    <2>1. /\ Indexes' = 0 .. resize.to - 1 /\ Cardinality(Indexes') = resize.to
          /\ \A i \in Indexes' :
               shards'[i][t] = IF ShardIndex(t, resize.to) = i THEN resize.seen[t] ELSE None
      BY <1>1, Replaced
    <2>2. resize.to \in Nat /\ resize.to > 0 /\ Hash[t] \in Nat
      BY StoreAssumption DEF ReplaceShards, Known, Types, PassTypes
    <2>3. ShardIndex(t, resize.to) \in Indexes'
      BY <2>1, <2>2 DEF ShardIndex
    <2>4. resize.seen[t] = Found(t)
      BY DEF ReplaceShards, Known, Sound, SeenIsStored
    <2>5. Found(t)' = shards'[ShardIndex(t, resize.to)][t]
      BY <2>1 DEF Found, ShardIndex
    <2> QED
      BY <2>1, <2>3, <2>4, <2>5
  <1>3. Emptied({})
    BY <1>2 DEF Emptied, Status
  <1> QED
    BY <1>1, <1>3, MapUnchanged

LEMMA StoreStepRefines ==
  ASSUME Overlap = FALSE, Known, Known', [Next]_vars
  PROVE  [Abstract!Next]_(Abstract!vars)
  <1>1. CASE Tick
    <2>1. Emptied({}) /\ UNCHANGED <<endedAt, asked, limit, Excess>> /\ now' = now + 1
      BY <1>1, SameShards DEF Tick, Excess, reports, fixed, history
    <2>2. Abstract!Tick
      BY <2>1 DEF Abstract!Tick, Emptied, Excess
    <2> QED
      BY <2>2 DEF Abstract!Next
  <1>2. CASE \/ StartPass \/ NextShard \/ EndExpiring \/ ReplaceCount \/ UNCHANGED vars
             \/ \E n \in Counts : Collect(n)
    <2>1. UNCHANGED <<shards, Rest>>
      BY <1>2 DEF StartPass, NextShard, EndExpiring, ReplaceCount, vars, Collect, Rest, reports,
         fixed, history
    <2>2. UNCHANGED Excess
      <3>1. CASE UNCHANGED pass
        BY <3>1 DEF Excess
      <3>2. CASE StartPass
        BY <3>2 DEF StartPass, Excess, NoPass
      <3>3. CASE NextShard \/ EndExpiring
        BY <3>3 DEF NextShard, EndExpiring, InShard, Excess, Known, Types, PassTypes, PassFields
      <3>4. CASE ReplaceCount \/ UNCHANGED vars \/ \E n \in Counts : Collect(n)
        BY <3>1, <3>4 DEF ReplaceCount, vars, Collect
      <3> QED
        BY <1>2, <3>2, <3>3, <3>4
    <2> QED
      BY <2>1, <2>2, SameShards, MapUnchanged
  <1> QED
    BY <1>1, <1>2, CallsRefine, ClearingRefines, PopRefines, CountRefines, TrimRefines,
       ReplaceRefines DEF Next

(* The store is one map, in Python and in Rust, where no other call         *)
(* overlaps resize_shards: locks, shards, heaps and resizing do not show.   *)
THEOREM StoreIsAMap ==
  ASSUME Overlap = FALSE
  PROVE  Spec => IsAMap
  <1>1. Init => Abstract!Init
    <2> SUFFICES ASSUME Init PROVE Abstract!Init
      OBVIOUS
    <2>1. Known
      BY KnownStart
    <2>2. \A t \in Tasks : Status(t) = "none"
      <3>1. \A i \in Indexes : shards[i] = NoRecords
        BY DEF Init, Indexes
      <3> QED
        BY <2>1, <3>1, HomeFacts DEF Status, NoRecords
    <2>3. limit \in {s.limit : s \in Setups}
      BY DEF Init
    <2> QED
      BY <2>2, <2>3 DEF Init, Abstract!Init, NoPass
  <1>2. Known /\ Known' /\ [Next]_vars => [Abstract!Next]_(Abstract!vars)
    BY StoreStepRefines
  <1>3. Spec => []Known
    BY KnownAlways
  <1> QED
    BY <1>1, <1>2, <1>3, PTL DEF Spec, IsAMap, Abstract!Spec
=============================================================================
