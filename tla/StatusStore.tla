------------------------------ MODULE StatusStore ------------------------------
(***************************************************************************)
(* The status store behind get_sharded_status_store, in Python and in Rust: *)
(* writes of records, removal, the cleanup pass (cleanup_old_task_status)   *)
(* that expires records and enforces the limit, and resize_shards.          *)
(*                                                                         *)
(* A Python operation on one shard is one step, for it holds that shard's   *)
(* write lock (ReadWriteLock is checked in a module of its own); the pass   *)
(* goes shard by shard and, in a shard, entry by entry.  The Rust store     *)
(* has a lock on each heap and none that covers heap and record together.   *)
(***************************************************************************)
EXTENDS Naturals, FiniteSets

CONSTANTS
  Tasks, None,
  Setups,     (* the implementations, limits and first shard counts to
                 consider, as records [impl, limit, count]                 *)
  Hash,       (* the hash of a task id                                     *)
  Counts,     (* the shard counts resize_shards may be given               *)
  Ttl,        (* task_status_ttl                                           *)
  MaxCleanup, (* DEFAULT_MAX_CLEANUP_PER_BATCH                             *)
  MaxTime, LastSubmit, (* bounds on the clock and on submit_time           *)
  Ending,     (* the tasks that may end; the others go on                  *)
  Removable,  (* the tasks a client may remove with remove_status          *)
  Overlap,    (* whether other calls overlap resize_shards                 *)
  MayClear    (* whether clear_all is called                               *)

Times == 0 .. MaxTime
Records == [born : Times, ended : Times \cup {None}]
NoPass == [pc |-> "idle", at |-> 0, n |-> 0, left |-> 0, now |-> 0, held |-> FALSE, calm |-> TRUE]

ASSUME StoreAssumption ==
  /\ IsFiniteSet(Tasks) /\ None \notin Nat \cup Records
  /\ Counts \subseteq Nat \ {0}
  /\ Setups \subseteq [impl : {"python", "rust"}, limit : Nat \ {0}, count : Counts]
  /\ Hash \in [Tasks -> Nat]
  /\ Ttl \in Nat /\ MaxCleanup \in Nat \ {0} /\ MaxTime \in Nat
  /\ LastSubmit \in Times /\ Removable \subseteq Tasks /\ Ending \subseteq Tasks
  /\ Overlap \in BOOLEAN /\ MayClear \in BOOLEAN

VARIABLES
  impl,     (* which implementation the adapter has chosen                 *)
  limit,    (* max_task_status_count                                       *)
  now,      (* time.time()                                                 *)
  life,     (* new, open (submitted), ended, written: each task's reports  *)
  bornAt, endedAt,  (* its submit_time and its end_time                    *)
  count,    (* shard_count                                                 *)
  shards,   (* shards: by index and task, a record or None                 *)
  heaps,    (* expiry_heaps: by index, a set of <<expiry, task>>           *)
  pass,     (* the cleanup pass under way: its phase, shard index, number
               of shards, what it may still remove and when it began; held:
               it has the lock of its shard; calm: nobody wrote meanwhile  *)
  resize,   (* resize_shards: idle, or the new count and the records read  *)
  pushed,   (* Rust: tasks whose heap entry is pushed, the record not yet  *)
  clearing, (* Rust: clear_all has cleared the shards, not yet the heaps   *)
  asked,    (* tasks whose record a client removed                         *)
  missed    (* tasks whose entry was popped at the very instant of expiry  *)

reports == <<life, bornAt, endedAt>>
fixed == <<impl, limit>>
rust == <<pushed, clearing>>
history == <<asked, missed>>
vars == <<fixed, now, reports, count, shards, heaps, pass, resize, rust, history>>

NoResize == [pc |-> "idle", to |-> 1, seen |-> [t \in Tasks |-> None]]

-----------------------------------------------------------------------------
(* Where a task's record and heap entry are, with n shards.                 *)
ShardIndex(t, n) == Hash[t] % n

Indexes == DOMAIN shards
Held(i) == {t \in Tasks : shards[i][t] # None}
Size == Cardinality({p \in Indexes \X Tasks : p[2] \in Held(p[1])})

Found(t) == shards[ShardIndex(t, Cardinality(Indexes))][t]

Entry(t, e) == <<e + Ttl, t>>
NoRecords == [t \in Tasks |-> None]

(* Mutant: one too few.                                                     *)
ExcessOneLess(n) == IF n > limit THEN n - limit - 1 ELSE 0

ExcessOf(n) == IF n > limit THEN n - limit ELSE 0

TypeOK ==
  /\ impl \in {"python", "rust"} /\ limit \in Nat /\ now \in Times
  /\ life \in [Tasks -> {"new", "open", "ended", "written"}]
  /\ bornAt \in [Tasks -> Times] /\ endedAt \in [Tasks -> Times \cup {None}]
  /\ count \in Counts
  /\ \E n \in Counts : Indexes = 0 .. n - 1
  /\ DOMAIN heaps = Indexes
  /\ \A i \in Indexes : shards[i] \in [Tasks -> Records \cup {None}]
  /\ \A i \in Indexes : heaps[i] \subseteq (Nat \X Tasks)
  /\ pass.pc \in {"idle", "expiring", "expired", "incremental", "full", "trimming", "trimmed"}
  /\ pass.at \in Nat /\ pass.left \in Nat /\ pass.n \in Counts \cup {0}
  /\ resize.pc \in {"idle", "collected", "replaced"}
  /\ pushed \subseteq Tasks /\ asked \subseteq Tasks /\ missed \subseteq Tasks
  /\ clearing \in BOOLEAN

Init ==
  /\ \E s \in Setups : impl = s.impl /\ limit = s.limit /\ count = s.count
  /\ now = 0
  /\ life = [t \in Tasks |-> "new"]
  /\ bornAt = [t \in Tasks |-> 0] /\ endedAt = [t \in Tasks |-> None]
  /\ shards = [i \in 0 .. count - 1 |-> NoRecords]
  /\ heaps = [i \in 0 .. count - 1 |-> {}]
  /\ pass = NoPass /\ resize = NoResize
  /\ pushed = {} /\ clearing = FALSE /\ asked = {} /\ missed = {}

Tick ==
  /\ now < MaxTime /\ now' = now + 1
  /\ UNCHANGED <<fixed, reports, count, shards, heaps, pass, resize, rust, history>>

-----------------------------------------------------------------------------
(* Writes.  The caller has merged the record: it gives all of its fields.   *)

MayCall == resize.pc = "idle" \/ Overlap

(* A Rust cleanup or clear keeps the interpreter lock: the writes that have
   given it up go on beside it, Python code and other calls do not.          *)
MayEnter == impl = "rust" => pass.pc \in {"idle", "expired", "trimmed"} /\ ~clearing

(* The pass keeps the lock of its shard from the first entry it pops.       *)
Locked(i) == pass.held /\ pass.at = i

Store(t, r) ==
  LET i == ShardIndex(t, count) IN
  /\ i \in Indexes
  /\ shards' = [shards EXCEPT ![i][t] = r]
  /\ pass' = [pass EXCEPT !.calm = FALSE]

Submit(t) ==
  /\ MayCall /\ life[t] = "new" /\ now <= LastSubmit
  /\ life' = [life EXCEPT ![t] = "open"]
  /\ bornAt' = [bornAt EXCEPT ![t] = now]
  /\ impl = "python" => ~Locked(ShardIndex(t, count))
  /\ Store(t, [born |-> now, ended |-> None])
  /\ UNCHANGED <<fixed, now, endedAt, count, heaps, resize, rust, history>>

(* The executor notes the end_time; the update goes through the batches.    *)
End(t) ==
  /\ MayEnter /\ t \in Ending /\ life[t] = "open" /\ life' = [life EXCEPT ![t] = "ended"]
  /\ endedAt' = [endedAt EXCEPT ![t] = now]
  /\ UNCHANGED <<fixed, now, bornAt, count, shards, heaps, pass, resize, rust, history>>

Outcome(t) == [born |-> bornAt[t], ended |-> endedAt[t]]

(* Mutant: the entry is forgotten.                                          *)
UpdateStatusUnlisted(t) ==
  /\ impl = "python" /\ MayCall /\ life[t] = "ended" /\ ~Locked(ShardIndex(t, count))
  /\ life' = [life EXCEPT ![t] = "written"]
  /\ Store(t, Outcome(t))
  /\ UNCHANGED <<fixed, now, bornAt, endedAt, count, heaps, resize, rust, history>>

UpdateStatus(t) ==
  LET i == ShardIndex(t, count) IN
  /\ impl = "python" /\ MayCall /\ life[t] = "ended" /\ ~Locked(i)
  /\ life' = [life EXCEPT ![t] = "written"]
  /\ Store(t, Outcome(t))
  /\ heaps' = [heaps EXCEPT ![i] = @ \cup {Entry(t, endedAt[t])}]
  /\ UNCHANGED <<fixed, now, bornAt, endedAt, count, resize, rust, history>>

(* Rust: the heap entry first, under the heap's lock, then the record.      *)
RustPush(t) ==
  LET i == ShardIndex(t, count) IN
  /\ impl = "rust" /\ life[t] = "ended" /\ t \notin pushed /\ ~Locked(i)
  /\ heaps' = [heaps EXCEPT ![i] = @ \cup {Entry(t, endedAt[t])}]
  /\ pushed' = pushed \cup {t}
  /\ UNCHANGED <<fixed, now, reports, count, shards, pass, resize, clearing, history>>

RustInsert(t) ==
  /\ t \in pushed /\ pushed' = pushed \ {t}
  /\ life' = [life EXCEPT ![t] = "written"]
  /\ Store(t, Outcome(t))
  /\ UNCHANGED <<fixed, now, bornAt, endedAt, count, heaps, resize, clearing, history>>

(* A removed record leaves its heap entry behind.                           *)
RemoveStatus(t) ==
  LET i == ShardIndex(t, count) IN
  /\ t \in Removable /\ MayCall /\ MayEnter /\ i \in Indexes /\ (impl = "python" => ~Locked(i))
  /\ shards[i][t] # None
  /\ shards' = [shards EXCEPT ![i][t] = None]
  /\ asked' = asked \cup {t}
  /\ UNCHANGED <<fixed, now, reports, count, heaps, pass, resize, rust, missed>>

ClearAll ==
  /\ impl = "python" /\ MayClear /\ MayCall /\ ~pass.held
  /\ shards' = [i \in Indexes |-> NoRecords]
  /\ heaps' = [i \in Indexes |-> {}]
  /\ asked' = Tasks
  /\ UNCHANGED <<fixed, now, reports, count, pass, resize, rust, missed>>

RustClearShards ==
  /\ impl = "rust" /\ MayClear /\ MayEnter /\ clearing' = TRUE
  /\ shards' = [i \in Indexes |-> NoRecords]
  /\ asked' = Tasks
  /\ UNCHANGED <<fixed, now, reports, count, heaps, pass, resize, pushed, missed>>

RustClearHeaps ==
  /\ clearing /\ clearing' = FALSE
  /\ heaps' = [i \in Indexes |-> {}]
  /\ UNCHANGED <<fixed, now, reports, count, shards, pass, resize, pushed, asked, missed>>

-----------------------------------------------------------------------------
(* The cleanup pass of cleanup_old_task_status.                             *)

StartPass ==
  /\ pass.pc = "idle" /\ MayCall /\ MayEnter
  /\ pass' = [NoPass EXCEPT !.pc = "expiring", !.n = count, !.left = MaxCleanup, !.now = now]
  /\ UNCHANGED <<fixed, now, reports, count, shards, heaps, resize, rust, history>>

(* The shard the pass is at; after a resize there may be none.              *)
InShard(pc) == pass.pc = pc /\ pass.at < pass.n /\ pass.at \in Indexes

(* Mutant: both heaps have the latest expiry on top.                        *)
TopLatest(e, heap) == e \in heap /\ \A f \in heap : e[1] >= f[1]

(* The entry each implementation looks at: Python's heap has the earliest
   expiry on top, Rust's BinaryHeap the latest (ties by task id).            *)
Top(e, heap) ==
  /\ e \in heap
  /\ \A f \in heap : IF impl = "python" THEN e[1] <= f[1] ELSE e[1] >= f[1]

(* Mutant: the expiry is not compared with the clock.                       *)
DueAnyTime(e) == Top(e, heaps[pass.at])

Due(e) == Top(e, heaps[pass.at]) /\ e[1] <= pass.now

(* Python looks at the record again before it removes it.                   *)
Expired(r) == r # None /\ r.ended # None /\ pass.now - r.ended > Ttl

Pop ==
  /\ impl = "python" /\ InShard("expiring") /\ pass.left > 0
  /\ \E e \in heaps[pass.at] :
       LET t == e[2]  r == shards[pass.at][t] IN
       /\ Due(e)
       /\ heaps' = [heaps EXCEPT ![pass.at] = @ \ {e}]
       /\ IF Expired(r)
            THEN /\ shards' = [shards EXCEPT ![pass.at][t] = None]
                 /\ pass' = [pass EXCEPT !.held = TRUE, !.left = @ - 1]
                 /\ UNCHANGED missed
            ELSE /\ pass' = [pass EXCEPT !.held = TRUE]
                 /\ missed' = IF r # None /\ pass.now = e[1] THEN missed \cup {t} ELSE missed
                 /\ UNCHANGED shards
  /\ UNCHANGED <<fixed, now, reports, count, resize, rust, asked>>

(* Rust removes whatever record the task has.                               *)
RustPop ==
  /\ impl = "rust" /\ InShard("expiring") /\ pass.left > 0
  /\ \E e \in heaps[pass.at] :
       /\ Due(e)
       /\ heaps' = [heaps EXCEPT ![pass.at] = @ \ {e}]
       /\ shards' = [shards EXCEPT ![pass.at][e[2]] = None]
       /\ pass' = [pass EXCEPT !.held = TRUE,
                               !.left = IF e[2] \in Held(pass.at) THEN @ - 1 ELSE @]
  /\ UNCHANGED <<fixed, now, reports, count, resize, rust, history>>

NextShard ==
  /\ InShard("expiring") /\ (pass.left = 0 \/ ~\E e \in heaps[pass.at] : Due(e))
  /\ pass' = [pass EXCEPT !.at = @ + 1, !.held = FALSE]
  /\ UNCHANGED <<fixed, now, reports, count, shards, heaps, resize, rust, history>>

EndExpiring ==
  /\ pass.pc = "expiring" /\ pass.at = pass.n
  /\ pass' = [pass EXCEPT !.pc = "expired"]
  /\ UNCHANGED <<fixed, now, reports, count, shards, heaps, resize, rust, history>>

(* enforce_max_count counts without a lock and chooses how to go on.        *)
CountRecords ==
  /\ pass.pc = "expired" /\ MayEnter
  /\ pass' = [pass EXCEPT
       !.at = 0,
       !.left = IF impl = "rust" THEN ExcessOf(Size) ELSE 0,
       !.pc = CASE Size <= limit -> "trimmed"
                [] Size > limit /\ impl = "rust" -> "trimming"
                [] Size > limit /\ impl = "python" ->
                     IF 2 * Size > 3 * limit THEN "full" ELSE "incremental"]
  /\ UNCHANGED <<fixed, now, reports, count, shards, heaps, resize, rust, history>>

CountAgain ==
  /\ pass.pc = "incremental"
  /\ pass' = [pass EXCEPT !.n = count, !.left = ExcessOf(Size),
                          !.pc = IF Size > limit THEN "trimming" ELSE "trimmed"]
  /\ UNCHANGED <<fixed, now, reports, count, shards, heaps, resize, rust, history>>

(* submit_time comes first in Python, end_time in Rust.                     *)
Key(t) == IF impl = "rust" /\ Found(t).ended # None THEN Found(t).ended ELSE bornAt[t]

(* All but the k newest by key; the order among equal keys is any.          *)
Oldest(S, k) ==
  {D \in SUBSET S : /\ Cardinality(D) = Cardinality(S) - k
                    /\ \A d \in D, r \in S \ D : Key(d) <= Key(r)}

(* Mutant: what is still to go is not counted.                              *)
KeptNothing(i, n) == 0

Kept(i, n) == IF n > Cardinality(Held(i)) THEN 0 ELSE Cardinality(Held(i)) - n

(* Both take the records D out of shard i.                                  *)
DropFrom(i, D) ==
  /\ shards' = [shards EXCEPT ![i] = [t \in Tasks |-> IF t \in D THEN None ELSE @[t]]]
  /\ pass' = [pass EXCEPT !.at = @ + 1, !.left = @ - Cardinality(D)]

(* Python keeps one record at least, and the entries of those it keeps.     *)
TrimShard ==
  LET i == pass.at  k == Kept(i, pass.left) IN
  /\ impl = "python" /\ InShard("trimming") /\ pass.left > 0
  /\ IF Cardinality(Held(i)) <= 1 THEN DropFrom(i, {}) /\ UNCHANGED heaps
     ELSE \E D \in Oldest(Held(i), IF k = 0 THEN 1 ELSE k) :
            /\ DropFrom(i, D)
            /\ heaps' = [heaps EXCEPT ![i] = {e \in @ : e[2] \in Held(i) \ D}]
  /\ UNCHANGED <<fixed, now, reports, count, resize, rust, history>>

RustTrimShard ==
  /\ impl = "rust" /\ InShard("trimming") /\ pass.left > 0
  /\ \E D \in Oldest(Held(pass.at), Kept(pass.at, pass.left)) : DropFrom(pass.at, D)
  /\ UNCHANGED <<fixed, now, reports, count, heaps, resize, rust, history>>

EndTrimming ==
  /\ pass.pc = "trimming" /\ (pass.at = pass.n \/ pass.left = 0)
  /\ pass' = [pass EXCEPT !.pc = "trimmed", !.left = 0]
  /\ UNCHANGED <<fixed, now, reports, count, shards, heaps, resize, rust, history>>

(* With all write locks held: count, keep the newest, rebuild the heaps.    *)
TrimAll ==
  LET all == UNION {Held(i) : i \in Indexes} IN
  /\ pass.pc = "full"
  /\ IF Size <= limit THEN UNCHANGED <<shards, heaps>>
     ELSE \E D \in Oldest(all, limit) :
            /\ shards' = [i \in Indexes |-> [t \in Tasks |-> IF t \in D THEN None ELSE shards[i][t]]]
            /\ heaps' = [i \in Indexes |-> {e \in heaps[i] : e[2] \in all \ D}]
  /\ pass' = [pass EXCEPT !.pc = "trimmed"]
  /\ UNCHANGED <<fixed, now, reports, count, resize, rust, history>>

(* After a resize an index past the new shards raises IndexError.           *)
PastShards == pass.pc \in {"expiring", "trimming"} /\ pass.at \in (0 .. pass.n - 1) \ Indexes

EndPass ==
  /\ (pass.pc = "trimmed" \/ PastShards) /\ pass' = NoPass
  /\ UNCHANGED <<fixed, now, reports, count, shards, heaps, resize, rust, history>>

-----------------------------------------------------------------------------
(* resize_shards reads every record with all shards locked, gives the locks
   back, builds new shards and heaps and then replaces the old ones, the
   count last.  The Rust store refuses.                                      *)
Collect(n) ==
  /\ impl = "python" /\ resize.pc = "idle" /\ n # count /\ ~pass.held
  /\ Overlap \/ pass.pc = "idle"
  /\ resize' = [pc |-> "collected", to |-> n, seen |-> [t \in Tasks |-> Found(t)]]
  /\ UNCHANGED <<fixed, now, reports, count, shards, heaps, pass, rust, history>>

ReplaceShards ==
  LET home(i) == {t \in Tasks : ShardIndex(t, resize.to) = i /\ resize.seen[t] # None} IN
  /\ resize.pc = "collected" /\ resize' = [resize EXCEPT !.pc = "replaced"]
  /\ shards' = [i \in 0 .. resize.to - 1 |->
                  [t \in Tasks |-> IF t \in home(i) THEN resize.seen[t] ELSE None]]
  /\ heaps' = [i \in 0 .. resize.to - 1 |->
                 {Entry(t, resize.seen[t].ended) : t \in {s \in home(i) : resize.seen[s].ended # None}}]
  /\ pass' = [pass EXCEPT !.held = FALSE]
  /\ UNCHANGED <<fixed, now, reports, count, rust, history>>

ReplaceCount ==
  /\ resize.pc = "replaced" /\ resize' = NoResize
  /\ count' = resize.to
  /\ UNCHANGED <<fixed, now, reports, shards, heaps, pass, rust, history>>

-----------------------------------------------------------------------------
Next ==
  \/ Tick
  \/ \E t \in Tasks : Submit(t) \/ End(t) \/ UpdateStatus(t) \/ RustPush(t) \/ RustInsert(t)
                      \/ RemoveStatus(t)
  \/ ClearAll \/ RustClearShards \/ RustClearHeaps
  \/ StartPass \/ NextShard \/ EndExpiring
  \/ Pop \/ RustPop
  \/ CountRecords \/ CountAgain \/ TrimShard \/ RustTrimShard \/ TrimAll \/ EndTrimming \/ EndPass
  \/ \E n \in Counts : Collect(n)
  \/ ReplaceShards \/ ReplaceCount

Spec == Init /\ [][Next]_vars
-----------------------------------------------------------------------------
(* The sharded store is a map: every step of it is one of StoreSpec, and    *)
(* locks, heaps, shards and resizing do not show (class docstring, "保证").  *)
Status(t) ==
  IF Found(t) = None THEN "none" ELSE IF Found(t).ended = None THEN "open" ELSE "ended"

Abstract == INSTANCE StoreSpec WITH
  Limits <- {s.limit : s \in Setups},
  map <- [t \in Tasks |-> Status(t)],
  excess <- IF pass.pc = "trimming" THEN pass.left ELSE 0

IsAMap == Abstract!Spec

(* Python: the record of a task that ended has its entry in the heap of its *)
(* shard, without which no pass would ever expire it, unless a pass popped  *)
(* the entry at the very instant now = end_time + ttl.                      *)
EndedCanExpire ==
  impl = "python" =>
    \A t \in Tasks :
      Status(t) = "ended" =>
        \/ Entry(t, Found(t).ended) \in heaps[ShardIndex(t, Cardinality(Indexes))]
        \/ t \in missed

(* A pass during which nobody wrote and whose allowance was not used up     *)
(* leaves no record that had expired when the pass began.                   *)
NothingExpiredStays ==
  pass.pc = "expired" /\ pass.calm /\ pass.left > 0 =>
    \A t \in Tasks : Status(t) = "ended" /\ Expired(Found(t)) => t \in missed

(* So in Python; the order of the Rust heap is another matter.              *)
PythonExpires == impl = "python" => NothingExpiredStays

(* After a pass during which nobody wrote there are no more records than    *)
(* the limit, or in Python than one in each shard, which it always keeps.   *)
LimitHolds ==
  pass.pc = "trimmed" /\ pass.calm =>
    \/ Size <= limit
    \/ impl = "python" /\ \A i \in Indexes : Cardinality(Held(i)) <= 1
=============================================================================
