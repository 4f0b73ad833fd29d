-------------------------- MODULE PriorityQueueProofs --------------------------
(***************************************************************************)
(* For any entries, priorities and getters, in Python and in Rust: no entry *)
(* is lost or served twice, and no getter sleeps or fails while there is    *)
(* work for it.                                                             *)
(***************************************************************************)
EXTENDS PriorityQueue, FiniteSetTheorems, TLAPS

(* What is marked in Rust's heap was removed.                               *)
EntryInv ==
  /\ queueImpl \in {"python", "rust"} /\ heap \subseteq Entries /\ cancelled \subseteq heap
  /\ queueImpl = "python" => cancelled = {}
  /\ cancelled \subseteq removed /\ entered \subseteq Entries
  /\ served \in [Entries -> Nat]
  /\ EachServedOnce

(* Only a getter with a timeout is late.  In Python a getter that was woken *)
(* finds what it was woken for, unless it was robbed.                       *)
GetterInv ==
  /\ getter \in [Getters -> {"idle", "sleeping", "notified", "popped", "empty"}]
  /\ timeout \in [Getters -> {"never", "some", "now"}]
  /\ \A g \in late : g \in Getters /\ timeout[g] = "some" /\ getter[g] \in {"sleeping", "notified", "empty"}
  /\ queueImpl = "python" =>
       \A g \in Notified : timeout[g] = "never" /\ g \notin robbed => Valid # {}
  /\ EmptyOnlyIfRobbed

(* A getter whose time is up is not on its way to an entry.                 *)
WakeInv == Sleeping # {} => Cardinality(Valid) <= Cardinality(Notified \ late)

QueueInv == EntryInv /\ GetterInv /\ WakeInv

-----------------------------------------------------------------------------
LEMMA QueueStart == QueueInit => QueueInv
  BY DEF QueueInit, QueueInv, EntryInv, EachServedOnce, Out, Valid, GetterInv, Notified,
     EmptyOnlyIfRobbed, WakeInv, Sleeping

(* The entries: those that are popped were valid, and no longer are.        *)
LEMMA PopKeepsEntries ==
  ASSUME EntryInv, NEW S \in SUBSET Valid, NEW all \in BOOLEAN, Pop(S, all)
  PROVE  EntryInv' /\ Valid' = Valid \ S
  <1>1. Dropped(S, all) \subseteq cancelled
    BY DEF Dropped
  <1>2. S \subseteq Entries /\ S \subseteq taskIds /\ S \cap cancelled = {}
    BY DEF EntryInv, Valid, EachServedOnce
  <1>3. Valid' = Valid \ S
    BY <1>1, <1>2 DEF Pop, Valid
  <1>4. \A e \in Entries : served'[e] = IF e \in S THEN served[e] + 1 ELSE served[e]
    BY DEF Pop
  <1>5. \A e \in S : served[e] = 0
    BY <1>2 DEF EntryInv, EachServedOnce, Out
  <1>6. Out' = Out \cup S
    BY <1>2, <1>4, <1>5 DEF Out, EntryInv
  <1>7. EachServedOnce'
    BY <1>2, <1>3, <1>4, <1>5, <1>6 DEF Pop, EntryInv, EachServedOnce
  <1>8. served' \in [Entries -> Nat]
    BY DEF Pop, EntryInv
  <1> QED
    BY <1>1, <1>2, <1>3, <1>7, <1>8 DEF Pop, EntryInv

LEMMA PushKeepsEntries ==
  ASSUME EntryInv, NEW S \in SUBSET Entries, S \cap entered = {}, Push(S)
  PROVE  EntryInv' /\ Valid' = Valid \cup S
  <1>1. heap \subseteq entered
    BY DEF EntryInv, EachServedOnce, Valid
  <1> QED
    BY <1>1 DEF EntryInv, EachServedOnce, Valid, Push, Out

LEMMA RemovalKeepsEntries ==
  ASSUME EntryInv, NEW e \in Entries, CancelPending(e) \/ Remove(e)
  PROVE  EntryInv' /\ Valid' \subseteq Valid /\ (e \notin heap => Valid' = Valid)
  <1>1. CASE CancelPending(e)
    BY <1>1 DEF EntryInv, EachServedOnce, Valid, Out, CancelPending
  <1>2. CASE Remove(e)
    BY <1>2 DEF EntryInv, EachServedOnce, Valid, Out, Remove
  <1> QED
    BY <1>1, <1>2

LEMMA ClearKeepsEntries ==
  ASSUME EntryInv, ClearQueue
  PROVE  EntryInv' /\ Valid' = {}
  BY DEF EntryInv, EachServedOnce, Valid, Out, ClearQueue

LEMMA OthersKeepEntries ==
  ASSUME EntryInv, UNCHANGED <<queueImpl, heap, taskIds, cancelled, entered, served, removed, cleared>>
  PROVE  EntryInv' /\ Valid' = Valid
  BY DEF EntryInv, EachServedOnce, Valid, Out

-----------------------------------------------------------------------------
(* Fewer entries never leave a getter without company.                      *)
LEMMA FewerEntries ==
  ASSUME EntryInv, WakeInv, NEW V \in SUBSET Valid, NEW N, IsFiniteSet(N), Notified \ late \subseteq N
  PROVE  Sleeping # {} => Cardinality(V) <= Cardinality(N)
  <1>1. IsFiniteSet(Valid)
    BY QueueAssumption, FS_Subset DEF EntryInv, Valid
  <1>2. Cardinality(V) <= Cardinality(Valid) /\ Cardinality(Notified \ late) <= Cardinality(N)
    BY <1>1, FS_Subset
  <1>3. /\ Cardinality(V) \in Nat /\ Cardinality(Valid) \in Nat
        /\ Cardinality(N) \in Nat /\ Cardinality(Notified \ late) \in Nat
    BY <1>1, FS_Subset, FS_CardinalityType
  <1> QED
    BY <1>2, <1>3 DEF WakeInv

(* Put and put: a sleeper is woken for the new entry.                       *)
LEMMA PutKeeps ==
  ASSUME QueueInv, NEW e \in Entries, e \notin entered, Push({e}), NotifyOne
  PROVE  QueueInv'
  <1>1. EntryInv' /\ Valid' = Valid \cup {e} /\ e \notin Valid
    BY PushKeepsEntries DEF QueueInv, EntryInv, EachServedOnce
  <1>2. UNCHANGED <<queueImpl, timeout, robbed>>
    BY DEF Push
  <1>3. CASE Notifiable = {}
    <2>1. UNCHANGED <<getter, late>> /\ Sleeping = {}
      BY <1>3 DEF NotifyOne, Notifiable
    <2>2. GetterInv'
      BY <1>1, <1>2, <2>1 DEF QueueInv, GetterInv, EmptyOnlyIfRobbed, Notified
    <2>3. WakeInv'
      BY <2>1 DEF WakeInv, Sleeping
    <2> QED
      BY <1>1, <2>2, <2>3 DEF QueueInv
  <1>4. CASE Notifiable # {}
    <2>1. PICK g \in Notifiable : getter' = [getter EXCEPT ![g] = "notified"] /\ late' = late \ {g}
      BY <1>4 DEF NotifyOne
    <2>2. g \in Getters /\ g \notin Notified \ late /\ (getter[g] = "sleeping" \/ getter[g] = "notified")
      BY DEF Notifiable, Sleeping, Notified
    <2>3. GetterInv'
      BY <1>1, <1>2, <2>1, <2>2 DEF QueueInv, GetterInv, EmptyOnlyIfRobbed, Notified
    <2>4. /\ (Notified \ late)' = (Notified \ late) \cup {g}
          /\ Sleeping' \subseteq Sleeping
      BY <2>1, <2>2 DEF Notified, Sleeping, QueueInv, GetterInv
    <2>5. IsFiniteSet(Notified \ late) /\ IsFiniteSet(Valid)
      BY QueueAssumption, FS_Subset DEF Notified, Valid, QueueInv, EntryInv
    <2>6. /\ Cardinality((Notified \ late)') = Cardinality(Notified \ late) + 1
          /\ Cardinality(Valid') = Cardinality(Valid) + 1
      BY <1>1, <2>2, <2>4, <2>5, FS_AddElement
    <2>7. Cardinality(Notified \ late) \in Nat /\ Cardinality(Valid) \in Nat
      BY <2>5, FS_CardinalityType
    <2>8. WakeInv'
      BY <2>4, <2>6, <2>7 DEF WakeInv, QueueInv
    <2> QED
      BY <1>1, <2>3, <2>8 DEF QueueInv
  <1> QED
    BY <1>3, <1>4

(* A getter takes an entry: there is one less, and one getter less on its   *)
(* way; the others that were woken count as robbed.                         *)
LEMMA TakeKeeps ==
  ASSUME QueueInv, NEW g \in Getters, getter[g] \in {"idle", "notified"}, Take(g)
  PROVE  QueueInv'
  <1>1. PICK e \in Valid :
          /\ Pop({e}, FALSE)
          /\ getter' = [getter EXCEPT ![g] = IF queueImpl = "python" THEN "popped" ELSE "idle"]
          /\ robbed' = (robbed \cup Notified) \ {g} /\ late' = late \ {g}
          /\ timeout' = [timeout EXCEPT ![g] = "now"]
    BY DEF Take
  <1>2. EntryInv' /\ Valid' = Valid \ {e} /\ UNCHANGED queueImpl
    BY <1>1, PopKeepsEntries DEF QueueInv, Pop
  <1>3. /\ Notified' = Notified \ {g} /\ Sleeping' = Sleeping
        /\ (Notified \ late)' = (Notified \ late) \ {g}
    BY <1>1 DEF QueueInv, GetterInv, Notified, Sleeping
  <1>4. GetterInv'
    BY <1>1, <1>2, <1>3 DEF QueueInv, GetterInv, EmptyOnlyIfRobbed, Notified
  <1>5. IsFiniteSet(Notified \ late) /\ IsFiniteSet(Valid)
    BY QueueAssumption, FS_Subset DEF Notified, Valid, QueueInv, EntryInv
  <1>6. /\ Cardinality(Valid') = Cardinality(Valid) - 1
        /\ Cardinality((Notified \ late)') >= Cardinality(Notified \ late) - 1
        /\ Cardinality(Notified \ late) \in Nat /\ Cardinality(Valid) \in Nat
        /\ Cardinality((Notified \ late)') \in Nat
    <2>1. Cardinality(Valid') = Cardinality(Valid) - 1
      BY <1>2, <1>5, FS_RemoveElement
    <2>2. /\ Cardinality(Notified \ late) \in Nat /\ Cardinality(Valid) \in Nat
      BY <1>5, FS_CardinalityType
    <2>3. IsFiniteSet((Notified \ late)') /\ Cardinality((Notified \ late)') \in Nat
      BY <1>3, <1>5, FS_RemoveElement, FS_CardinalityType
    <2>4. Cardinality((Notified \ late)') =
            IF g \in Notified \ late THEN Cardinality(Notified \ late) - 1
                                     ELSE Cardinality(Notified \ late)
      <3>1. ASSUME NEW A, NEW B, IsFiniteSet(A), B = A \ {g}
            PROVE  Cardinality(B) = IF g \in A THEN Cardinality(A) - 1 ELSE Cardinality(A)
        BY <3>1, FS_RemoveElement
      <3> QED
        BY <3>1, <1>3, <1>5
    <2> QED
      BY <2>1, <2>2, <2>3, <2>4
  <1>7. WakeInv'
    BY <1>3, <1>6 DEF WakeInv, QueueInv
  <1> QED
    BY <1>2, <1>4, <1>7 DEF QueueInv

(* A getter that finds nothing sleeps or gives up.                          *)
LEMMA NothingFound ==
  ASSUME QueueInv, NEW g \in Getters, NEW t \in {"never", "some", "now"},
         Valid = {}, Pop({}, TRUE), UNCHANGED late,
         \/ /\ getter[g] = "idle" /\ timeout' = [timeout EXCEPT ![g] = t]
            /\ getter' = [getter EXCEPT ![g] = IF t = "now" THEN "empty" ELSE "sleeping"]
            /\ robbed' = robbed \ {g}
         \/ /\ getter[g] = "notified" /\ UNCHANGED timeout
            /\ getter' = [getter EXCEPT ![g] = IF GivesUp(g) THEN "empty" ELSE "sleeping"]
            /\ robbed' = IF GivesUp(g) THEN robbed ELSE robbed \ {g}
  PROVE  QueueInv'
  <1>1. EntryInv' /\ Valid' = {} /\ UNCHANGED queueImpl
    <2>1. EntryInv' /\ Valid' = Valid \ {}
      BY PopKeepsEntries DEF QueueInv
    <2> QED
      BY <2>1 DEF Pop
  <1>2. GetterInv'
    BY <1>1 DEF QueueInv, GetterInv, EmptyOnlyIfRobbed, Notified, GivesUp
  <1>3. IsFiniteSet((Notified \ late)')
    BY QueueAssumption, FS_Subset DEF Notified
  <1>4. WakeInv'
    BY <1>1, <1>3, FS_EmptySet, FS_CardinalityType DEF WakeInv
  <1> QED
    BY <1>1, <1>2, <1>4 DEF QueueInv

(* What is removed, served in a batch or cleared; Rust wakes all sleepers   *)
(* when the queue is cleared.                                               *)
LEMMA LossKeeps ==
  ASSUME QueueInv, EntryInv', Valid' \subseteq Valid, UNCHANGED <<queueImpl, timeout, late>>,
         \/ UNCHANGED getter
         \/ queueImpl = "rust" /\ NotifyEveryone,
         \/ robbed' = robbed \cup Notified
         \/ Valid' = Valid /\ robbed' = robbed
         \/ queueImpl = "rust" /\ robbed' = robbed
  PROVE  QueueInv'
  <1>1. CASE UNCHANGED getter
    <2>1. Sleeping' = Sleeping /\ Notified' = Notified
      BY <1>1 DEF Sleeping, Notified
    <2>2. GetterInv'
      BY <1>1, <2>1 DEF QueueInv, GetterInv, EmptyOnlyIfRobbed, EntryInv
    <2>3. IsFiniteSet(Notified \ late)
      BY QueueAssumption, FS_Subset DEF Notified
    <2>4. WakeInv'
      BY <2>1, <2>3, FewerEntries DEF WakeInv, QueueInv
    <2> QED
      BY <2>2, <2>4 DEF QueueInv
  <1>2. CASE queueImpl = "rust" /\ NotifyEveryone
    <2>1. Sleeping' = {}
      BY <1>2 DEF NotifyEveryone, Sleeping
    <2>2. GetterInv'
      BY <1>2 DEF QueueInv, GetterInv, EmptyOnlyIfRobbed, NotifyEveryone, Sleeping
    <2> QED
      BY <2>1, <2>2 DEF QueueInv, WakeInv
  <1> QED
    BY <1>1, <1>2

(* Steps that leave the entries alone.                                      *)
LEMMA GetterKeeps ==
  ASSUME QueueInv, NEW g \in Getters, TimeIsUp(g) \/ RaiseEmpty(g) \/ ForgetPending(g)
  PROVE  QueueInv'
  <1>1. EntryInv' /\ Valid' = Valid /\ UNCHANGED queueImpl
    BY OthersKeepEntries DEF QueueInv, TimeIsUp, RaiseEmpty, ForgetPending, fates
  <1>2. GetterInv'
    <2> USE DEF QueueInv, GetterInv, EmptyOnlyIfRobbed, Notified
    <2>1. CASE TimeIsUp(g)
      BY <1>1, <2>1 DEF TimeIsUp
    <2>2. CASE RaiseEmpty(g)
      BY <1>1, <2>2 DEF RaiseEmpty
    <2>3. CASE ForgetPending(g)
      BY <1>1, <2>3 DEF ForgetPending
    <2> QED
      BY <2>1, <2>2, <2>3
  <1>3. Sleeping' \subseteq Sleeping /\ Notified \ late \subseteq (Notified \ late)'
    BY DEF Sleeping, Notified, TimeIsUp, RaiseEmpty, ForgetPending, QueueInv, GetterInv
  <1>4. IsFiniteSet((Notified \ late)')
    BY QueueAssumption, FS_Subset DEF Notified
  <1>5. WakeInv'
    BY <1>1, <1>3, <1>4, FewerEntries DEF WakeInv, QueueInv
  <1> QED
    BY <1>1, <1>2, <1>5 DEF QueueInv

-----------------------------------------------------------------------------
LEMMA QueueInvariant == QueueSpec => []QueueInv
  <1>1. ASSUME QueueInv, [QueueNext]_queueVars PROVE QueueInv'
    <2>1. ASSUME NEW e \in Entries, Put(e) \/ PutIfRoom(e) PROVE QueueInv'
      BY <1>1, <2>1, PutKeeps DEF Put, PutIfRoom
    <2>2. ASSUME NEW e \in Entries, CancelPending(e) \/ Remove(e) PROVE QueueInv'
      <3>1. EntryInv' /\ Valid' \subseteq Valid /\ (e \notin heap => Valid' = Valid)
        BY <1>1, <2>2, RemovalKeepsEntries DEF QueueInv
      <3>2. /\ UNCHANGED <<queueImpl, timeout, late, getter>>
            /\ robbed' = robbed \cup Notified \/ (e \notin heap /\ robbed' = robbed)
        BY <2>2 DEF CancelPending, Remove, Rob
      <3> QED
        BY <1>1, <3>1, <3>2, LossKeeps
    <2>3. ASSUME NEW S \in SUBSET Entries, PutBatch(S) PROVE QueueInv'
      <3>1. EntryInv' /\ Valid' = Valid \cup S /\ queueImpl = "rust"
        BY <1>1, <2>3, PushKeepsEntries DEF QueueInv, PutBatch
      <3>2. Sleeping' = {} /\ GetterInv'
        BY <1>1, <2>3, <3>1
        DEF PutBatch, Push, NotifyEveryone, Sleeping, QueueInv, GetterInv, EmptyOnlyIfRobbed
      <3> QED
        BY <3>1, <3>2 DEF QueueInv, WakeInv
    <2>4. ASSUME NEW S \in SUBSET Entries, GetBatch(S) PROVE QueueInv'
      <3>1. EntryInv' /\ Valid' \subseteq Valid /\ UNCHANGED <<queueImpl, timeout, late, getter>>
        BY <1>1, <2>4, PopKeepsEntries DEF QueueInv, GetBatch, Pop
      <3>2. queueImpl = "rust" /\ (robbed' = robbed \/ robbed' = robbed \cup Notified)
        BY <2>4 DEF GetBatch, Rob
      <3> QED
        BY <1>1, <3>1, <3>2, LossKeeps
    <2>5. ASSUME NEW g \in Getters, TimeIsUp(g) \/ RaiseEmpty(g) \/ ForgetPending(g) PROVE QueueInv'
      BY <1>1, <2>5, GetterKeeps
    <2>6. ASSUME NEW g \in Getters, Wake(g) PROVE QueueInv'
      BY <1>1, <2>6, TakeKeeps, NothingFound DEF Wake
    <2>7. ASSUME NEW g \in Getters, NEW t \in {"never", "some", "now"}, Get(g, t) PROVE QueueInv'
      BY <1>1, <2>7, TakeKeeps, NothingFound DEF Get
    <2>8. CASE ClearQueue
      <3>1. EntryInv' /\ Valid' = {}
        BY <1>1, <2>8, ClearKeepsEntries DEF QueueInv
      <3>2. /\ UNCHANGED <<queueImpl, timeout, late>>
            /\ UNCHANGED getter \/ (queueImpl = "rust" /\ NotifyEveryone)
            /\ robbed' = robbed \cup Notified \/ (Valid = {} /\ robbed' = robbed)
        BY <2>8 DEF ClearQueue, Rob
      <3> QED
        BY <1>1, <3>1, <3>2, LossKeeps
    <2>9. CASE UNCHANGED queueVars
      BY <1>1, <2>9 DEF queueVars, getting, fates, QueueInv, EntryInv, EachServedOnce, Out, Valid,
         GetterInv, EmptyOnlyIfRobbed, Notified, WakeInv, Sleeping
    <2> QED
      BY <1>1, <2>1, <2>2, <2>3, <2>4, <2>5, <2>6, <2>7, <2>8, <2>9 DEF QueueNext
  <1> QED
    BY <1>1, QueueStart, PTL DEF QueueSpec

(* put, get, remove and clear: an entry is served once, or taken back.      *)
THEOREM ServedOnce == QueueSpec => []EachServedOnce
  <1>1. QueueInv => EachServedOnce
    BY DEF QueueInv, EntryInv
  <1> QED
    BY <1>1, QueueInvariant, PTL

(* get without a timeout fails only in Python, and only for a robbed getter.*)
THEOREM EmptyMeansRobbed == QueueSpec => []EmptyOnlyIfRobbed
  <1>1. QueueInv => EmptyOnlyIfRobbed
    BY DEF QueueInv, GetterInv
  <1> QED
    BY <1>1, QueueInvariant, PTL

(* The condition variable: no getter sleeps while entries wait that no      *)
(* other is on its way to.                                                  *)
THEOREM SleepersHaveNoWork == QueueSpec => []NoSleeperOnWork
  <1>1. QueueInv => NoSleeperOnWork
    <2> SUFFICES ASSUME QueueInv, Sleeping # {} PROVE Cardinality(Valid) <= Cardinality(Notified)
      BY DEF NoSleeperOnWork
    <2>1. IsFiniteSet(Notified)
      BY QueueAssumption, FS_Subset DEF Notified
    <2> QED
      BY <2>1, FewerEntries DEF QueueInv
  <1> QED
    BY <1>1, QueueInvariant, PTL

(* What QueueInv does not say of the types.                                 *)
Holdings ==
  /\ pending \subseteq entered /\ robbed \subseteq Getters
  /\ holding \in [Getters -> Entries \cup {NoEntry}]

LEMMA HoldingsKept ==
  ASSUME QueueInv, Holdings, [QueueNext]_queueVars
  PROVE  Holdings'
  <1> USE DEF Holdings, Notified
  <1>1. ASSUME NEW e \in Entries, Put(e) \/ PutIfRoom(e) PROVE Holdings'
    BY <1>1 DEF Put, PutIfRoom, Push
  <1>2. ASSUME NEW e \in Entries, CancelPending(e) \/ Remove(e) PROVE Holdings'
    BY <1>2 DEF CancelPending, Remove, Rob
  <1>3. ASSUME NEW S \in SUBSET Entries, PutBatch(S) \/ GetBatch(S) PROVE Holdings'
    BY <1>3 DEF PutBatch, Push, GetBatch, Pop, Rob
  <1>4. ASSUME NEW g \in Getters, TimeIsUp(g) \/ RaiseEmpty(g) \/ ForgetPending(g) PROVE Holdings'
    BY <1>4 DEF TimeIsUp, RaiseEmpty, ForgetPending, fates
  <1>5. ASSUME NEW g \in Getters, Take(g) PROVE Holdings'
    <2>1. Valid \subseteq Entries
      BY DEF QueueInv, EntryInv, Valid
    <2>2. PICK e \in Valid :
            /\ Pop({e}, FALSE)
            /\ holding' = [holding EXCEPT ![g] = IF queueImpl = "python" THEN e ELSE NoEntry]
            /\ robbed' = (robbed \cup Notified) \ {g}
      BY <1>5 DEF Take
    <2> QED
      BY <2>1, <2>2 DEF Pop
  <1>6. ASSUME NEW g \in Getters, Wake(g) PROVE Holdings'
    BY <1>5, <1>6 DEF Wake, Pop
  <1>7. ASSUME NEW g \in Getters, NEW t \in {"never", "some", "now"}, Get(g, t) PROVE Holdings'
    BY <1>5, <1>7 DEF Get, Pop
  <1>8. CASE ClearQueue
    BY <1>8 DEF ClearQueue, Rob
  <1>9. CASE UNCHANGED queueVars
    BY <1>9 DEF queueVars, getting, fates
  <1> QED
    BY <1>1, <1>2, <1>3, <1>4, <1>6, <1>7, <1>8, <1>9 DEF QueueNext

(* Every variable of the queues keeps its type: what is pending was         *)
(* entered, and what is marked is in the heap.                              *)
THEOREM QueueTypes == QueueSpec => []QueueTypeOK
  <1>1. QueueInv /\ Holdings => QueueTypeOK
    BY DEF QueueInv, EntryInv, EachServedOnce, Valid, GetterInv, Holdings, QueueTypeOK
  <1>2. QueueInit => Holdings
    BY DEF QueueInit, Holdings
  <1>3. QueueInv /\ Holdings /\ [QueueNext]_queueVars => Holdings'
    BY HoldingsKept
  <1> QED
    BY <1>1, <1>2, <1>3, QueueInvariant, PTL DEF QueueSpec
=============================================================================
