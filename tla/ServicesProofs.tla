---------------------------- MODULE ServicesProofs ----------------------------
(***************************************************************************)
(* What the update buffer, the task cancellation, the resource manager and  *)
(* the dependency managers promise, for any number of tasks, threads,       *)
(* updates and resources; the limits of the buffer and of the manager; and, *)
(* at the end, that all the components together keep what each promises.    *)
(***************************************************************************)
EXTENDS Services, TaskTimeoutProofs, ManagerLifecycleProofs, PriorityQueueProofs,
        FiniteSetTheorems, SequenceTheorems, WellFoundedInduction, TLAPS

-----------------------------------------------------------------------------
(* The update buffer.                                                       *)
BufferInv ==
  /\ buffer \in [Keys -> Nat] /\ underlying \in [Keys -> Nat]
  /\ newest \in [Keys -> Nat] /\ updates \in Nat
  /\ UpdatesLand

LEMMA BufferStart == BufferInit => BufferInv
  BY DEF BufferInit, BufferInv, UpdatesLand, Flushed, Empty

(* Whether the buffer is flushed before the update, after it or not at all, *)
(* the key's newest update is found and no other is lost.                   *)
LEMMA QueueKeeps ==
  ASSUME BufferInv, NEW p \in Producers, NEW k \in Keys, QueueUpdate(p, k)
  PROVE  BufferInv'
  <1> PICK aged \in BOOLEAN :
        LET buf == [(IF aged THEN Empty ELSE buffer) EXCEPT ![k] = updates + 1]
            base == IF aged THEN Flushed(buffer) ELSE underlying
        IN
        /\ EndUpdate(p, "queue", k)
        /\ \/ /\ buffer' = Empty /\ underlying' = [j \in Keys |-> IF buf[j] # 0 THEN buf[j] ELSE base[j]]
              /\ UNCHANGED tardy
           \/ /\ buffer' = buf /\ underlying' = base
              /\ tardy' = IF closed THEN tardy \cup {k} ELSE tardy
        /\ overtaken' = overtaken \ {k} /\ UNCHANGED closed
    BY DEF QueueUpdate
  <1>1. CASE aged
    BY <1>1 DEF BufferInv, UpdatesLand, Flushed, Empty, EndUpdate
  <1>2. CASE ~aged
    BY <1>2 DEF BufferInv, UpdatesLand, Flushed, Empty, EndUpdate
  <1> QED
    BY <1>1, <1>2

(* The other calls, and those that flush the buffer or close it.            *)
LEMMA BufferKeeps ==
  ASSUME BufferInv, [BufferNext]_bufferVars
  PROVE  BufferInv'
  <1>1. CASE \E p \in Producers, call \in {"queue", "sync"} : BeginUpdate(p, call)
    BY <1>1 DEF BeginUpdate, BufferInv, UpdatesLand, Flushed
  <1>2. CASE \E p \in Producers, k \in Keys : UpdateSync(p, k)
    BY <1>2 DEF UpdateSync, EndUpdate, BufferInv, UpdatesLand, Flushed
  <1>3. CASE Flush
    BY <1>3 DEF Flush, FlushAll, BufferInv, UpdatesLand, Flushed, Empty
  <1>4. CASE Close
    BY <1>4 DEF Close, FlushAll, BufferInv, UpdatesLand, Flushed, Empty
  <1>5. CASE UNCHANGED bufferVars
    BY <1>5 DEF bufferVars, BufferInv, UpdatesLand, Flushed
  <1> QED
    BY <1>1, <1>2, <1>3, <1>4, <1>5, QueueKeeps DEF BufferNext

(* BatchedStatusUpdater: no update is lost by its ways into the store, and  *)
(* after close the buffer keeps only those of calls that close overtook.    *)
THEOREM BufferedUpdatesLand == BufferSpec => []UpdatesLand
  <1>1. BufferInv => UpdatesLand
    BY DEF BufferInv
  <1>2. BufferInv /\ [BufferNext]_bufferVars => BufferInv'
    BY BufferKeeps
  <1> QED
    BY <1>1, <1>2, BufferStart, PTL DEF BufferSpec

(* The rest of its types: a key is buffered only while there is room.       *)
BufferBound ==
  /\ closed \in BOOLEAN /\ producer \in [Producers -> {"idle", "queue", "sync"}]
  /\ updates \in Numbers /\ overtaken \subseteq Keys /\ tardy \subseteq Keys
  /\ newest \in [Keys -> Numbers] /\ buffer \in [Keys -> Numbers] /\ underlying \in [Keys -> Numbers]
  /\ IsFiniteSet({k \in Keys : buffer[k] # 0})
  /\ Cardinality({k \in Keys : buffer[k] # 0}) < BufferSize

LEMMA EmptyBufferFits ==
  /\ Empty \in [Keys -> Numbers]
  /\ IsFiniteSet({k \in Keys : Empty[k] # 0})
  /\ Cardinality({k \in Keys : Empty[k] # 0}) < BufferSize
  <1>1. {k \in Keys : Empty[k] # 0} = {}
    BY DEF Empty
  <1>2. Cardinality({}) = 0 /\ IsFiniteSet({})
    BY FS_EmptySet
  <1>3. Empty \in [Keys -> Numbers]
    BY BufferAssumption DEF Empty, Numbers
  <1> QED
    BY <1>1, <1>2, <1>3, BufferAssumption

LEMMA BoundStart == BufferInit => BufferBound
  <1> SUFFICES ASSUME BufferInit PROVE BufferBound
    OBVIOUS
  <1>1. buffer = Empty /\ underlying = Empty /\ newest = Empty
    BY DEF BufferInit
  <1>2. /\ producer \in [Producers -> {"idle", "queue", "sync"}]
        /\ updates \in Numbers /\ overtaken \subseteq Keys /\ tardy \subseteq Keys
    BY BufferAssumption DEF BufferInit, Numbers
  <1>3. closed \in BOOLEAN
    BY Zenon DEF BufferInit
  <1> QED
    BY <1>1, <1>2, <1>3, EmptyBufferFits DEF BufferBound

LEMMA QueueKeepsBound ==
  ASSUME BufferBound, NEW p \in Producers, NEW k \in Keys, QueueUpdate(p, k)
  PROVE  BufferBound'
  <1> DEFINE before(aged) == IF aged THEN Empty ELSE buffer
             buf(aged) == [before(aged) EXCEPT ![k] = updates + 1]
             base(aged) == IF aged THEN Flushed(buffer) ELSE underlying
  <1>1. PICK aged \in BOOLEAN :
          /\ EndUpdate(p, "queue", k)
          /\ \/ /\ buffer' = Empty
                /\ underlying' = [j \in Keys |-> IF buf(aged)[j] # 0 THEN buf(aged)[j] ELSE base(aged)[j]]
                /\ UNCHANGED tardy
             \/ /\ ~Full(buf(aged)) /\ buffer' = buf(aged) /\ underlying' = base(aged)
                /\ tardy' \in {tardy, tardy \cup {k}}
          /\ overtaken' = overtaken \ {k} /\ UNCHANGED closed
    BY DEF QueueUpdate
  <1>2. /\ updates + 1 \in Numbers /\ updates + 1 # 0 /\ updates' \in Numbers
        /\ newest' \in [Keys -> Numbers] /\ producer' \in [Producers -> {"idle", "queue", "sync"}]
    BY <1>1, BufferAssumption DEF EndUpdate, BufferBound, Numbers
  <1>3. /\ before(aged) \in [Keys -> Numbers]
        /\ IsFiniteSet({j \in Keys : before(aged)[j] # 0})
    BY EmptyBufferFits DEF BufferBound
  <1> HIDE DEF before
  <1>4. buf(aged) \in [Keys -> Numbers] /\ base(aged) \in [Keys -> Numbers]
    BY <1>2, <1>3 DEF BufferBound, Flushed
  <1>5. IsFiniteSet({j \in Keys : buf(aged)[j] # 0})
    <2>1. {j \in Keys : buf(aged)[j] # 0} = {j \in Keys : before(aged)[j] # 0} \cup {k}
      BY <1>2, <1>3
    <2> QED
      BY <1>3, <2>1, FS_AddElement
  <1> HIDE DEF buf, base
  <1>6. ~Full(buf(aged)) => Cardinality({j \in Keys : buf(aged)[j] # 0}) < BufferSize
    BY <1>5, FS_CardinalityType, BufferAssumption DEF Full
  <1> QED
    BY <1>1, <1>2, <1>4, <1>5, <1>6, EmptyBufferFits DEF BufferBound

LEMMA BoundKept ==
  ASSUME BufferBound, [BufferNext]_bufferVars
  PROVE  BufferBound'
  <1>1. CASE \E p \in Producers, call \in {"queue", "sync"} : BeginUpdate(p, call)
    BY <1>1 DEF BeginUpdate, BufferBound
  <1>2. CASE \E p \in Producers, k \in Keys : UpdateSync(p, k)
    BY <1>2, BufferAssumption DEF UpdateSync, EndUpdate, BufferBound, Numbers
  <1>3. CASE Flush \/ Close
    <2>1. /\ buffer' = Empty /\ underlying' = Flushed(buffer) /\ closed' \in BOOLEAN
          /\ UNCHANGED <<producer, updates, newest, overtaken, tardy>>
      BY <1>3 DEF Flush, Close, FlushAll, BufferBound
    <2>2. Flushed(buffer) \in [Keys -> Numbers]
      BY DEF Flushed, BufferBound
    <2> QED
      BY <2>1, <2>2, EmptyBufferFits DEF BufferBound
  <1>4. CASE UNCHANGED bufferVars
    BY <1>4 DEF bufferVars, BufferBound
  <1> QED
    BY <1>1, <1>2, <1>3, <1>4, QueueKeepsBound DEF BufferNext

(* The buffer never holds buffer_size updates between two calls: the one    *)
(* that fills it flushes it.                                                *)
THEOREM BufferStaysBounded == BufferSpec => []BufferTypeOK
  <1>1. BufferBound => BufferTypeOK
    BY DEF BufferBound, BufferTypeOK
  <1>2. BufferBound /\ [BufferNext]_bufferVars => BufferBound'
    BY BoundKept
  <1> QED
    BY <1>1, <1>2, BoundStart, PTL DEF BufferSpec

-----------------------------------------------------------------------------
(* Task cancellation: what the manager knows are tasks under their own id,  *)
(* and those it has still to cancel are among them.                         *)
CancelInv ==
  /\ registry \in [TaskIds -> Cancellables \cup {NoTask}]
  /\ phase \in [Cancellables -> {"unborn", "idle", "started", "left", "completed", "skipped"}]
  /\ cancelling \subseteq TaskIds
  /\ \A i \in TaskIds : registry[i] # NoTask =>
       IdOf[registry[i]] = i /\ phase[registry[i]] # "unborn"
  /\ \A i \in cancelling : registry[i] # NoTask
  /\ early \subseteq flagged
  /\ CancelTakesEffect

LEMMA CancelStart == CancelInit => CancelInv
  BY CancellationAssumption DEF CancelInit, CancelInv, CancelTakesEffect

LEMMA CancelKeeps ==
  ASSUME CancelInv, [CancelNext]_cancelVars
  PROVE  CancelInv'
  <1> USE CancellationAssumption DEF CancelInv, CancelTakesEffect
  <1>1. ASSUME NEW o \in Cancellables, RegisterTask(o) PROVE CancelInv'
    <2> DEFINE i == IdOf[o]
    <2>1. i \in TaskIds /\ registry[i] # o /\ phase[o] = "unborn" /\ o # NoTask
      BY <1>1 DEF RegisterTask
    <2>2. /\ registry' = [registry EXCEPT ![i] = o] /\ phase' = [phase EXCEPT ![o] = "idle"]
          /\ cancelling = {} /\ replaced' = replaced \cup ({registry[i]} \ {NoTask})
          /\ UNCHANGED <<flagged, cancelling, early>>
      BY <1>1 DEF RegisterTask
    <2> HIDE DEF i
    <2>3. \A e \in early : e # o
      BY <2>1
    <2>4. ASSUME NEW q \in Cancellables, q # o, phase[q] # "unborn", registry'[IdOf[q]] # q
          PROVE  q \in flagged \/ phase[q] = "completed" \/ q \in replaced'
      BY <2>1, <2>2, <2>4
    <2>5. registry'[IdOf[o]] = o
      BY <2>1, <2>2 DEF i
    <2>6. CancelTakesEffect'
      BY <2>1, <2>2, <2>3, <2>4, <2>5
    <2>7. \A j \in TaskIds : registry'[j] # NoTask =>
            IdOf[registry'[j]] = j /\ phase'[registry'[j]] # "unborn"
      BY <2>1, <2>2, <2>5 DEF i
    <2> QED
      BY <2>1, <2>2, <2>6, <2>7
  <1>2. ASSUME NEW o \in Cancellables, Execute(o) \/ FuncEnds(o) \/ SetTaskCompleted(o)
        PROVE  CancelInv'
    <2>1. CASE Execute(o)
      BY <2>1 DEF Execute, StepTo
    <2>2. CASE FuncEnds(o)
      BY <2>2 DEF FuncEnds, StepTo
    <2>3. CASE SetTaskCompleted(o)
      BY <2>3 DEF SetTaskCompleted, StepTo
    <2> QED
      BY <1>2, <2>1, <2>2, <2>3
  <1>3. ASSUME NEW S \in SUBSET TaskIds, TakeCancelLock(S) PROVE CancelInv'
    BY <1>3 DEF TakeCancelLock
  <1>4. ASSUME NEW i \in TaskIds, LookAtTask(i) PROVE CancelInv'
    BY <1>4 DEF LookAtTask, Unregister
  <1>5. ASSUME NEW i \in TaskIds, SetTaskCancelled(i) PROVE CancelInv'
    BY <1>5 DEF SetTaskCancelled, Unregister
  <1>6. CASE UNCHANGED cancelVars
    BY <1>6 DEF cancelVars
  <1> HIDE DEF CancelInv
  <1> QED
    BY <1>1, <1>2, <1>3, <1>4, <1>5, <1>6 DEF CancelNext

(* cancel_task and cancel_all: a task cancelled in time never runs, and     *)
(* none runs on that the manager has forgotten.                             *)
THEOREM CancellationHolds == CancelSpec => []CancelTakesEffect
  <1>1. CancelInv => CancelTakesEffect
    BY DEF CancelInv
  <1>2. CancelInv /\ [CancelNext]_cancelVars => CancelInv'
    BY CancelKeeps
  <1> QED
    BY <1>1, <1>2, CancelStart, PTL DEF CancelSpec

LEMMA CancelTypesKept ==
  ASSUME CancelTypeOK, [CancelNext]_cancelVars
  PROVE  CancelTypeOK'
  <1> USE CancellationAssumption DEF CancelTypeOK
  <1>1. ASSUME NEW o \in Cancellables, RegisterTask(o) PROVE CancelTypeOK'
    BY <1>1 DEF RegisterTask
  <1>2. ASSUME NEW o \in Cancellables, Execute(o) \/ FuncEnds(o) \/ SetTaskCompleted(o)
        PROVE  CancelTypeOK'
    BY <1>2 DEF Execute, FuncEnds, SetTaskCompleted, StepTo
  <1>3. ASSUME NEW S \in SUBSET TaskIds, TakeCancelLock(S) PROVE CancelTypeOK'
    BY <1>3 DEF TakeCancelLock
  <1>4. ASSUME NEW i \in TaskIds, LookAtTask(i) PROVE CancelTypeOK'
    BY <1>4 DEF LookAtTask, Unregister
  <1>5. ASSUME NEW i \in TaskIds, SetTaskCancelled(i) PROVE CancelTypeOK'
    BY <1>5 DEF SetTaskCancelled, Unregister
  <1>6. CASE UNCHANGED cancelVars
    BY <1>6 DEF cancelVars
  <1> QED
    BY <1>1, <1>2, <1>3, <1>4, <1>5, <1>6 DEF CancelNext

(* TaskCancellationManager: every registered task has its token, and no     *)
(* token is left without a task.                                            *)
THEOREM TokensFollowTasks == CancelSpec => []CancelTypeOK
  <1>1. CancelInit => CancelTypeOK
    BY DEF CancelInit, CancelTypeOK
  <1>2. CancelTypeOK /\ [CancelNext]_cancelVars => CancelTypeOK'
    BY CancelTypesKept
  <1> QED
    BY <1>1, <1>2, PTL DEF CancelSpec

-----------------------------------------------------------------------------
(* The resource manager: an object is under its own id, has an owner while  *)
(* it is tracked, and is not tracked once another took its id.              *)
ResourceInv ==
  /\ resources \in [Ids -> Objects \cup {NoObject}]
  /\ taskResources \in [Owners -> SUBSET Ids]
  /\ owner \in [Objects -> Owners \cup {NoObject}] /\ cleanups \in [Objects -> Nat]
  /\ overwritten \subseteq Objects
  /\ \A i \in Ids : resources[i] # NoObject => IdFor[resources[i]] = i
  /\ \A o \in Objects :
       /\ o \in Tracked => owner[o] # NoObject /\ o \notin overwritten
       /\ owner[o] = NoObject => cleanups[o] = 0 /\ o \notin overwritten
  /\ ResourcesAccountedFor

LEMMA ResourceStart == ResourceInit => ResourceInv
  BY ResourceAssumption
  DEF ResourceInit, ResourceInv, ResourcesAccountedFor, Tracked

(* An object is tracked just in case its id names it.                       *)
LEMMA TrackedByItsId ==
  ASSUME ResourceInv, NEW o \in Objects
  PROVE  o \in Tracked <=> resources[IdFor[o]] = o
  BY ResourceAssumption DEF ResourceInv, Tracked

(* Any set of ids can be dropped, if the objects they name are cleaned up.  *)
LEMMA DropKeeps ==
  ASSUME ResourceInv, NEW I \in SUBSET Ids,
         cleanups' = CleanedUp(Objs(I)), resources' = DropIds(I),
         taskResources' \in [Owners -> SUBSET Ids],
         \A t \in Owners : taskResources[t] \ I \subseteq taskResources'[t],
         UNCHANGED <<owner, overwritten>>
  PROVE  ResourceInv'
  <1>1. ASSUME NEW o \in Objects
        PROVE  /\ o \in Tracked' <=> o \in Tracked /\ IdFor[o] \notin I
               /\ o \in Objs(I) <=> o \in Tracked /\ IdFor[o] \in I
    BY ResourceAssumption DEF ResourceInv, Tracked, DropIds, Objs
  <1>2. \A o \in Objects : cleanups'[o] = IF o \in Objs(I) THEN cleanups[o] + 1 ELSE cleanups[o]
    BY DEF CleanedUp
  <1>3. /\ cleanups' \in [Objects -> Nat]
        /\ resources' \in [Ids -> Objects \cup {NoObject}]
        /\ \A i \in Ids : resources'[i] # NoObject => IdFor[resources'[i]] = i
    BY DEF CleanedUp, DropIds, ResourceInv
  <1>4. ResourcesAccountedFor'
    BY <1>1, <1>2, ResourceAssumption DEF ResourcesAccountedFor, ResourceInv
  <1>5. ASSUME NEW o \in Objects
        PROVE  /\ o \in Tracked' => owner'[o] # NoObject /\ o \notin overwritten'
               /\ owner'[o] = NoObject => cleanups'[o] = 0 /\ o \notin overwritten'
    BY <1>1, <1>2 DEF ResourceInv
  <1> QED
    BY <1>3, <1>4, <1>5 DEF ResourceInv

(* register_resource: the oldest make room, and what had the id goes.       *)
LEMMA RegisterKeeps ==
  ASSUME ResourceInv, NEW t \in Owners, NEW o \in Objects, RegisterResource(t, o)
  PROVE  ResourceInv'
  <1> DEFINE i == IdFor[o]
             gone == {IdFor[d] : d \in Evicted}
  <1>1. Evicted \subseteq Tracked /\ Tracked \subseteq Objects
    BY DEF Evicted, Least, Tracked, ResourceInv
  <1>2. /\ owner[o] = NoObject /\ owner' = [owner EXCEPT ![o] = t]
        /\ cleanups' = CleanedUp(Evicted)
        /\ overwritten' = overwritten \cup (Objs({i}) \ Evicted)
        /\ resources' = [DropIds(gone) EXCEPT ![i] = o]
        /\ taskResources' = [Unlisted(gone) EXCEPT ![t] = @ \cup {i}]
    BY DEF RegisterResource
  <1>3. o \notin Tracked /\ cleanups[o] = 0 /\ o \notin overwritten /\ i \in Ids /\ o # NoObject /\ t # NoObject
    BY <1>2, ResourceAssumption DEF ResourceInv
  <1>4. gone \subseteq Ids
    BY <1>1, ResourceAssumption
  <1>5. ASSUME NEW d \in Objects
        PROVE  /\ IdFor[d] \in gone /\ d \in Tracked => d \in Evicted
               /\ d \in Objs({i}) <=> d \in Tracked /\ IdFor[d] = i
    BY <1>1, <1>3, ResourceAssumption, TrackedByItsId DEF ResourceInv, Tracked, Objs
  <1>6. \A j \in Ids : resources'[j] = IF j = i THEN o ELSE IF j \in gone THEN NoObject ELSE resources[j]
    BY <1>2, <1>3 DEF DropIds, ResourceInv
  <1>7. /\ resources' \in [Ids -> Objects \cup {NoObject}]
        /\ taskResources' \in [Owners -> SUBSET Ids]
        /\ owner' \in [Objects -> Owners \cup {NoObject}] /\ cleanups' \in [Objects -> Nat]
        /\ overwritten' \subseteq Objects
    BY <1>1, <1>2, <1>3, <1>4, ResourceAssumption
    DEF DropIds, Unlisted, CleanedUp, Objs, ResourceInv
  <1>8. \A j \in Ids : resources'[j] # NoObject => IdFor[resources'[j]] = j
    BY <1>6 DEF ResourceInv
  <1>9. ASSUME NEW d \in Objects
        PROVE  d \in Tracked' <=> d = o \/ (d \in Tracked /\ d \notin Evicted /\ IdFor[d] # i)
    BY <1>1, <1>3, <1>5, <1>6, ResourceAssumption, TrackedByItsId DEF Tracked, ResourceInv
  <1>10. \A d \in Objects : cleanups'[d] = IF d \in Evicted THEN cleanups[d] + 1 ELSE cleanups[d]
    BY <1>2 DEF CleanedUp
  <1>11. \A u \in Owners, j \in Ids :
           j \in taskResources'[u] <=> (j \in taskResources[u] /\ j \notin gone) \/ (u = t /\ j = i)
    BY <1>2, <1>3 DEF Unlisted, ResourceInv
  <1>12. \A d \in Objects : owner'[d] = IF d = o THEN t ELSE owner[d]
    BY <1>2 DEF ResourceInv
  <1>13. \A d \in Objects :
           d \in overwritten' <=> d \in overwritten \/ (d \in Tracked /\ IdFor[d] = i /\ d \notin Evicted)
    BY <1>2, <1>5
  <1>14. ASSUME NEW d \in Objects
         PROVE  /\ d \in Tracked' => cleanups'[d] = 0 /\ IdFor[d] \in taskResources'[owner'[d]]
                /\ owner'[d] # NoObject /\ d \notin Tracked' \cup overwritten' => cleanups'[d] = 1
                /\ d \in overwritten' => cleanups'[d] = 0
                /\ d \in Tracked' => owner'[d] # NoObject /\ d \notin overwritten'
                /\ owner'[d] = NoObject => cleanups'[d] = 0 /\ d \notin overwritten'
    <2> HIDE DEF gone, i
    <2>1. IdFor[d] \in Ids
      BY ResourceAssumption
    <2>2. CASE d = o
      BY <1>1, <1>3, <1>9, <1>10, <1>11, <1>12, <1>13, <2>1, <2>2 DEF i
    <2>3. CASE d # o /\ d \in Evicted
      BY <1>1, <1>9, <1>10, <1>12, <1>13, <2>3 DEF ResourceInv, ResourcesAccountedFor
    <2>4. CASE d # o /\ d \notin Evicted
      BY <1>1, <1>5, <1>9, <1>10, <1>11, <1>12, <1>13, <2>1, <2>4 DEF ResourceInv, ResourcesAccountedFor
    <2> QED
      BY <2>2, <2>3, <2>4
  <1> HIDE DEF i, gone
  <1> QED
    BY <1>7, <1>8, <1>14 DEF ResourceInv, ResourcesAccountedFor

LEMMA ResourcesKept ==
  ASSUME ResourceInv, [ResourceNext]_resourceVars
  PROVE  ResourceInv'
  <1>1. ASSUME NEW i \in Ids, UnregisterResource(i) PROVE ResourceInv'
    <2>1. /\ cleanups' = CleanedUp(Objs({i})) /\ resources' = DropIds({i})
          /\ taskResources' = Unlisted({i}) /\ UNCHANGED <<owner, overwritten>>
      BY <1>1 DEF UnregisterResource, TrackedIds, Objs
    <2>2. /\ taskResources' \in [Owners -> SUBSET Ids]
          /\ \A t \in Owners : taskResources[t] \ {i} \subseteq taskResources'[t]
      BY <2>1 DEF Unlisted, ResourceInv
    <2> QED
      BY <2>1, <2>2, DropKeeps
  <1>2. ASSUME NEW t \in Owners, CleanupTask(t) PROVE ResourceInv'
    <2> DEFINE I == taskResources[t]
    <2>1. /\ cleanups' = CleanedUp(Objs(I)) /\ resources' = DropIds(I) /\ I \in SUBSET Ids
          /\ taskResources' = [taskResources EXCEPT ![t] = {}] /\ UNCHANGED <<owner, overwritten>>
      BY <1>2 DEF CleanupTask, ResourceInv
    <2>2. /\ taskResources' \in [Owners -> SUBSET Ids]
          /\ \A u \in Owners : taskResources[u] \ I \subseteq taskResources'[u]
      BY <2>1 DEF ResourceInv
    <2> QED
      BY <2>1, <2>2, DropKeeps
  <1>3. ASSUME PerformCleanup PROVE ResourceInv'
    <2>1. PICK S \in SUBSET Tracked :
            /\ cleanups' = CleanedUp(S)
            /\ resources' = DropIds({IdFor[o] : o \in S})
            /\ taskResources' = Unlisted({IdFor[o] : o \in S})
            /\ UNCHANGED <<owner, overwritten>>
      BY <1>3 DEF PerformCleanup
    <2> DEFINE I == {IdFor[o] : o \in S}
    <2>2. S \subseteq Objects /\ I \in SUBSET Ids
      BY ResourceAssumption DEF Tracked, ResourceInv
    <2>3. Objs(I) = S
      BY <2>2, ResourceAssumption, TrackedByItsId DEF Objs
    <2>4. /\ taskResources' \in [Owners -> SUBSET Ids]
          /\ \A u \in Owners : taskResources[u] \ I \subseteq taskResources'[u]
      BY <2>1 DEF ResourceInv, Unlisted
    <2> QED
      BY <2>1, <2>2, <2>3, <2>4, DropKeeps
  <1>4. CASE \/ \E t \in Owners : RegisterOwner(t)
             \/ \E o \in Objects : Ages(o)
             \/ StartLoop \/ StopLoop \/ LoopEnds \/ UNCHANGED resourceVars
    <2>1. UNCHANGED <<resources, taskResources, owner, cleanups, overwritten>>
      BY <1>4 DEF RegisterOwner, Ages, StartLoop, StopLoop, LoopEnds, resourceVars
    <2> QED
      BY <2>1 DEF ResourceInv, ResourcesAccountedFor, Tracked
  <1> QED
    BY <1>1, <1>2, <1>3, <1>4, RegisterKeeps DEF ResourceNext

(* TaskResourceManager: every resource is cleaned up once when it is        *)
(* dropped, never before, and the end of its task will find it.             *)
THEOREM ResourcesAreCleaned == ResourceSpec => []ResourcesAccountedFor
  <1>1. ResourceInv => ResourcesAccountedFor
    BY DEF ResourceInv
  <1>2. ResourceInv /\ [ResourceNext]_resourceVars => ResourceInv'
    BY ResourcesKept
  <1> QED
    BY <1>1, <1>2, ResourceStart, PTL DEF ResourceSpec

-----------------------------------------------------------------------------
(* The limit of the resource manager.  That an eviction removes something   *)
(* is where it could fail: it takes the least recently used, and there are  *)
(* least ones only because the objects registered so far have different     *)
(* places in the order.                                                     *)
Registered == {d \in Objects : owner[d] # NoObject}

ResourceBound ==
  /\ ResourceInv
  /\ listedTasks \subseteq Owners /\ stale \subseteq Objects
  /\ loop \in {"running", "stopping", "stopped"}
  /\ \A t \in Owners : taskResources[t] # {} => t \in listedTasks
  /\ IsFiniteSet(Registered)
  /\ order \in [Objects -> Nat]
  /\ \A d \in Registered : order[d] <= Cardinality(Registered)
  /\ \A d, e \in Registered : order[d] = order[e] => d = e
  /\ Cardinality(Tracked) <= MaxResources

(* Every set of natural numbers has a least one.                            *)
LEMMA LeastNat ==
  ASSUME NEW T \in SUBSET Nat, T # {}
  PROVE  \E x \in T : \A y \in T : x <= y
  <1> DEFINE R == {ss \in Nat \X Nat : ss[1] < ss[2]}
  <1>1. IsWellFoundedOn(R, Nat)
    BY NatLessThanWellFounded, Zenon DEF OpToRel
  <1>2. ASSUME NEW x \in Nat, NEW y \in Nat, y < x PROVE <<y, x>> \in R
    BY <1>2
  <1> HIDE DEF R
  <1>3. PICK x \in T : \A y \in T : ~ (<<y, x>> \in R)
    BY <1>1, WFMin
  <1>4. ASSUME NEW y \in T PROVE x <= y
    <2>1. ~ (y < x)
      BY <1>2, <1>3
    <2> QED
      BY <2>1
  <1> QED
    BY <1>4

(* Of registered objects there is always one that was registered last.      *)
LEMMA LatestExists ==
  ASSUME ResourceBound, NEW D \in SUBSET Registered, D # {}
  PROVE  \E m \in D : \A d \in D : order[d] <= order[m]
  <1> DEFINE T == {k \in Nat : \A d \in D : order[d] <= k}
  <1>1. D \subseteq Objects /\ \A d \in D : order[d] \in Nat
    BY DEF ResourceBound, Registered
  <1>2. Cardinality(Registered) \in T
    BY FS_CardinalityType DEF ResourceBound
  <1>3. PICK k \in T : \A y \in T : k <= y
    BY <1>2, LeastNat
  <1>4. ASSUME \A d \in D : order[d] # k PROVE FALSE
    <2>1. PICK d \in D : TRUE
      OBVIOUS
    <2>2. k > 0 /\ k - 1 \in Nat
      BY <1>1, <1>3, <1>4, <2>1
    <2>3. k - 1 \in T
      BY <1>1, <1>3, <1>4, <2>2
    <2> QED
      BY <1>3, <2>2, <2>3
  <1> QED
    BY <1>3, <1>4

(* There are n least recently used: take the smallest set that is closed    *)
(* downwards and large enough, and if it is too large leave out its last.   *)
LEMMA OldestExist ==
  ASSUME ResourceBound, NEW S \in SUBSET Registered, S # {}, NEW n \in Nat \ {0}
  PROVE  UNION Least(S, n) # {}
  <1> DEFINE m == IF Cardinality(S) < n THEN Cardinality(S) ELSE n
             Older(D) == \A d \in D, o \in S \ D : order[d] < order[o]
             Sizes == {k \in Nat : \E D \in SUBSET S : Older(D) /\ k >= m /\ Cardinality(D) = k}
  <1>1. IsFiniteSet(S) /\ \A D \in SUBSET S : IsFiniteSet(D) /\ Cardinality(D) \in Nat
    BY FS_Subset, FS_CardinalityType DEF ResourceBound
  <1>2. m \in Nat \ {0} /\ m <= Cardinality(S)
    BY <1>1, FS_EmptySet
  <1> HIDE DEF m
  <1>3. Cardinality(S) \in Sizes
    BY <1>1, <1>2
  <1>4. PICK k \in Sizes : \A y \in Sizes : k <= y
    BY <1>3, LeastNat
  <1>5. PICK D \in SUBSET S : Older(D) /\ k >= m /\ Cardinality(D) = k
    BY <1>4
  <1>6. D # {} /\ IsFiniteSet(D) /\ k \in Nat
    BY <1>1, <1>2, <1>4, <1>5, FS_EmptySet
  <1>7. ASSUME k # m PROVE FALSE
    <2>1. PICK last \in D : \A d \in D : order[d] <= order[last]
      BY <1>6, LatestExists
    <2>2. \A d \in D \ {last} : order[d] < order[last]
      BY <2>1 DEF ResourceBound, Registered
    <2>3. Older(D \ {last})
      BY <1>5, <2>1, <2>2 DEF ResourceBound, Registered
    <2>4. Cardinality(D \ {last}) = k - 1 /\ D \ {last} \in SUBSET S
      BY <1>5, <1>6, <2>1, FS_RemoveElement
    <2>5. k - 1 \in Nat /\ k - 1 >= m
      BY <1>2, <1>5, <1>6, <1>7
    <2> HIDE DEF Older
    <2>6. k - 1 \in Sizes
      BY <2>3, <2>4, <2>5
    <2> QED
      BY <1>4, <1>6, <2>6
  <1>8. D \in Least(S, n)
    BY <1>5, <1>7 DEF Least, m
  <1> QED
    BY <1>6, <1>8

LEMMA ResourceBoundStart == ResourceInit => ResourceBound
  <1> SUFFICES ASSUME ResourceInit PROVE ResourceBound
    OBVIOUS
  <1>1. Registered = {} /\ Tracked = {}
    BY DEF ResourceInit, Registered, Tracked
  <1> QED
    BY <1>1, ResourceStart, ResourceAssumption, FS_EmptySet DEF ResourceInit, ResourceBound

(* Whatever is tracked was registered.                                      *)
LEMMA TrackedWasRegistered ==
  ASSUME ResourceBound
  PROVE  Tracked \subseteq Registered /\ IsFiniteSet(Tracked) /\ Cardinality(Tracked) \in Nat
  <1>1. Tracked \subseteq Registered
    BY DEF ResourceBound, ResourceInv, Tracked, Registered
  <1> QED
    BY <1>1, FS_Subset, FS_CardinalityType DEF ResourceBound

(* register_resource: an eviction makes room for the new one.               *)
LEMMA RegisterKeepsBound ==
  ASSUME ResourceBound, NEW t \in Owners, NEW o \in Objects, RegisterResource(t, o)
  PROVE  ResourceBound'
  <1> DEFINE i == IdFor[o]
             gone == {IdFor[d] : d \in Evicted}
  <1>1. ResourceInv /\ ResourceInv'
    BY RegisterKeeps DEF ResourceBound
  <1>2. /\ owner[o] = NoObject /\ owner' = [owner EXCEPT ![o] = t]
        /\ resources' = [DropIds(gone) EXCEPT ![i] = o]
        /\ listedTasks' = listedTasks \cup {t}
        /\ taskResources' = [Unlisted(gone) EXCEPT ![t] = @ \cup {i}]
        /\ order' = [order EXCEPT ![o] = 1 + Cardinality(Registered)]
        /\ UNCHANGED <<stale, loop>>
    BY DEF RegisterResource, Registered
  <1>3. o \notin Registered /\ Registered' = Registered \cup {o}
    BY <1>1, <1>2, ResourceAssumption DEF Registered, ResourceInv
  <1>4. /\ IsFiniteSet(Registered') /\ Cardinality(Registered)' = Cardinality(Registered) + 1
        /\ Cardinality(Registered) \in Nat
    BY <1>3, FS_AddElement, FS_CardinalityType DEF ResourceBound
  <1>5. /\ \A d \in Registered : d # o /\ order'[d] = order[d] /\ order[d] \in Nat
        /\ order'[o] = Cardinality(Registered) + 1
    BY <1>2, <1>3, <1>4 DEF ResourceBound, Registered
  <1>6. /\ order' \in [Objects -> Nat]
        /\ \A d \in Registered' : order'[d] <= Cardinality(Registered)'
        /\ \A d, e \in Registered' : order'[d] = order'[e] => d = e
    <2>1. order' \in [Objects -> Nat]
      BY <1>2, <1>4 DEF ResourceBound
    <2>2. \A d \in Registered : order[d] <= Cardinality(Registered)
      BY DEF ResourceBound
    <2>3. \A d, e \in Registered : order[d] = order[e] => d = e
      BY DEF ResourceBound
    <2>4. \A d \in Registered' : order'[d] <= Cardinality(Registered)'
      BY <1>3, <1>4, <1>5, <2>2
    <2>5. \A d, e \in Registered' : order'[d] = order'[e] => d = e
      BY <1>3, <1>4, <1>5, <2>2, <2>3
    <2> QED
      BY <2>1, <2>4, <2>5
  <1>7. /\ listedTasks' \subseteq Owners
        /\ \A u \in Owners : taskResources'[u] # {} => u \in listedTasks'
    BY <1>2 DEF ResourceBound, ResourceInv, Unlisted
  <1>8. Tracked' \subseteq (Tracked \ Evicted) \cup {o}
    <2>1. i \in Ids /\ \A d \in Evicted : IdFor[d] \in gone
      BY ResourceAssumption
    <2>2. \A j \in Ids : resources'[j] = IF j = i THEN o ELSE IF j \in gone THEN NoObject ELSE resources[j]
      BY <1>1, <1>2, <2>1 DEF DropIds, ResourceInv
    <2> HIDE DEF gone, i
    <2>3. ASSUME NEW j \in Ids, resources'[j] # NoObject, resources'[j] # o
          PROVE  resources'[j] \in Tracked \ Evicted
      BY <1>1, <2>1, <2>2, <2>3 DEF Tracked, ResourceInv
    <2> QED
      BY <2>3 DEF Tracked
  <1>9. Cardinality(Tracked)' <= MaxResources
    <2> DEFINE kept == Tracked \ Evicted
    <2>1. kept \subseteq Tracked /\ IsFiniteSet(kept) /\ Cardinality(kept) \in Nat
      BY TrackedWasRegistered, FS_Subset, FS_CardinalityType
    <2>2. Cardinality(kept) < MaxResources
      <3>1. CASE Cardinality(Tracked) < MaxResources
        BY <2>1, <3>1, TrackedWasRegistered, ResourceAssumption, FS_Subset
      <3>2. CASE Cardinality(Tracked) >= MaxResources
        <4>1. Tracked # {}
          BY <3>2, FS_EmptySet, ResourceAssumption
        <4>2. Evicted # {} /\ Evicted \subseteq Tracked
          BY <3>2, <4>1, TrackedWasRegistered, OldestExist, ResourceAssumption DEF Evicted, Least
        <4>3. kept # Tracked
          BY <4>2
        <4> QED
          BY <2>1, <4>3, TrackedWasRegistered, FS_Subset, ResourceAssumption DEF ResourceBound
      <3> QED
        BY <3>1, <3>2, TrackedWasRegistered, ResourceAssumption
    <2> HIDE DEF kept
    <2>3. /\ IsFiniteSet(kept \cup {o})
          /\ Cardinality(kept \cup {o}) \in Nat /\ Cardinality(kept \cup {o}) <= MaxResources
      <3>1. /\ IsFiniteSet(kept \cup {o})
            /\ Cardinality(kept \cup {o}) = IF o \in kept THEN Cardinality(kept) ELSE Cardinality(kept) + 1
        BY <2>1, FS_AddElement, Zenon
      <3> QED
        BY <2>1, <2>2, <3>1, ResourceAssumption
    <2>4. /\ Cardinality(Tracked') <= Cardinality(kept \cup {o})
          /\ Cardinality(Tracked') \in Nat
      BY <1>8, <2>3, FS_Subset, FS_CardinalityType DEF kept
    <2> QED
      BY <2>3, <2>4, ResourceAssumption
  <1> QED
    BY <1>1, <1>2, <1>4, <1>6, <1>7, <1>9 DEF ResourceBound

(* The other operations register nothing and track nothing new.             *)
LEMMA DropKeepsBound ==
  ASSUME ResourceBound, ResourceInv', UNCHANGED <<owner, order>>,
         Tracked' \subseteq Tracked,
         listedTasks' \subseteq Owners, stale' \subseteq Objects,
         loop' \in {"running", "stopping", "stopped"},
         \A t \in Owners : taskResources'[t] # {} => t \in listedTasks'
  PROVE  ResourceBound'
  <1>1. Registered' = Registered
    BY DEF Registered
  <1>2. Cardinality(Tracked') <= Cardinality(Tracked) /\ Cardinality(Tracked') \in Nat
    BY TrackedWasRegistered, FS_Subset, FS_CardinalityType
  <1>3. Cardinality(Tracked') <= MaxResources
    BY <1>2, TrackedWasRegistered, ResourceAssumption DEF ResourceBound
  <1> QED
    BY <1>1, <1>3 DEF ResourceBound

LEMMA ResourceBoundKept ==
  ASSUME ResourceBound, [ResourceNext]_resourceVars
  PROVE  ResourceBound'
  <1>1. ResourceInv /\ ResourceInv'
    BY ResourcesKept DEF ResourceBound
  <1>2. /\ listedTasks \subseteq Owners /\ stale \subseteq Objects
        /\ loop \in {"running", "stopping", "stopped"}
        /\ taskResources \in [Owners -> SUBSET Ids] /\ resources \in [Ids -> Objects \cup {NoObject}]
        /\ \A t \in Owners : taskResources[t] # {} => t \in listedTasks
    BY DEF ResourceBound, ResourceInv
  <1>3. ASSUME NEW I, resources' = DropIds(I) PROVE Tracked' \subseteq Tracked
    BY <1>3 DEF DropIds, Tracked
  <1>4. ASSUME NEW i \in Ids, UnregisterResource(i) PROVE ResourceBound'
    <2>1. /\ resources' = DropIds({i}) /\ taskResources' = Unlisted({i})
          /\ UNCHANGED <<owner, order, listedTasks, stale, loop>>
      BY <1>4 DEF UnregisterResource
    <2>2. \A t \in Owners : taskResources'[t] # {} => t \in listedTasks'
      BY <1>2, <2>1 DEF Unlisted
    <2> QED
      BY <1>1, <1>2, <1>3, <2>1, <2>2, DropKeepsBound
  <1>5. ASSUME NEW t \in Owners, CleanupTask(t) PROVE ResourceBound'
    <2>1. /\ resources' = DropIds(taskResources[t])
          /\ taskResources' = [taskResources EXCEPT ![t] = {}]
          /\ listedTasks' = listedTasks \ {t}
          /\ UNCHANGED <<owner, order, stale, loop>>
      BY <1>5 DEF CleanupTask
    <2>2. \A u \in Owners : taskResources'[u] # {} => u \in listedTasks'
      BY <1>2, <2>1
    <2> QED
      BY <1>1, <1>2, <1>3, <2>1, <2>2, DropKeepsBound
  <1>6. ASSUME PerformCleanup PROVE ResourceBound'
    <2>1. PICK S : /\ resources' = DropIds({IdFor[o] : o \in S})
                   /\ taskResources' = Unlisted({IdFor[o] : o \in S})
                   /\ UNCHANGED <<owner, order, listedTasks, stale, loop>>
      BY <1>6 DEF PerformCleanup
    <2>2. \A t \in Owners : taskResources'[t] # {} => t \in listedTasks'
      BY <1>2, <2>1 DEF Unlisted
    <2>3. Tracked' \subseteq Tracked
      BY <1>3, <2>1
    <2> QED
      BY <1>1, <1>2, <2>1, <2>2, <2>3, DropKeepsBound
  <1>7. CASE \/ \E t \in Owners : RegisterOwner(t)
             \/ \E o \in Objects : Ages(o)
             \/ StartLoop \/ StopLoop \/ LoopEnds \/ UNCHANGED resourceVars
    <2>1. /\ UNCHANGED <<resources, taskResources, owner, order>>
          /\ listedTasks \subseteq listedTasks' /\ listedTasks' \subseteq Owners
          /\ stale' \subseteq Objects /\ loop' \in {"running", "stopping", "stopped"}
      BY <1>2, <1>7 DEF RegisterOwner, Ages, StartLoop, StopLoop, LoopEnds, resourceVars
    <2>2. Tracked' = Tracked
      BY <2>1 DEF Tracked
    <2>3. \A t \in Owners : taskResources'[t] # {} => t \in listedTasks'
      BY <1>2, <2>1
    <2> QED
      BY <1>1, <2>1, <2>2, <2>3, DropKeepsBound
  <1> QED
    BY <1>4, <1>5, <1>6, <1>7, RegisterKeepsBound DEF ResourceNext

(* TaskResourceManager never tracks more than max_tracked resources: one    *)
(* that is registered at the limit makes the oldest go first, and there is  *)
(* always an oldest.                                                        *)
THEOREM TrackingIsBounded == ResourceSpec => []ResourceTypeOK
  <1>1. ResourceBound => ResourceTypeOK
    BY DEF ResourceBound, ResourceInv, ResourceTypeOK, TrackedIds
  <1>2. ResourceBound /\ [ResourceNext]_resourceVars => ResourceBound'
    BY ResourceBoundKept
  <1> QED
    BY <1>1, <1>2, ResourceBoundStart, PTL DEF ResourceSpec

-----------------------------------------------------------------------------
(* The dependency managers: a dependency is gone from a task's set only     *)
(* when it is completed, in Rust never.                                     *)
GraphInv ==
  /\ completed = finished /\ (graphImpl \in {"python", "rust"})
  /\ dependencies \in [Names -> SUBSET Names] /\ wanted \in [Names -> SUBSET Names]
  /\ \A n \in Names : dependencies[n] \subseteq wanted[n]
  /\ \A n \in Names : wanted[n] \ dependencies[n] \subseteq completed
  /\ graphImpl = "rust" => dependencies = wanted

LEMMA GraphStart == GraphInit => GraphInv
  BY DEF GraphInit, GraphInv, NoEdges

LEMMA GraphKeeps ==
  ASSUME GraphInv, [GraphNext]_graphVars
  PROVE  GraphInv'
  <1> USE DEF GraphInv
  <1>1. ASSUME NEW n \in Names, NEW D \in SUBSET Names, AddDependency(n, D) PROVE GraphInv'
    BY <1>1 DEF AddDependency, With
  <1>2. ASSUME NEW n \in Names, MarkCompleted(n) PROVE GraphInv'
    BY <1>2 DEF MarkCompleted
  <1>3. ASSUME NEW n \in Names, NEW d \in Names, RemoveDependency(n, d) PROVE GraphInv'
    BY <1>3 DEF RemoveDependency
  <1>4. CASE ClearGraph
    BY <1>4 DEF ClearGraph, NoEdges
  <1>5. CASE ResetCompleted
    BY <1>5 DEF ResetCompleted
  <1>6. CASE GetReadyTasks \/ UNCHANGED graphVars \/ \E n \in Names : MarkFailed(n)
    BY <1>6 DEF GetReadyTasks, graphVars, MarkFailed
  <1> QED
    BY <1>1, <1>2, <1>3, <1>4, <1>5, <1>6 DEF GraphNext

(* is_ready of both dependency managers: a task is ready just if everything *)
(* it was made to depend on, and still is, has completed, whichever of the  *)
(* two was first and whatever was removed, reset or cleared in between.     *)
THEOREM ReadinessIsTrue == GraphSpec => []ReadyAnswers
  <1>1. GraphInv /\ [GraphNext]_graphVars => GraphInv'
    BY GraphKeeps
  <1>2. GraphInv => ReadyAnswers
    BY DEF GraphInv, ReadyAnswers, IsReady
  <1> QED
    BY <1>1, <1>2, GraphStart, PTL DEF GraphSpec

LEMMA GraphTypesKept ==
  ASSUME GraphTypeOK, [GraphNext]_graphVars
  PROVE  GraphTypeOK'
  <1> USE GraphAssumption DEF GraphTypeOK
  <1>1. ASSUME NEW n \in Names, NEW D \in SUBSET Names, AddDependency(n, D) PROVE GraphTypeOK'
    BY <1>1 DEF AddDependency, With
  <1>2. ASSUME NEW n \in Names, MarkCompleted(n) PROVE GraphTypeOK'
    BY <1>2 DEF MarkCompleted
  <1>3. ASSUME NEW n \in Names, NEW d \in Names, RemoveDependency(n, d) PROVE GraphTypeOK'
    <2>1. /\ dependencies' = [dependencies EXCEPT ![n] = @ \ {d}]
          /\ dependents' = [dependents EXCEPT ![d] = @ \ {n}]
          /\ UNCHANGED <<graphImpl, listed, completed, failed>>
      BY <1>3 DEF RemoveDependency
    <2>2. hung' \in BOOLEAN
      BY <1>3, Zenon DEF RemoveDependency
    <2> QED
      BY <2>1, <2>2
  <1>4. CASE ClearGraph
    BY <1>4 DEF ClearGraph, NoEdges
  <1>5. CASE ResetCompleted
    BY <1>5 DEF ResetCompleted
  <1>6. CASE GetReadyTasks \/ UNCHANGED graphVars \/ \E n \in Names : MarkFailed(n)
    BY <1>6 DEF GetReadyTasks, graphVars, MarkFailed
  <1> QED
    BY <1>1, <1>2, <1>3, <1>4, <1>5, <1>6 DEF GraphNext

(* The two dictionaries of a dependency manager mirror each other: whoever  *)
(* waits for a task is found when that task completes.                      *)
THEOREM DependentsAreFound == GraphSpec => []GraphTypeOK
  <1>1. GraphInit => GraphTypeOK
    BY DEF GraphInit, GraphTypeOK, NoEdges
  <1>2. GraphTypeOK /\ [GraphNext]_graphVars => GraphTypeOK'
    BY GraphTypesKept
  <1> QED
    BY <1>1, <1>2, PTL DEF GraphSpec

-----------------------------------------------------------------------------
(* The search for a cycle.  Its invariant is about two graphs: the links    *)
(* there ever were during the search, which make the way that was gone, and *)
(* those that were there always, of which it may miss none.                 *)

(* The tasks whose calls have returned.                                    *)
Settled == visited \ OnPath

(* What was there, is there, and is left to give.                           *)
Seen == \A n \in Nodes :
  /\ stage = "idle" => left[n] = {}
  /\ stage # "idle" => always[n] \subseteq sets[n] /\ sets[n] \subseteq ever[n] /\ left[n] \subseteq ever[n]

(* No task is twice on the way, and each leads to those after it.           *)
Chained == stage # "idle" =>
  \A i, j \in DOMAIN path :
    /\ path[i] = path[j] => i = j
    /\ i < j => Reaches(ever, path[i], path[j])

(* The calls that have come to their loop.                                  *)
Looped(i) == i \in DOMAIN path /\ (i < Len(path) \/ stage \in {"looping", "no"})

(* The tasks that were left lead only to each other and to no cycle, and    *)
(* what a loop has given was left, or is searched now.                      *)
Searched == stage \in {"entering", "found", "looping", "no"} /\ ~blurred =>
  /\ Closed(always, Settled)
  /\ \A x \in Settled : ~Reaches(always, x, x)
  /\ \A i \in DOMAIN path : Looped(i) /\ path[i] \notin touched =>
       \A d \in always[path[i]] \ left[path[i]] : d \in Settled \/ (i < Len(path) /\ d = path[i + 1])

(* What an answer, or an error to come, rests on.                           *)
Answered ==
  /\ stage = "yes" => CycleFrom(ever, path[1])
  /\ touched # {} \/ stage = "raised" => changes > 0
  /\ stage = "found" /\ Top \notin keys => changes > 0
  /\ stage = "no" => Len(path) = 1 /\ held = {} /\ (~blurred => left[path[1]] = {} /\ path[1] \notin touched)

SearchInv == SearchTypeOK /\ Seen /\ Chained /\ Searched /\ Answered

(* A link leads one step on.                                                *)
LEMMA LinkReaches ==
  ASSUME NEW E, NEW n \in Nodes, NEW m \in E[n]
  PROVE  Reaches(E, n, m)
  BY DEF Reaches

LEMMA ReachesFurther ==
  ASSUME NEW E, NEW n \in Nodes, NEW k \in Nodes, NEW m \in E[k], Reaches(E, n, k)
  PROVE  Reaches(E, n, m)
  BY DEF Reaches, Closed

(* With more links, more is reached.                                        *)
LEMMA ReachesWithMore ==
  ASSUME NEW E, NEW F, \A x \in Nodes : E[x] \subseteq F[x],
         NEW n \in Nodes, NEW m, Reaches(E, n, m)
  PROVE  Reaches(F, n, m)
  <1> SUFFICES ASSUME NEW S \in SUBSET Nodes, F[n] \subseteq S, Closed(F, S) PROVE m \in S
    BY DEF Reaches
  <1>1. E[n] \subseteq S /\ Closed(E, S)
    BY DEF Closed
  <1> QED BY <1>1 DEF Reaches

LEMMA CycleWithMore ==
  ASSUME NEW E, NEW F, \A x \in Nodes : E[x] \subseteq F[x],
         NEW n \in Nodes, CycleFrom(E, n)
  PROVE  CycleFrom(F, n)
  <1>1. PICK d \in Nodes : (d = n \/ Reaches(E, n, d)) /\ Reaches(E, d, d)
    BY DEF CycleFrom
  <1>2. d = n \/ Reaches(F, n, d)
    BY <1>1, ReachesWithMore
  <1>3. Reaches(F, d, d)
    BY <1>1, ReachesWithMore
  <1> QED BY <1>2, <1>3 DEF CycleFrom

(* What is all left, without a cycle, and holds all that n is linked to,    *)
(* holds no cycle that n leads to.                                          *)
LEMMA NoCycleFrom ==
  ASSUME NEW E, NEW S \in SUBSET Nodes, NEW n \in Nodes \ S, E[n] \subseteq S, Closed(E, S),
         \A x \in S : ~Reaches(E, x, x)
  PROVE  ~CycleFrom(E, n) /\ ~Reaches(E, n, n)
  <1>1. \A m : Reaches(E, n, m) => m \in S
    BY DEF Reaches
  <1> QED BY <1>1 DEF CycleFrom

-----------------------------------------------------------------------------
(* A stack that is not empty.                                               *)
LEMMA SomeCalls ==
  ASSUME NEW s \in Seq(Nodes), Len(s) # 0
  PROVE  Len(s) \in Nat \ {0} /\ DOMAIN s = 1 .. Len(s) /\ s # <<>>
  OBVIOUS

LEMMA SearchStarts == SearchInit => SearchInv
  <1> SUFFICES ASSUME SearchInit PROVE SearchInv OBVIOUS
  <1> USE SearchAssumption DEF SearchInit, NoLinks
  <1>1. path \in Seq(Nodes) /\ OnPath = {}
    BY DEF OnPath
  <1>2. SearchTypeOK
    <2>1. 0 \in 0 .. MaxChanges
      OBVIOUS
    <2>2. /\ NoLinks \in [Nodes -> SUBSET Nodes] /\ [n \in Nodes |-> 0] \in [Nodes -> Nat]
          /\ \A n \in Nodes : sets[n] = {}
      OBVIOUS
    <2> HIDE SearchAssumption DEF NoLinks
    <2> QED BY <1>1, <2>1, <2>2 DEF SearchTypeOK
  <1>3. Seen /\ Chained /\ Searched /\ Answered
    BY DEF Seen, Chained, Searched, Answered
  <1> QED BY <1>2, <1>3 DEF SearchInv

(* The calls in progress, while there are any.                              *)
LEMMA TopIsNode ==
  ASSUME SearchTypeOK, stage # "idle"
  PROVE  /\ Len(path) \in Nat \ {0} /\ Len(path) \in DOMAIN path /\ DOMAIN path = 1 .. Len(path)
         /\ Top \in Nodes /\ Top \in OnPath /\ Top = path[Len(path)]
         /\ \A i \in DOMAIN path : path[i] \in Nodes /\ path[i] \in OnPath /\ path[i] \in visited
  <1>1. path \in Seq(Nodes) /\ path # <<>> /\ OnPath \subseteq visited
    BY DEF SearchTypeOK
  <1>2. Len(path) \in Nat \ {0} /\ DOMAIN path = 1 .. Len(path)
    BY <1>1
  <1>3. \A i \in DOMAIN path : path[i] \in Nodes /\ path[i] \in OnPath
    BY <1>1, <1>2 DEF OnPath
  <1> QED BY <1>1, <1>2, <1>3 DEF Top

(* A call of the search for d.                                              *)
LEMMA CallPushes ==
  ASSUME SearchTypeOK, stage # "idle", NEW d \in Nodes, path' = Append(path, d)
  PROVE  /\ path' \in Seq(Nodes) /\ path' # <<>> /\ Len(path') = Len(path) + 1
         /\ DOMAIN path' = 1 .. Len(path) + 1
         /\ \A i \in 1 .. Len(path) : path'[i] = path[i]
         /\ path'[Len(path) + 1] = d /\ OnPath' = OnPath \cup {d} /\ Top' = d
  <1>1. path \in Seq(Nodes) /\ Len(path) \in Nat /\ DOMAIN path = 1 .. Len(path)
    BY TopIsNode DEF SearchTypeOK
  <1>2. /\ path' \in Seq(Nodes) /\ path' # <<>> /\ Len(path') = Len(path) + 1
        /\ \A i \in 1 .. Len(path) : path'[i] = path[i]
        /\ path'[Len(path) + 1] = d
    BY <1>1, AppendProperties
  <1>3. DOMAIN path' = 1 .. Len(path) + 1
    BY <1>2, <1>1
  <1>4. OnPath' = OnPath \cup {d}
    <2>1. ASSUME NEW x \in OnPath' PROVE x \in OnPath \cup {d}
      <3>1. PICK i \in DOMAIN path' : x = path'[i]
        BY <2>1 DEF OnPath
      <3> QED BY <3>1, <1>1, <1>2, <1>3 DEF OnPath
    <2>2. ASSUME NEW x \in OnPath \cup {d} PROVE x \in OnPath'
      <3>1. CASE x = d
        BY <3>1, <1>1, <1>2, <1>3 DEF OnPath
      <3>2. CASE x \in OnPath
        <4>1. PICK i \in DOMAIN path : x = path[i]
          BY <3>2 DEF OnPath
        <4>2. i \in DOMAIN path' /\ path'[i] = x
          BY <4>1, <1>1, <1>2, <1>3
        <4> QED BY <4>2 DEF OnPath
      <3> QED BY <2>2, <3>1, <3>2
    <2> QED BY <2>1, <2>2
  <1>5. Top' = d
    BY <1>2 DEF Top
  <1> QED BY <1>2, <1>3, <1>4, <1>5

(* The innermost call returns to the one before it.                         *)
LEMMA CallReturns ==
  ASSUME SearchTypeOK, Chained, stage # "idle", Len(path) # 1,
         path' = SubSeq(path, 1, Len(path) - 1)
  PROVE  /\ path' \in Seq(Nodes) /\ path' # <<>> /\ Len(path') = Len(path) - 1
         /\ Len(path) - 1 \in Nat \ {0} /\ DOMAIN path' = 1 .. Len(path) - 1
         /\ \A i \in 1 .. Len(path) - 1 : path'[i] = path[i]
         /\ OnPath' = OnPath \ {Top}
  <1>1. path \in Seq(Nodes) /\ Len(path) \in Nat \ {0} /\ DOMAIN path = 1 .. Len(path)
        /\ \A i \in DOMAIN path : path[i] \in Nodes
    BY TopIsNode DEF SearchTypeOK
  <1>2. Len(path) - 1 \in Nat \ {0} /\ \A i \in 1 .. Len(path) - 1 : path[i] \in Nodes
    BY <1>1
  <1>3. /\ path' \in Seq(Nodes) /\ Len(path') = Len(path) - 1
        /\ \A i \in 1 .. Len(path) - 1 : path'[i] = path[i]
    <2> DEFINE k == Len(path) - 1
    <2>1. k \in Int /\ 1 \in Int /\ 1 <= k /\ k - 1 + 1 = k /\ \A i \in 1 .. k : path[i] \in Nodes
      BY <1>1, <1>2
    <2>2. path' = SubSeq(path, 1, k)
      OBVIOUS
    <2> HIDE DEF k
    <2>3. /\ SubSeq(path, 1, k) \in Seq(Nodes)
          /\ Len(SubSeq(path, 1, k)) = IF 1 <= k THEN k - 1 + 1 ELSE 0
          /\ \A i \in 1 .. k - 1 + 1 : SubSeq(path, 1, k)[i] = path[1 + i - 1]
      BY <2>1, SubSeqProperties
    <2>4. path' \in Seq(Nodes) /\ Len(path') = k /\ \A i \in 1 .. k : path'[i] = path[i]
      BY <2>1, <2>2, <2>3
    <2> QED BY <2>4 DEF k
  <1>4. DOMAIN path' = 1 .. Len(path) - 1 /\ path' # <<>>
    BY <1>2, <1>3, SomeCalls, Zenon
  <1>5. OnPath' = OnPath \ {Top}
    <2>1. ASSUME NEW x \in OnPath' PROVE x \in OnPath \ {Top}
      <3>1. PICK i \in DOMAIN path' : x = path'[i]
        BY <2>1 DEF OnPath
      <3>2. i \in DOMAIN path /\ x = path[i] /\ i # Len(path) /\ Len(path) \in DOMAIN path
        BY <3>1, <1>1, <1>3, <1>4
      <3>3. path[i] # path[Len(path)]
        BY <3>2 DEF Chained
      <3> QED BY <3>2, <3>3 DEF OnPath, Top
    <2>2. ASSUME NEW x \in OnPath \ {Top} PROVE x \in OnPath'
      <3>1. PICK i \in DOMAIN path : x = path[i]
        BY <2>2 DEF OnPath
      <3>2. i # Len(path)
        BY <2>2, <3>1 DEF Top
      <3>3. i \in DOMAIN path' /\ path'[i] = x
        BY <3>1, <3>2, <1>1, <1>3, <1>4
      <3> QED BY <3>3 DEF OnPath
    <2> QED BY <2>1, <2>2
  <1> QED BY <1>2, <1>3, <1>4, <1>5

-----------------------------------------------------------------------------
(* A change of the dict or of one set, which leaves the calls where they    *)
(* are.                                                                     *)
Changed ==
  /\ UNCHANGED <<stage, path, visited, blurred>>
  /\ Noted(sets')
  /\ held' \subseteq held /\ touched \subseteq touched' /\ touched' \subseteq touched \cup held
  /\ \A n \in Nodes : left'[n] = left[n] \/ (n \in touched' /\ left'[n] = sets'[n])

LEMMA LinkChanges ==
  ASSUME SearchTypeOK, NEW n \in Nodes, NEW D \in SUBSET Nodes, n \in keys, SetChanges(n, D)
  PROVE  SearchTypeOK' /\ Changed
  <1> USE SearchAssumption
  <1>1. /\ sets' = [sets EXCEPT ![n] = D]
        /\ left' = IF n \in held THEN [left EXCEPT ![n] = D] ELSE left
        /\ touched' = touched \cup (held \cap {n})
        /\ UNCHANGED <<keys, stage, path, visited, size, held, blurred>> /\ Noted(sets')
    BY DEF SetChanges
  <1>2. OnPath' = OnPath
    BY <1>1 DEF OnPath
  <1>3. /\ sets' \in [Nodes -> SUBSET Nodes] /\ left' \in [Nodes -> SUBSET Nodes]
        /\ sets'[n] = D /\ \A m \in Nodes : m # n => sets'[m] = sets[m] /\ left'[m] = left[m]
        /\ left'[n] = left[n] \/ (n \in touched' /\ left'[n] = D)
    BY <1>1 DEF SearchTypeOK
  <1>4. Changed
    BY <1>1, <1>3 DEF Changed
  <1>5. /\ ever' \in [Nodes -> SUBSET Nodes] /\ always' \in [Nodes -> SUBSET Nodes]
        /\ changes' \in 0 .. MaxChanges
    BY <1>1, <1>3 DEF Noted, SearchTypeOK
  <1>6. SearchTypeOK'
    BY <1>1, <1>2, <1>3, <1>5 DEF SearchTypeOK, Answers
  <1> QED BY <1>4, <1>6

LEMMA DictChanges ==
  ASSUME SearchTypeOK, ClearAll \/ \E n \in Nodes : EnterTask(n)
  PROVE  SearchTypeOK' /\ Changed
  <1> USE SearchAssumption
  <1>1. /\ UNCHANGED <<stage, path, visited, left, size, touched, blurred>>
        /\ held' \subseteq held /\ Noted(sets') /\ keys' \subseteq Nodes
        /\ sets' \in [Nodes -> SUBSET Nodes] /\ \A n \in Nodes : sets'[n] # {} => n \in keys'
    BY DEF ClearAll, EnterTask, NoLinks, SearchTypeOK, callVars
  <1>2. OnPath' = OnPath
    BY <1>1 DEF OnPath
  <1>3. Changed
    BY <1>1 DEF Changed
  <1>4. /\ ever' \in [Nodes -> SUBSET Nodes] /\ always' \in [Nodes -> SUBSET Nodes]
        /\ changes' \in 0 .. MaxChanges
    BY <1>1 DEF Noted, SearchTypeOK
  <1>5. SearchTypeOK'
    BY <1>1, <1>2, <1>4 DEF SearchTypeOK, Answers
  <1> QED BY <1>3, <1>5

(* Whatever the calls that hold the lock do, the search has lost nothing.   *)
LEMMA ChangeKeeps ==
  ASSUME SearchInv, SearchTypeOK', Changed
  PROVE  SearchInv'
  <1>1. SearchTypeOK /\ Seen /\ Chained /\ Searched /\ Answered
    BY DEF SearchInv
  <1>2. /\ UNCHANGED <<stage, path, visited, blurred>>
        /\ held' \subseteq held /\ touched \subseteq touched' /\ touched' \subseteq touched \cup held
        /\ \A n \in Nodes : left'[n] = left[n] \/ (n \in touched' /\ left'[n] = sets'[n])
    BY DEF Changed
  <1>3. OnPath' = OnPath /\ Top' = Top /\ Settled' = Settled
    BY <1>2 DEF OnPath, Top, Settled
  <1>4. CASE stage = "idle"
    <2>1. OnPath = {} /\ touched' = {}
      BY <1>1, <1>2, <1>4 DEF SearchTypeOK, OnPath
    <2> QED BY <1>2, <1>4, <2>1 DEF SearchInv, Seen, Chained, Searched, Answered
  <1>5. CASE stage # "idle"
    <2>1. /\ changes' = changes + 1 /\ changes \in Nat /\ changes' > 0
          /\ \A n \in Nodes : /\ ever[n] \subseteq ever'[n] /\ sets'[n] \subseteq ever'[n]
                              /\ always'[n] \subseteq always[n] /\ always'[n] \subseteq sets'[n]
      BY <1>1, <1>5, SearchAssumption DEF Changed, Noted, SearchTypeOK
    <2>2. Seen'
      BY <1>1, <1>2, <1>5, <2>1 DEF Seen
    <2>3. \A i \in DOMAIN path : path[i] \in Nodes /\ path[i] \in OnPath
      BY <1>1, <1>5, TopIsNode
    <2>4. Chained'
      <3>1. ASSUME NEW i \in DOMAIN path, NEW j \in DOMAIN path
            PROVE  /\ path[i] = path[j] => i = j
                   /\ i < j => Reaches(ever', path[i], path[j])
        BY <1>1, <1>5, <2>1, <2>3, ReachesWithMore DEF Chained
      <3> QED BY <1>2, <3>1 DEF Chained
    <2>5. Searched'
      <3> SUFFICES ASSUME stage \in {"entering", "found", "looping", "no"}, ~blurred PROVE Searched'
        BY <1>2 DEF Searched
      <3>1. Closed(always', Settled)
        BY <1>1, <2>1 DEF Searched, Closed, Settled, SearchTypeOK
      <3>2. ASSUME NEW x \in Settled PROVE ~Reaches(always', x, x)
        <4>1. x \in Nodes
          BY <1>1 DEF Settled, SearchTypeOK
        <4> QED BY <1>1, <2>1, <4>1, ReachesWithMore DEF Searched
      <3>3. ASSUME NEW i \in DOMAIN path, Looped(i), path[i] \notin touched',
                   NEW d \in always'[path[i]] \ left'[path[i]]
            PROVE  d \in Settled \/ (i < Len(path) /\ d = path[i + 1])
        <4>1. path[i] \notin touched /\ left'[path[i]] = left[path[i]]
          BY <1>2, <2>3, <3>3
        <4>2. d \in always[path[i]] \ left[path[i]]
          BY <2>1, <2>3, <4>1
        <4> QED BY <1>1, <3>3, <4>1, <4>2 DEF Searched
      <3>4. \A i : Looped(i)' <=> Looped(i)
        BY <1>2 DEF Looped
      <3> QED BY <1>2, <1>3, <3>1, <3>2, <3>3, <3>4 DEF Searched
    <2>6. Answered'
      <3>1. stage = "yes" => CycleFrom(ever', path[1])
        BY <1>1, <1>5, <2>1, <2>3, TopIsNode, CycleWithMore DEF Answered
      <3>2. stage = "no" => Len(path) = 1 /\ held' = {} /\ touched' = touched
        BY <1>1, <1>2 DEF Answered
      <3>3. stage = "no" /\ ~blurred => left'[path[1]] = {} /\ path[1] \notin touched'
        BY <1>1, <1>2, <1>5, <2>3, <3>2, TopIsNode DEF Answered
      <3> QED BY <1>2, <1>3, <2>1, <3>1, <3>2, <3>3 DEF Answered
    <2> QED BY <2>2, <2>4, <2>5, <2>6 DEF SearchInv
  <1> QED BY <1>4, <1>5

-----------------------------------------------------------------------------
(* The steps of the search.                                                 *)
LEMMA SearchBegins ==
  ASSUME SearchInv, NEW n \in Asked, BeginSearch(n)
  PROVE  SearchInv'
  <1> USE SearchAssumption
  <1>1. SearchTypeOK /\ Seen /\ n \in Nodes /\ stage = "idle"
    BY DEF SearchInv, BeginSearch
  <1>2. /\ path' = <<n>> /\ path' \in Seq(Nodes) /\ path' # <<>> /\ DOMAIN path' = {1} /\ path'[1] = n
        /\ visited' = {n} /\ stage' = "entering" /\ ever' = sets /\ always' = sets
        /\ UNCHANGED <<keys, sets, left, size, held, touched, blurred, changes>>
    BY <1>1 DEF BeginSearch
  <1>3. OnPath' = {n} /\ Settled' = {}
    BY <1>2 DEF OnPath, Settled
  <1>4. OnPath = {} /\ held = {} /\ touched = {}
    BY <1>1 DEF SearchTypeOK, OnPath
  <1>5. SearchTypeOK'
    BY <1>1, <1>2, <1>3, <1>4 DEF SearchTypeOK, Answers
  <1>6. Seen'
    BY <1>2, <1>1 DEF Seen, SearchTypeOK
  <1>7. Chained' /\ Searched' /\ Answered'
    BY <1>2, <1>3, <1>4 DEF Chained, Searched, Answered, Looped, Closed
  <1> QED BY <1>5, <1>6, <1>7 DEF SearchInv

LEMMA TaskFound ==
  ASSUME SearchInv, FindTask
  PROVE  SearchInv'
  <1>1. SearchTypeOK /\ Seen /\ Chained /\ Searched /\ Answered
    BY DEF SearchInv
  <1>2. /\ stage = "entering" /\ stage' = IF Top \in keys THEN "found" ELSE "looping"
        /\ UNCHANGED <<keys, sets, path, visited, left, size, held, touched, ever, always, blurred, changes>>
    BY DEF FindTask
  <1>3. OnPath' = OnPath /\ Top' = Top /\ Settled' = Settled
    BY <1>2 DEF OnPath, Top, Settled
  <1>4. SearchTypeOK'
    BY <1>1, <1>2, <1>3 DEF SearchTypeOK, Answers
  <1>5. Seen' /\ Chained' /\ Answered'
    BY <1>1, <1>2, <1>3 DEF Seen, Chained, Answered
  <1>6. Searched'
    <2>1. ASSUME NEW i \in DOMAIN path, Looped(i)', NEW d \in always[path[i]]
          PROVE  Looped(i)
      <3>1. CASE i < Len(path)
        BY <3>1 DEF Looped
      <3>2. CASE stage' = "looping"
        <4>1. Top \notin keys /\ Top \in Nodes
          BY <1>1, <1>2, <3>2, TopIsNode
        <4>2. always[Top] = {}
          BY <1>1, <1>2, <4>1 DEF Seen, SearchTypeOK
        <4>3. i # Len(path)
          BY <2>1, <4>2 DEF Top
        <4>4. Len(path) \in Nat /\ i \in 1 .. Len(path)
          BY <1>1, <1>2, TopIsNode
        <4> QED BY <4>3, <4>4 DEF Looped
      <3> QED BY <1>2, <2>1, <3>1, <3>2 DEF Looped
    <2> QED BY <1>1, <1>2, <1>3, <2>1 DEF Searched
  <1> QED BY <1>4, <1>5, <1>6 DEF SearchInv

LEMMA SetFetched ==
  ASSUME SearchInv, FetchSet
  PROVE  SearchInv'
  <1>1. SearchTypeOK /\ Seen /\ Chained /\ Searched /\ Answered
    BY DEF SearchInv
  <1>2. stage = "found" /\ UNCHANGED <<keys, sets, path, visited, touched, ever, always, blurred, changes>>
    BY DEF FetchSet
  <1>3. OnPath' = OnPath /\ Top' = Top /\ Settled' = Settled
    BY <1>2 DEF OnPath, Top, Settled
  <1>4. CASE Top \notin keys
    <2>1. stage' = "raised" /\ UNCHANGED <<left, size, held>>
      BY <1>4 DEF FetchSet
    <2>2. SearchTypeOK'
      BY <1>1, <1>2, <1>3, <2>1 DEF SearchTypeOK, Answers
    <2>3. Seen' /\ Chained' /\ Searched' /\ Answered'
      BY <1>1, <1>2, <1>3, <1>4, <2>1 DEF Seen, Chained, Searched, Answered
    <2> QED BY <2>2, <2>3 DEF SearchInv
  <1>5. CASE Top \in keys
    <2>1. /\ stage' = "looping" /\ held' = held \cup {Top}
          /\ left' = [left EXCEPT ![Top] = sets[Top]]
          /\ size' = [size EXCEPT ![Top] = Cardinality(sets[Top])]
      BY <1>5 DEF FetchSet
    <2>2. /\ Top \in Nodes /\ Top \in OnPath /\ Len(path) \in Nat /\ DOMAIN path = 1 .. Len(path)
          /\ \A i \in DOMAIN path : path[i] \in Nodes
      BY <1>1, <1>2, TopIsNode
    <2>3. Cardinality(sets[Top]) \in Nat
      BY <1>1, <2>2, SearchAssumption, FS_Subset, FS_CardinalityType DEF SearchTypeOK
    <2>4. left'[Top] = sets[Top] /\ \A n \in Nodes : n # Top => left'[n] = left[n]
      BY <1>1, <2>1, <2>2 DEF SearchTypeOK
    <2>5. SearchTypeOK'
      BY <1>1, <1>2, <1>3, <2>1, <2>2, <2>3 DEF SearchTypeOK, Answers
    <2>6. Seen' /\ Chained' /\ Answered'
      BY <1>1, <1>2, <1>3, <2>1, <2>2, <2>4 DEF Seen, Chained, Answered
    <2>7. Searched'
      <3>1. ASSUME NEW i \in DOMAIN path, NEW d \in always[path[i]] \ left'[path[i]]
            PROVE  Looped(i) /\ d \in always[path[i]] \ left[path[i]]
        <4>1. always[Top] \ left'[Top] = {}
          BY <1>1, <1>2, <2>2, <2>4 DEF Seen
        <4>2. i # Len(path) /\ path[i] # Top
          BY <3>1, <4>1 DEF Top
        <4> QED BY <2>2, <2>4, <3>1, <4>2 DEF Looped
      <3> QED BY <1>1, <1>2, <1>3, <3>1 DEF Searched
    <2> QED BY <2>5, <2>6, <2>7 DEF SearchInv
  <1> QED BY <1>4, <1>5

LEMMA LoopRaises ==
  ASSUME SearchInv, LoopFails
  PROVE  SearchInv'
  <1>1. SearchTypeOK /\ Seen /\ Chained /\ Searched /\ Answered
    BY DEF SearchInv
  <1>2. /\ stage = "looping" /\ stage' = "raised" /\ touched # {}
        /\ UNCHANGED <<keys, sets, path, visited, left, size, held, touched, ever, always, blurred, changes>>
    BY DEF LoopFails, WrongSize
  <1>3. OnPath' = OnPath /\ Top' = Top
    BY <1>2 DEF OnPath, Top
  <1>4. SearchTypeOK'
    BY <1>1, <1>2, <1>3 DEF SearchTypeOK, Answers
  <1>5. Seen' /\ Chained' /\ Searched' /\ Answered'
    BY <1>1, <1>2, <1>3 DEF Seen, Chained, Searched, Answered
  <1> QED BY <1>4, <1>5 DEF SearchInv

LEMMA AnswerTaken ==
  ASSUME SearchInv, EndSearch
  PROVE  SearchInv'
  <1> USE SearchAssumption
  <1>1. SearchTypeOK
    BY DEF SearchInv
  <1>2. /\ stage' = "idle" /\ path' = <<>> /\ visited' = {} /\ held' = {} /\ touched' = {}
        /\ left' = NoLinks /\ size' = [n \in Nodes |-> 0] /\ ever' = NoLinks /\ always' = NoLinks
        /\ blurred' = FALSE /\ changes' = 0 /\ UNCHANGED <<keys, sets>>
    BY DEF EndSearch
  <1>3. path' \in Seq(Nodes) /\ OnPath' = {}
    BY <1>2 DEF OnPath
  <1>4. SearchTypeOK'
    <2>1. /\ 0 \in 0 .. MaxChanges
          /\ NoLinks \in [Nodes -> SUBSET Nodes] /\ [n \in Nodes |-> 0] \in [Nodes -> Nat]
      BY DEF NoLinks
    <2> HIDE SearchAssumption
    <2> QED BY <1>1, <1>2, <1>3, <2>1 DEF SearchTypeOK
  <1>5. Seen' /\ Chained' /\ Searched' /\ Answered'
    BY <1>2 DEF Seen, Chained, Searched, Answered, NoLinks
  <1> QED BY <1>4, <1>5 DEF SearchInv

(* One dependency: it is on the way, and closes a cycle; or it was left     *)
(* before, and leads to none; or it is searched in turn.                    *)
LEMMA DependencySeen ==
  ASSUME SearchInv, NEW d \in Nodes, LookAt(d)
  PROVE  SearchInv'
  <1>1. SearchTypeOK /\ Seen /\ Chained /\ Searched /\ Answered
    BY DEF SearchInv
  <1>2. /\ stage = "looping" /\ blurred' = (blurred \/ Top \in touched) /\ d \in left[Top]
        /\ left' = IF Top \in touched THEN left ELSE [left EXCEPT ![Top] = @ \ {d}]
        /\ UNCHANGED <<keys, sets, size, held, touched, ever, always, changes>>
    BY DEF LookAt, GoesOn
  <1>3. /\ Len(path) \in Nat \ {0} /\ Len(path) \in DOMAIN path /\ DOMAIN path = 1 .. Len(path)
        /\ Top \in Nodes /\ Top \in OnPath /\ Top = path[Len(path)]
        /\ \A i \in DOMAIN path : path[i] \in Nodes /\ path[i] \in OnPath /\ path[i] \in visited
    BY <1>1, <1>2, TopIsNode
  <1>4. /\ left' \in [Nodes -> SUBSET Nodes]
        /\ \A n \in Nodes : left'[n] \subseteq left[n] /\ (n # Top => left'[n] = left[n])
        /\ Top \notin touched => left'[Top] = left[Top] \ {d}
    BY <1>1, <1>2, <1>3 DEF SearchTypeOK
  <1>5. d \in ever[Top]
    BY <1>1, <1>2, <1>3 DEF Seen
  <1>6. blurred' \in BOOLEAN
    BY <1>1, <1>2, Zenon DEF SearchTypeOK
  <1>7. \A i \in DOMAIN path : Reaches(ever, path[i], d)
    <2>1. ASSUME NEW i \in DOMAIN path PROVE Reaches(ever, path[i], d)
      <3>1. CASE i = Len(path)
        BY <1>3, <1>5, <3>1, LinkReaches
      <3>2. CASE i # Len(path)
        <4>1. i < Len(path)
          BY <1>3, <3>2
        <4>2. Reaches(ever, path[i], Top)
          BY <1>1, <1>2, <1>3, <4>1 DEF Chained
        <4> QED BY <1>3, <1>5, <4>2, ReachesFurther
      <3> QED BY <3>1, <3>2
    <2> QED BY <2>1
  (* What the loops have given, before this step and after it.                *)
  <1>8. ASSUME NEW i \in DOMAIN path, NEW e \in always[path[i]] \ left'[path[i]],
               ~blurred', path[i] \notin touched
        PROVE  e \in Settled \/ (i < Len(path) /\ e = path[i + 1]) \/ (i = Len(path) /\ e = d)
    <2>1. ~blurred /\ Looped(i)
      BY <1>2, <1>3, <1>8 DEF Looped
    <2>2. CASE e \notin left[path[i]]
      BY <1>1, <1>2, <1>8, <2>1, <2>2 DEF Searched
    <2>3. CASE e \in left[path[i]]
      <3>1. path[i] = Top /\ e = d
        BY <1>3, <1>4, <1>8, <2>3
      <3>2. i = Len(path)
        BY <1>1, <1>2, <1>3, <3>1 DEF Chained
      <3> QED BY <3>1, <3>2
    <2> QED BY <2>2, <2>3
  <1>9. CASE d \notin visited /\ stage' = "entering" /\ path' = Append(path, d) /\ visited' = visited \cup {d}
    <2>1. /\ path' \in Seq(Nodes) /\ path' # <<>> /\ Len(path') = Len(path) + 1
          /\ DOMAIN path' = 1 .. Len(path) + 1
          /\ \A i \in 1 .. Len(path) : path'[i] = path[i]
          /\ path'[Len(path) + 1] = d /\ OnPath' = OnPath \cup {d} /\ Top' = d
      BY <1>1, <1>2, <1>9, CallPushes
    <2>2. Settled' = Settled
      BY <1>9, <2>1 DEF Settled
    <2>3. SearchTypeOK'
      BY <1>1, <1>2, <1>4, <1>6, <1>9, <2>1 DEF SearchTypeOK, Answers
    <2>4. Seen'
      BY <1>1, <1>2, <1>4, <1>9 DEF Seen
    <2>5. Chained'
      <3>1. ASSUME NEW i \in DOMAIN path', NEW j \in DOMAIN path'
            PROVE  /\ path'[i] = path'[j] => i = j
                   /\ i < j => Reaches(ever, path'[i], path'[j])
        <4>1. CASE i \in DOMAIN path /\ j \in DOMAIN path
          BY <1>1, <1>2, <1>3, <2>1, <4>1 DEF Chained
        <4>2. CASE i \in DOMAIN path /\ j = Len(path) + 1
          BY <1>3, <1>7, <1>9, <2>1, <4>2
        <4>3. CASE i = Len(path) + 1 /\ j \in DOMAIN path
          BY <1>3, <1>9, <2>1, <4>3
        <4>4. CASE i = Len(path) + 1 /\ j = Len(path) + 1
          BY <1>3, <4>4
        <4> QED BY <1>3, <2>1, <3>1, <4>1, <4>2, <4>3, <4>4
      <3> QED BY <1>2, <3>1 DEF Chained
    <2>6. Searched'
      <3> SUFFICES ASSUME ~blurred' PROVE Searched'
        BY DEF Searched
      <3>1. ASSUME NEW i \in DOMAIN path', Looped(i)', path'[i] \notin touched,
                   NEW e \in always[path'[i]] \ left'[path'[i]]
            PROVE  e \in Settled \/ (i < Len(path') /\ e = path'[i + 1])
        <4>1. i \in DOMAIN path /\ path'[i] = path[i] /\ i < Len(path')
          BY <1>3, <1>9, <2>1, <3>1 DEF Looped
        <4>2. \/ e \in Settled \/ (i < Len(path) /\ e = path[i + 1])
              \/ (i = Len(path) /\ e = d)
          BY <1>8, <3>1, <4>1
        <4>3. i < Len(path) => path'[i + 1] = path[i + 1]
          BY <1>3, <2>1, <4>1
        <4> QED BY <2>1, <4>1, <4>2, <4>3
      <3>2. ~blurred
        BY <1>2
      <3> QED BY <1>1, <1>2, <1>9, <2>2, <3>1, <3>2 DEF Searched
    <2>7. Answered'
      BY <1>1, <1>2, <1>9 DEF Answered
    <2> QED BY <2>3, <2>4, <2>5, <2>6, <2>7 DEF SearchInv
  <1>10. CASE d \in OnPath /\ stage' = "yes" /\ UNCHANGED <<path, visited>>
    <2>1. OnPath' = OnPath
      BY <1>10 DEF OnPath
    <2>2. SearchTypeOK'
      BY <1>1, <1>2, <1>4, <1>6, <1>10, <2>1 DEF SearchTypeOK, Answers
    <2>3. Seen' /\ Chained'
      BY <1>1, <1>2, <1>4, <1>10 DEF Seen, Chained
    <2>4. CycleFrom(ever, path[1])
      <3>1. PICK i \in DOMAIN path : d = path[i]
        BY <1>10 DEF OnPath
      <3>2. Reaches(ever, d, d)
        BY <1>7, <3>1
      <3>3. 1 \in DOMAIN path /\ (i = 1 \/ 1 < i)
        BY <1>3, <3>1
      <3>4. d = path[1] \/ Reaches(ever, path[1], d)
        BY <1>1, <1>2, <3>1, <3>3 DEF Chained
      <3> QED BY <3>2, <3>4 DEF CycleFrom
    <2>5. Searched' /\ Answered'
      BY <1>1, <1>2, <1>10, <2>4 DEF Searched, Answered
    <2> QED BY <2>2, <2>3, <2>5 DEF SearchInv
  <1>11. CASE d \in visited \ OnPath /\ UNCHANGED <<stage, path, visited>>
    <2>1. OnPath' = OnPath /\ Top' = Top /\ Settled' = Settled
      BY <1>11 DEF OnPath, Top, Settled
    <2>2. SearchTypeOK'
      BY <1>1, <1>2, <1>4, <1>6, <1>11, <2>1 DEF SearchTypeOK, Answers
    <2>3. Seen' /\ Chained' /\ Answered'
      BY <1>1, <1>2, <1>4, <1>11 DEF Seen, Chained, Answered
    <2>4. Searched'
      <3> SUFFICES ASSUME ~blurred' PROVE Searched'
        BY DEF Searched
      <3>1. d \in Settled /\ ~blurred
        BY <1>2, <1>11 DEF Settled
      <3>2. ASSUME NEW i \in DOMAIN path, path[i] \notin touched,
                   NEW e \in always[path[i]] \ left'[path[i]]
            PROVE  e \in Settled \/ (i < Len(path) /\ e = path[i + 1])
        BY <1>8, <3>1, <3>2
      <3> QED BY <1>1, <1>2, <1>11, <2>1, <3>1, <3>2 DEF Searched
    <2> QED BY <2>2, <2>3, <2>4 DEF SearchInv
  <1> QED BY <1>9, <1>10, <1>11 DEF LookAt

(* A call that returns False has found all that its task is linked to among *)
(* the tasks that lead to no cycle: so does its own.                        *)
LEMMA CallEnds ==
  ASSUME SearchInv, Leave
  PROVE  SearchInv'
  <1>1. SearchTypeOK /\ Seen /\ Chained /\ Searched /\ Answered
    BY DEF SearchInv
  <1>2. /\ stage = "looping" /\ blurred' = (blurred \/ Top \in touched)
        /\ left[Top] = {} \/ Top \in touched
        /\ left' = [left EXCEPT ![Top] = {}] /\ size' = [size EXCEPT ![Top] = 0]
        /\ held' = held \ {Top} /\ touched' = touched \ {Top}
        /\ UNCHANGED <<keys, sets, visited, ever, always, changes>>
    BY DEF Leave, GoesOn
  <1>3. /\ Len(path) \in Nat \ {0} /\ Len(path) \in DOMAIN path /\ DOMAIN path = 1 .. Len(path)
        /\ Top \in Nodes /\ Top \in OnPath /\ Top = path[Len(path)]
        /\ \A i \in DOMAIN path : path[i] \in Nodes /\ path[i] \in OnPath /\ path[i] \in visited
    BY <1>1, <1>2, TopIsNode
  <1>4. /\ left' \in [Nodes -> SUBSET Nodes] /\ size' \in [Nodes -> Nat]
        /\ left'[Top] = {} /\ \A n \in Nodes : n # Top => left'[n] = left[n]
    BY <1>1, <1>2, <1>3 DEF SearchTypeOK
  <1>5. blurred' \in BOOLEAN
    BY <1>1, <1>2, Zenon DEF SearchTypeOK
  <1>6. ASSUME ~blurred' PROVE ~blurred /\ Top \notin touched /\ always[Top] \subseteq Settled
    <2>1. ~blurred /\ Top \notin touched /\ left[Top] = {} /\ Looped(Len(path))
      BY <1>2, <1>3, <1>6 DEF Looped
    <2>2. ASSUME NEW e \in always[Top] PROVE e \in Settled
      BY <1>1, <1>2, <1>3, <2>1, <2>2 DEF Searched
    <2> QED BY <2>1, <2>2
  <1>7. Settled \in SUBSET Nodes /\ Top \notin Settled
    BY <1>1, <1>3 DEF Settled, SearchTypeOK
  <1>8. CASE Len(path) = 1
    <2>1. stage' = "no" /\ path' = path
      BY <1>8 DEF Leave
    <2>2. OnPath' = OnPath /\ Top' = Top /\ Settled' = Settled /\ OnPath = {Top}
      <3>1. DOMAIN path = {1} /\ Top = path[1]
        BY <1>3, <1>8
      <3>2. OnPath = {Top}
        BY <3>1 DEF OnPath
      <3> QED BY <1>2, <2>1, <3>2 DEF OnPath, Top, Settled
    <2>3. held' = {} /\ touched' = {}
      BY <1>1, <1>2, <2>2 DEF SearchTypeOK
    <2>4. SearchTypeOK'
      BY <1>1, <1>2, <1>4, <1>5, <2>1, <2>2, <2>3 DEF SearchTypeOK, Answers
    <2>5. Seen' /\ Chained'
      BY <1>1, <1>2, <1>4, <2>1 DEF Seen, Chained
    <2>6. Answered'
      BY <1>3, <1>4, <1>8, <2>1, <2>3 DEF Answered
    <2>7. Searched'
      <3> SUFFICES ASSUME ~blurred' PROVE Searched'
        BY DEF Searched
      <3>1. ASSUME NEW i \in DOMAIN path, NEW d \in always[path[i]] PROVE d \in Settled
        BY <1>3, <1>6, <1>8
      <3> QED BY <1>1, <1>2, <1>6, <2>1, <2>2, <3>1 DEF Searched
    <2> QED BY <2>4, <2>5, <2>6, <2>7 DEF SearchInv
  <1>9. CASE Len(path) # 1
    <2>1. path' = SubSeq(path, 1, Len(path) - 1) /\ stage' = "looping"
      BY <1>2, <1>9 DEF Leave
    <2>2. /\ path' \in Seq(Nodes) /\ path' # <<>> /\ Len(path') = Len(path) - 1
          /\ Len(path) - 1 \in Nat \ {0} /\ DOMAIN path' = 1 .. Len(path) - 1
          /\ \A i \in 1 .. Len(path) - 1 : path'[i] = path[i]
          /\ OnPath' = OnPath \ {Top}
      BY <1>1, <1>2, <1>9, <2>1, CallReturns
    <2>3. Settled' = Settled \cup {Top}
      BY <1>1, <1>2, <1>3, <2>2 DEF Settled
    <2>4. SearchTypeOK'
      BY <1>1, <1>2, <1>4, <1>5, <2>1, <2>2 DEF SearchTypeOK, Answers
    <2>5. Seen'
      BY <1>1, <1>2, <1>4, <2>1 DEF Seen
    <2>6. Chained'
      <3>1. ASSUME NEW i \in DOMAIN path', NEW j \in DOMAIN path'
            PROVE  /\ path'[i] = path'[j] => i = j
                   /\ i < j => Reaches(ever, path'[i], path'[j])
        <4>1. /\ i \in DOMAIN path /\ j \in DOMAIN path
              /\ path'[i] = path[i] /\ path'[j] = path[j]
          BY <1>3, <2>2
        <4> QED BY <1>1, <1>2, <4>1 DEF Chained
      <3> QED BY <1>2, <3>1 DEF Chained
    <2>7. Answered'
      BY <1>1, <1>2, <2>1 DEF Answered
    <2>8. Searched'
      <3> SUFFICES ASSUME ~blurred' PROVE Searched'
        BY DEF Searched
      <3>1. /\ Closed(always, Settled) /\ \A x \in Settled : ~Reaches(always, x, x)
        BY <1>1, <1>2, <1>6 DEF Searched
      <3>2. Closed(always, Settled \cup {Top})
        BY <1>6, <3>1 DEF Closed
      <3>3. \A x \in Settled \cup {Top} : ~Reaches(always, x, x)
        BY <1>3, <1>6, <1>7, <3>1, NoCycleFrom
      <3>4. ASSUME NEW i \in DOMAIN path', path'[i] \notin touched',
                   NEW d \in always[path'[i]] \ left'[path'[i]]
            PROVE  d \in Settled \cup {Top} \/ (i < Len(path') /\ d = path'[i + 1])
        <4>1. i \in DOMAIN path /\ path'[i] = path[i] /\ i < Len(path)
          BY <1>3, <2>2
        <4>2. path[i] # Top /\ path[i] \in Nodes
          BY <1>1, <1>2, <1>3, <4>1 DEF Chained
        <4>3. path[i] \notin touched /\ left'[path[i]] = left[path[i]] /\ Looped(i)
          BY <1>2, <1>4, <3>4, <4>1, <4>2 DEF Looped
        <4>4. d \in Settled \/ d = path[i + 1]
          BY <1>1, <1>2, <1>6, <3>4, <4>1, <4>3 DEF Searched
        <4>5. CASE i = Len(path')
          BY <1>3, <2>2, <4>4, <4>5
        <4>6. CASE i # Len(path')
          BY <2>2, <4>4, <4>6
        <4> QED BY <4>5, <4>6
      <3> QED BY <1>2, <2>1, <2>3, <3>2, <3>3, <3>4 DEF Searched
    <2> QED BY <2>4, <2>5, <2>6, <2>7, <2>8 DEF SearchInv
  <1> QED BY <1>8, <1>9

LEMMA SearchRests ==
  ASSUME SearchInv, UNCHANGED searchVars
  PROVE  SearchInv'
  <1>1. UNCHANGED <<keys, sets, stage, path, visited, left, size, held, touched, ever, always,
                    blurred, changes>>
    BY DEF searchVars, callVars
  <1>2. OnPath' = OnPath /\ Top' = Top
    BY <1>1 DEF OnPath, Top
  <1>3. SearchTypeOK'
    BY <1>1, <1>2 DEF SearchInv, SearchTypeOK
  <1>4. Seen' /\ Chained' /\ Answered'
    BY <1>1, <1>2 DEF SearchInv, Seen, Chained, Answered
  <1>5. Searched'
    BY <1>1, <1>2 DEF SearchInv, Searched, Looped, Settled, Closed, Reaches
  <1> QED BY <1>3, <1>4, <1>5 DEF SearchInv

LEMMA SearchKeeps ==
  ASSUME SearchInv, [SearchNext]_searchVars
  PROVE  SearchInv'
  <1>1. SearchTypeOK
    BY DEF SearchInv
  <1>2. ASSUME NEW n \in Nodes, NEW d \in Nodes, AddLink(n, d) \/ DiscardLink(n, d)
        PROVE  SearchInv'
    <2>1. sets[n] \cup {d} \in SUBSET Nodes /\ sets[n] \ {d} \in SUBSET Nodes
      BY <1>1 DEF SearchTypeOK
    <2>2. n \in keys /\ \E D \in SUBSET Nodes : SetChanges(n, D)
      BY <1>1, <1>2, <2>1 DEF AddLink, DiscardLink, SearchTypeOK
    <2> QED BY <1>1, <2>2, LinkChanges, ChangeKeeps
  <1>3. CASE ClearAll \/ \E n \in Nodes : EnterTask(n)
    BY <1>1, <1>3, DictChanges, ChangeKeeps
  <1>4. CASE \E n \in Asked : BeginSearch(n)
    BY <1>4, SearchBegins
  <1>5. CASE \E n \in Nodes : LookAt(n)
    BY <1>5, DependencySeen
  <1> QED
    BY <1>2, <1>3, <1>4, <1>5, TaskFound, SetFetched, LoopRaises, CallEnds, AnswerTaken, SearchRests
    DEF SearchNext

(* When the first call returns False, its task leads to no cycle.           *)
LEMMA AnswersFollow == SearchInv => CycleAnswers
  <1> SUFFICES ASSUME SearchInv PROVE CycleAnswers OBVIOUS
  <1>1. SearchTypeOK /\ Searched /\ Answered
    BY DEF SearchInv
  <1>2. ASSUME stage = "no", ~blurred PROVE ~CycleFrom(always, path[1])
    <2>1. Len(path) = 1 /\ left[path[1]] = {} /\ path[1] \notin touched
      BY <1>1, <1>2 DEF Answered
    <2>2. 1 \in DOMAIN path /\ path[1] \in Nodes /\ path[1] \in OnPath /\ Looped(1)
      BY <1>1, <1>2, <2>1, TopIsNode DEF Looped
    <2>3. ASSUME NEW d \in always[path[1]] PROVE d \in Settled
      BY <1>1, <1>2, <2>1, <2>2, <2>3 DEF Searched
    <2>4. Settled \in SUBSET Nodes /\ path[1] \notin Settled
      BY <1>1, <2>2 DEF Settled, SearchTypeOK
    <2>5. Closed(always, Settled) /\ \A x \in Settled : ~Reaches(always, x, x)
      BY <1>1, <1>2 DEF Searched
    <2> QED BY <2>2, <2>3, <2>4, <2>5, NoCycleFrom
  <1> QED BY <1>1, <1>2 DEF CycleAnswers, Answered

(* has_circular_dependency says yes only for a cycle of dependencies there  *)
(* were during the search, and no only if those that stayed make none, for  *)
(* any graph and any calls that add, complete and clear meanwhile.          *)
THEOREM CyclesAreAnswered == SearchSpec => []CycleAnswers
  <1>1. SearchInv /\ [SearchNext]_searchVars => SearchInv'
    BY SearchKeeps
  <1> QED BY <1>1, SearchStarts, AnswersFollow, PTL DEF SearchSpec

(* The stack of calls holds no task that was not visited, and no loop goes  *)
(* on for a call that has returned.                                         *)
THEOREM SearchTypes == SearchSpec => []SearchTypeOK
  <1>1. SearchInv /\ [SearchNext]_searchVars => SearchInv'
    BY SearchKeeps
  <1>2. SearchInv => SearchTypeOK
    BY DEF SearchInv
  <1> QED BY <1>1, <1>2, SearchStarts, PTL DEF SearchSpec

-----------------------------------------------------------------------------
(* The components together.  A step of Services is one of one component, or *)
(* leaves it as it is.                                                      *)
LEMMA StepOfEach ==
  ASSUME [ServicesNext]_servicesVars
  PROVE  /\ [TimeoutNext]_timeoutVars /\ [LifecycleNext]_lifecycleVars
         /\ [QueueNext]_queueVars /\ [GraphNext]_graphVars /\ [SearchNext]_searchVars
         /\ [ResourceNext]_resourceVars /\ [BufferNext]_bufferVars /\ [CancelNext]_cancelVars
  BY DEF ServicesNext, Resting, servicesVars

(* Each behaviour of Services is one of every component: nothing that was   *)
(* proved of a component is lost by putting it beside the others.           *)
THEOREM EachComponentRuns ==
  ServicesSpec => /\ TimeoutSafety /\ LifecycleSafety /\ QueueSpec /\ GraphSpec
                  /\ SearchSpec /\ ResourceSpec /\ BufferSpec /\ CancelSpec
  <1>1. ServicesInit => /\ TimeoutInit /\ LifecycleInit /\ QueueInit /\ GraphInit
                        /\ SearchInit /\ ResourceInit /\ BufferInit /\ CancelInit
    BY DEF ServicesInit
  <1> QED
    BY <1>1, StepOfEach, PTL
    DEF ServicesSpec, TimeoutSafety, LifecycleSafety, QueueSpec, GraphSpec, SearchSpec,
        ResourceSpec, BufferSpec, CancelSpec

(* Every variable of every component keeps its type, and what they bound    *)
(* stays bounded: tracked time-outs, tracked resources, buffered updates.   *)
THEOREM ServicesTypes == ServicesSpec => []ServicesTypeOK
  <1>1. ServicesTypeOK <=> /\ TimeoutTypeOK /\ LifecycleTypeOK /\ QueueTypeOK /\ GraphTypeOK
                           /\ SearchTypeOK /\ ResourceTypeOK /\ BufferTypeOK /\ CancelTypeOK
    BY DEF ServicesTypeOK
  <1> QED
    BY <1>1, EachComponentRuns, TimeoutsAreBounded, LifecycleTypes, QueueTypes, DependentsAreFound,
       SearchTypes, TrackingIsBounded, BufferStaysBounded, TokensFollowTasks, PTL

(* And each keeps its promises: no run of one disturbs what another said of *)
(* its tasks, its instance, its entries, its resources or its updates.      *)
THEOREM ServicesKeepPromises ==
  ServicesSpec => [](/\ ReportMatchesFate /\ CancelReachesTask /\ OneRunningInstance
                     /\ EachServedOnce /\ EmptyOnlyIfRobbed /\ NoSleeperOnWork
                     /\ ReadyAnswers /\ CycleAnswers /\ ResourcesAccountedFor /\ UpdatesLand /\ CancelTakesEffect)
  BY EachComponentRuns, ReportsAgree, CancellationArrives, OneInstanceRuns, ServedOnce,
     EmptyMeansRobbed, SleepersHaveNoWork, ReadinessIsTrue, CyclesAreAnswered,
     ResourcesAreCleaned, BufferedUpdatesLand, CancellationHolds, PTL
=============================================================================
