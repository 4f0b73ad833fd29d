----------------------------- MODULE PriorityQueue -----------------------------
(***************************************************************************)
(* The priority queues: Python's PriorityTaskQueue as PriorityTaskManager   *)
(* uses it, and Rust's PyPriorityTaskQueue.  Every operation holds the      *)
(* queue's lock and is one step, but a getter that finds nothing sleeps on  *)
(* the condition, and get_task forgets the pending entry in a second step.  *)
(* Entries are used once; full and blocking make a difference only to put.  *)
(***************************************************************************)
EXTENDS Naturals, FiniteSets

CONSTANTS
  Entries, Getters, NoEntry,
  Priority,   (* of each entry: the smaller, the earlier                    *)
  SubmitTime, (* of each entry                                              *)
  MaxSize     (* maxsize, 0 if unlimited                                    *)

ASSUME QueueAssumption ==
  /\ NoEntry \notin Entries /\ IsFiniteSet(Entries) /\ IsFiniteSet(Getters)
  /\ Priority \in [Entries -> Nat] /\ SubmitTime \in [Entries -> Nat] /\ MaxSize \in Nat
  /\ \A e, f \in Entries : Priority[e] = Priority[f] /\ SubmitTime[e] = SubmitTime[f] => e = f

VARIABLES
  queueImpl,  (* python or rust                                             *)
  heap,       (* _queue                                                     *)
  taskIds,    (* _task_ids, task_ids                                        *)
  cancelled,  (* Rust: removed, but still in the heap                       *)
  pending,    (* Python: _pending_tasks                                     *)
  getter,     (* idle, sleeping, notified, popped (Python: the entry is not
                 yet taken from _pending_tasks) or empty (has failed so)    *)
  timeout,    (* never, some or now: how long a getter that sleeps waits    *)
  late,       (* getters whose time is up, and not notified since           *)
  holding,    (* the entry a getter has popped, until it is not pending     *)
  entered, served, removed, cleared,  (* what became of each entry          *)
  robbed      (* notified getters from whom something was then taken        *)

fates == <<entered, served, removed, cleared>>
getting == <<getter, timeout, late, holding, robbed>>
queueVars == <<queueImpl, heap, taskIds, cancelled, pending, getting, fates>>

QueueTypeOK ==
  /\ queueImpl \in {"python", "rust"}
  /\ heap \subseteq Entries /\ cancelled \subseteq heap /\ taskIds \subseteq heap
  /\ (queueImpl = "python" => cancelled = {}) /\ pending \subseteq entered
  /\ getter \in [Getters -> {"idle", "sleeping", "notified", "popped", "empty"}]
  /\ timeout \in [Getters -> {"never", "some", "now"}] /\ late \subseteq Getters
  /\ holding \in [Getters -> Entries \cup {NoEntry}] /\ robbed \subseteq Getters
  /\ entered \subseteq Entries /\ served \in [Entries -> Nat]

QueueInit ==
  /\ queueImpl \in {"python", "rust"}
  /\ heap = {} /\ taskIds = {} /\ cancelled = {} /\ pending = {}
  /\ getter = [g \in Getters |-> "idle"] /\ timeout = [g \in Getters |-> "now"]
  /\ late = {} /\ holding = [g \in Getters |-> NoEntry] /\ robbed = {}
  /\ entered = {} /\ served = [e \in Entries |-> 0] /\ removed = {} /\ cleared = {}

-----------------------------------------------------------------------------
(* Python compares priorities alone, Rust the submit time as well.          *)
Before(e, f) ==
  \/ Priority[e] < Priority[f]
  \/ queueImpl = "rust" /\ Priority[e] = Priority[f] /\ SubmitTime[e] < SubmitTime[f]

Valid == heap \ cancelled
Sleeping == {g \in Getters : getter[g] = "sleeping"}
Notified == {g \in Getters : getter[g] = "notified"}

(* Mutant: nobody is woken.                                                 *)
NotifyNoGetter == UNCHANGED <<getter, late>>

(* Python's condition may notify a getter whose time is up already, once.   *)
Notifiable == Sleeping \cup IF queueImpl = "python" THEN Notified \cap late ELSE {}

NotifyOne ==
  IF Notifiable = {} THEN UNCHANGED <<getter, late>>
  ELSE \E g \in Notifiable :
         getter' = [getter EXCEPT ![g] = "notified"] /\ late' = late \ {g}

NotifyEveryone ==
  getter' = [g \in Getters |-> IF g \in Sleeping THEN "notified" ELSE getter[g]]

Push(S) ==
  /\ heap' = heap \cup S /\ taskIds' = taskIds \cup S /\ entered' = entered \cup S
  /\ UNCHANGED <<queueImpl, cancelled, timeout, holding, robbed, served, removed, cleared>>

(* submit_task, or put in Rust: a put that may block never looks whether    *)
(* the queue is full.                                                       *)
Put(e) ==
  /\ e \notin entered /\ Push({e}) /\ NotifyOne
  /\ pending' = IF queueImpl = "python" THEN pending \cup {e} ELSE pending

Room(n) == MaxSize > 0 => Cardinality(Valid) + n <= MaxSize

(* put(block=False) on the queue itself; without room it fails.             *)
PutIfRoom(e) ==
  /\ e \notin entered /\ Room(1) /\ Push({e}) /\ NotifyOne /\ UNCHANGED pending

(* Rust: as many of a list as there is room for.                            *)
PutBatch(S) ==
  /\ queueImpl = "rust" /\ S # {} /\ S \cap entered = {} /\ Room(Cardinality(S))
  /\ Push(S) /\ NotifyEveryone /\ UNCHANGED <<pending, late>>

-----------------------------------------------------------------------------
(* The entries that were removed while others were woken for them.          *)
Rob(S) == robbed' = IF S = {} THEN robbed ELSE robbed \cup Notified

(* pop_valid_task drops the cancelled entries it meets on its way to those  *)
(* of S, or all of them if it looks for more than there is.                 *)
Dropped(S, all) == {f \in cancelled : all \/ \E e \in S : Before(f, e)}

Pop(S, all) ==
  /\ \A e \in S, f \in Valid \ S : ~Before(f, e)
  /\ heap' = heap \ (S \cup Dropped(S, all)) /\ cancelled' = cancelled \ Dropped(S, all)
  /\ taskIds' = taskIds \ S
  /\ served' = [e \in Entries |-> IF e \in S THEN served[e] + 1 ELSE served[e]]
  /\ UNCHANGED <<queueImpl, pending, entered, removed, cleared>>

Take(g) ==
  \E e \in Valid :
    /\ Pop({e}, FALSE)
    /\ getter' = [getter EXCEPT ![g] = IF queueImpl = "python" THEN "popped" ELSE "idle"]
    /\ holding' = [holding EXCEPT ![g] = IF queueImpl = "python" THEN e ELSE NoEntry]
    /\ robbed' = (robbed \cup Notified) \ {g} /\ late' = late \ {g}
    /\ timeout' = [timeout EXCEPT ![g] = "now"]

Get(g, t) ==
  /\ getter[g] = "idle"
  /\ \/ Take(g)
     \/ /\ Valid = {} /\ Pop({}, TRUE) /\ timeout' = [timeout EXCEPT ![g] = t]
        /\ getter' = [getter EXCEPT ![g] = IF t = "now" THEN "empty" ELSE "sleeping"]
        /\ robbed' = robbed \ {g} /\ UNCHANGED <<late, holding>>

TimeIsUp(g) ==
  /\ getter[g] = "sleeping" /\ timeout[g] = "some"
  /\ getter' = [getter EXCEPT ![g] = "notified"] /\ late' = late \cup {g}
  /\ UNCHANGED <<queueImpl, heap, taskIds, cancelled, pending, timeout, holding, robbed, fates>>

(* Mutant: Rust gives up as well.                                           *)
GivesUpAtOnce(g) == TRUE

(* A woken getter that finds nothing gives up in Python, whatever woke it;  *)
(* in Rust it sleeps again until its time is up.                            *)
GivesUp(g) == queueImpl = "python" \/ g \in late

Wake(g) ==
  /\ getter[g] = "notified"
  /\ \/ Take(g)
     \/ /\ Valid = {} /\ Pop({}, TRUE) /\ UNCHANGED timeout
        /\ getter' = [getter EXCEPT ![g] = IF GivesUp(g) THEN "empty" ELSE "sleeping"]
        /\ robbed' = IF GivesUp(g) THEN robbed ELSE robbed \ {g}
        /\ UNCHANGED <<late, holding>>

RaiseEmpty(g) ==
  /\ getter[g] = "empty" /\ getter' = [getter EXCEPT ![g] = "idle"]
  /\ late' = late \ {g} /\ robbed' = robbed \ {g} /\ timeout' = [timeout EXCEPT ![g] = "now"]
  /\ UNCHANGED <<queueImpl, heap, taskIds, cancelled, pending, holding, fates>>

(* get_task: the entry is no longer pending.                                *)
ForgetPending(g) ==
  /\ getter[g] = "popped" /\ getter' = [getter EXCEPT ![g] = "idle"]
  /\ pending' = pending \ {holding[g]} /\ holding' = [holding EXCEPT ![g] = NoEntry]
  /\ UNCHANGED <<queueImpl, heap, taskIds, cancelled, timeout, late, robbed, fates>>

GetBatch(S) ==
  /\ queueImpl = "rust" /\ S \subseteq Valid
  /\ \E all \in BOOLEAN : (all => S = Valid) /\ Pop(S, all)
  /\ Rob(S) /\ UNCHANGED <<getter, timeout, late, holding>>

(* cancel_task; in the gap of get_task the queue no longer has the entry.   *)
CancelPending(e) ==
  /\ queueImpl = "python" /\ e \in pending /\ pending' = pending \ {e}
  /\ heap' = heap \ {e} /\ taskIds' = taskIds \ {e}
  /\ removed' = IF e \in heap THEN removed \cup {e} ELSE removed
  /\ Rob({e} \cap heap)
  /\ UNCHANGED <<queueImpl, cancelled, getter, timeout, late, holding, entered, served, cleared>>

(* Mutant: the entry is not marked, and get will return it.                 *)
RemoveUnmarked(e) ==
  /\ queueImpl = "rust" /\ e \in taskIds
  /\ taskIds' = taskIds \ {e} /\ removed' = removed \cup {e} /\ Rob({e})
  /\ UNCHANGED <<queueImpl, heap, cancelled, pending, getter, timeout, late, holding, entered, served, cleared>>

Remove(e) ==
  /\ queueImpl = "rust" /\ e \in taskIds
  /\ taskIds' = taskIds \ {e} /\ cancelled' = cancelled \cup {e}
  /\ removed' = removed \cup {e} /\ Rob({e})
  /\ UNCHANGED <<queueImpl, heap, pending, getter, timeout, late, holding, entered, served, cleared>>

(* Rust wakes all getters, which find nothing and sleep again.              *)
ClearQueue ==
  /\ heap # {} /\ cleared' = cleared \cup Valid /\ Rob(Valid)
  /\ heap' = {} /\ taskIds' = {} /\ cancelled' = {}
  /\ IF queueImpl = "rust" THEN NotifyEveryone ELSE UNCHANGED getter
  /\ UNCHANGED <<queueImpl, pending, timeout, late, holding, entered, served, removed>>

QueueNext ==
  \/ \E e \in Entries : Put(e) \/ PutIfRoom(e) \/ CancelPending(e) \/ Remove(e)
  \/ \E S \in SUBSET Entries : PutBatch(S) \/ GetBatch(S)
  \/ \E g \in Getters :
       \/ TimeIsUp(g) \/ Wake(g) \/ RaiseEmpty(g) \/ ForgetPending(g)
       \/ \E t \in {"never", "some", "now"} : Get(g, t)
  \/ ClearQueue

QueueSpec == QueueInit /\ [][QueueNext]_queueVars

-----------------------------------------------------------------------------
(* Every entry is queued, served once, removed with success or cleared: an  *)
(* entry whose cancellation succeeded is never served, and none is lost,    *)
(* whatever is still marked in Rust's heap.                                 *)
Out == {e \in Entries : served[e] # 0}

EachServedOnce ==
  /\ \A e \in Entries : served[e] <= 1
  /\ taskIds = Valid /\ entered = taskIds \cup Out \cup removed \cup cleared
  /\ taskIds \cap (Out \cup removed \cup cleared) = {}
  /\ Out \cap (removed \cup cleared) = {} /\ removed \cap cleared = {}

(* A get without timeout fails ("queue.Empty: empty and timed out") only in *)
(* Python, and only if others took what it was woken for.                   *)
EmptyOnlyIfRobbed ==
  \A g \in Getters :
    getter[g] = "empty" /\ timeout[g] = "never" => queueImpl = "python" /\ g \in robbed

(* While a getter sleeps, as many others are on their way as entries wait.  *)
NoSleeperOnWork == Sleeping # {} => Cardinality(Valid) <= Cardinality(Notified)
=============================================================================
