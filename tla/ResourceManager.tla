---------------------------- MODULE ResourceManager ----------------------------
(***************************************************************************)
(* TaskResourceManager.  Every operation holds the manager's lock, the      *)
(* clean-up functions included, and is one step; what these functions do is *)
(* left out.  A resource is an object registered under an id for a task; a  *)
(* second one may be registered under the same id.                          *)
(***************************************************************************)
EXTENDS Naturals, FiniteSets

CONSTANTS
  Objects,     (* TaskResource objects                                      *)
  Ids,         (* resource ids                                              *)
  IdFor,       (* the id each object is registered under                    *)
  Owners,      (* tasks                                                     *)
  NoObject,
  MaxResources,(* max_tracked                                               *)
  EvictCount,  (* how many _evict_oldest_resources removes                  *)
  CleanCount   (* how many _perform_cleanup removes                         *)

ASSUME ResourceAssumption ==
  /\ IdFor \in [Objects -> Ids] /\ NoObject \notin Objects \cup Owners
  /\ MaxResources \in Nat \ {0} /\ EvictCount \in Nat \ {0} /\ CleanCount \in Nat \ {0}

VARIABLES
  resources,     (* _resources                                              *)
  listedTasks,   (* the keys of _task_resources                             *)
  taskResources, (* _task_resources                                         *)
  order,         (* the objects in the order of last_used                   *)
  stale,         (* those not used for an hour                              *)
  loop,          (* the clean-up thread: running, stopping or stopped       *)
  owner,         (* for whom each object was registered                     *)
  cleanups,      (* how often each object was cleaned up                    *)
  overwritten    (* objects whose id was registered again                   *)

resourceVars == <<resources, listedTasks, taskResources, order, stale, loop, owner, cleanups, overwritten>>

Tracked == {resources[i] : i \in Ids} \ {NoObject}
TrackedIds == {i \in Ids : resources[i] # NoObject}

ResourceTypeOK ==
  /\ resources \in [Ids -> Objects \cup {NoObject}] /\ \A i \in TrackedIds : IdFor[resources[i]] = i
  /\ listedTasks \subseteq Owners /\ taskResources \in [Owners -> SUBSET Ids]
  /\ \A t \in Owners : taskResources[t] # {} => t \in listedTasks
  /\ order \in [Objects -> Nat] /\ stale \subseteq Objects
  /\ loop \in {"running", "stopping", "stopped"}
  /\ owner \in [Objects -> Owners \cup {NoObject}] /\ cleanups \in [Objects -> Nat]
  /\ overwritten \subseteq Objects /\ Cardinality(Tracked) <= MaxResources

ResourceInit ==
  /\ resources = [i \in Ids |-> NoObject]
  /\ listedTasks = {} /\ taskResources = [t \in Owners |-> {}]
  /\ order = [o \in Objects |-> 0] /\ stale = {} /\ loop = "stopped"
  /\ owner = [o \in Objects |-> NoObject] /\ cleanups = [o \in Objects |-> 0] /\ overwritten = {}

CleanedUp(S) == [o \in Objects |-> IF o \in S THEN cleanups[o] + 1 ELSE cleanups[o]]
Objs(I) == {resources[i] : i \in I} \ {NoObject}
DropIds(I) == [i \in Ids |-> IF i \in I THEN NoObject ELSE resources[i]]
Unlisted(I) == [t \in Owners |-> taskResources[t] \ I]

(* The n least recently used, or all if there are fewer.                    *)
Least(S, n) ==
  {D \in SUBSET S : /\ Cardinality(D) = IF Cardinality(S) < n THEN Cardinality(S) ELSE n
                    /\ \A d \in D, o \in S \ D : order[d] < order[o]}

Evicted == IF Cardinality(Tracked) >= MaxResources THEN UNION Least(Tracked, EvictCount) ELSE {}

(* At the limit the oldest resources go first.  An object of the same id    *)
(* is replaced as it is.                                                    *)
RegisterResource(t, o) ==
  LET i == IdFor[o]
      gone == {IdFor[d] : d \in Evicted}
  IN
  /\ owner[o] = NoObject /\ owner' = [owner EXCEPT ![o] = t]
  /\ cleanups' = CleanedUp(Evicted)
  /\ overwritten' = overwritten \cup (Objs({i}) \ Evicted)
  /\ resources' = [DropIds(gone) EXCEPT ![i] = o]
  /\ listedTasks' = listedTasks \cup {t}
  /\ taskResources' = [Unlisted(gone) EXCEPT ![t] = @ \cup {i}]
  /\ order' = [order EXCEPT ![o] = 1 + Cardinality({d \in Objects : owner[d] # NoObject})]
  /\ UNCHANGED <<stale, loop>>

RegisterOwner(t) ==
  /\ t \notin listedTasks /\ listedTasks' = listedTasks \cup {t}
  /\ UNCHANGED <<resources, taskResources, order, stale, loop, owner, cleanups, overwritten>>

UnregisterResource(i) ==
  /\ i \in TrackedIds /\ cleanups' = CleanedUp({resources[i]})
  /\ resources' = DropIds({i}) /\ taskResources' = Unlisted({i})
  /\ UNCHANGED <<listedTasks, order, stale, loop, owner, overwritten>>

(* Mutant: the task is forgotten, its resources are not.                    *)
ForgetTask(t) ==
  /\ t \in listedTasks /\ listedTasks' = listedTasks \ {t}
  /\ taskResources' = [taskResources EXCEPT ![t] = {}]
  /\ UNCHANGED <<resources, order, stale, loop, owner, cleanups, overwritten>>

(* cleanup_task_resources, in threads it joins, and force_cleanup_task: the *)
(* task's ids, whoever registered the object they now name.                 *)
CleanupTask(t) ==
  /\ t \in listedTasks /\ listedTasks' = listedTasks \ {t}
  /\ cleanups' = CleanedUp(Objs(taskResources[t]))
  /\ resources' = DropIds(taskResources[t])
  /\ taskResources' = [taskResources EXCEPT ![t] = {}]
  /\ UNCHANGED <<order, stale, loop, owner, overwritten>>

(* A loop that stop no longer waits for goes on beside the new one.         *)
StartLoop ==
  /\ loop # "running" /\ loop' = "running"
  /\ UNCHANGED <<resources, listedTasks, taskResources, order, stale, owner, cleanups, overwritten>>

StopLoop ==
  /\ loop = "running" /\ loop' = "stopping"
  /\ UNCHANGED <<resources, listedTasks, taskResources, order, stale, owner, cleanups, overwritten>>

(* Nothing marks a resource as used after it was registered.                *)
Ages(o) ==
  /\ o \in Tracked \ stale /\ \A d \in Tracked \ stale : order[o] <= order[d]
  /\ stale' = stale \cup {o}
  /\ UNCHANGED <<resources, listedTasks, taskResources, order, loop, owner, cleanups, overwritten>>

PerformCleanup ==
  LET due == Tracked \cap stale IN
  /\ loop # "stopped" /\ due # {}
  /\ \E S \in SUBSET due :
       /\ Cardinality(S) = IF Cardinality(due) < CleanCount THEN Cardinality(due) ELSE CleanCount
       /\ cleanups' = CleanedUp(S)
       /\ resources' = DropIds({IdFor[o] : o \in S})
       /\ taskResources' = Unlisted({IdFor[o] : o \in S})
  /\ UNCHANGED <<listedTasks, order, stale, loop, owner, overwritten>>

LoopEnds ==
  /\ loop = "stopping" /\ loop' = "stopped"
  /\ UNCHANGED <<resources, listedTasks, taskResources, order, stale, owner, cleanups, overwritten>>

ResourceNext ==
  \/ \E t \in Owners :
       RegisterOwner(t) \/ CleanupTask(t) \/ \E o \in Objects : RegisterResource(t, o)
  \/ \E i \in Ids : UnregisterResource(i)
  \/ \E o \in Objects : Ages(o)
  \/ StartLoop \/ StopLoop \/ LoopEnds \/ PerformCleanup

ResourceSpec == ResourceInit /\ [][ResourceNext]_resourceVars

-----------------------------------------------------------------------------
(* A resource the manager no longer tracks was cleaned up once, unless      *)
(* another took its id ("to prevent leaks"); one it tracks was not, and is  *)
(* listed for its task, so that the end of the task will clean it up.       *)
ResourcesAccountedFor ==
  \A o \in Objects :
    /\ o \in Tracked => cleanups[o] = 0 /\ IdFor[o] \in taskResources[owner[o]]
    /\ owner[o] # NoObject /\ o \notin Tracked \cup overwritten => cleanups[o] = 1
    /\ o \in overwritten => cleanups[o] = 0
=============================================================================
