--------------------------- MODULE ManagerLifecycle ---------------------------
(***************************************************************************)
(* The instances of TaskManager for one instance_key: __new__, shutdown and *)
(* destroy_instance called from several threads, and the cleanup thread of  *)
(* each instance.  How shutdown ends the workers is in WorkerPool; here it  *)
(* is one step.                                                             *)
(***************************************************************************)
EXTENDS Naturals, FiniteSets

CONSTANTS
  Callers,     (* the threads that use TaskManager                          *)
  Instances,   (* names for the objects __new__ creates                     *)
  Nothing      (* no instance, no thread                                    *)

ASSUME LifecycleAssumption == Nothing \notin Callers \cup Instances

VARIABLES
  instances,   (* cls._instances for the key                                *)
  lockedBy,    (* the holder of cls._instance_lock                          *)
  caller,      (* where each caller is                                      *)
  has,         (* the instance it has got, or is shutting down              *)
  destroys,    (* the caller's shutdown is part of destroy_instance         *)
  born,        (* the instances that were created                           *)
  running,     (* those whose _running_event is set                         *)
  cleaner,     (* each instance's cleanup thread                            *)
  raced        (* callers during whose __new__ the key was deleted          *)

lifecycleVars == <<instances, lockedBy, caller, has, destroys, born, running, cleaner, raced>>

InShutdown == {"checked", "cleared", "stopped", "joined"}

LifecycleTypeOK ==
  /\ instances \in Instances \cup {Nothing} /\ lockedBy \in Callers \cup {Nothing}
  /\ caller \in [Callers -> {"idle", "locking", "creating", "reading", "keyError",
                             "destroying", "deleting"} \cup InShutdown]
  /\ has \in [Callers -> Instances \cup {Nothing}] /\ destroys \subseteq Callers
  /\ running \subseteq born /\ born \subseteq Instances /\ raced \subseteq Callers
  /\ cleaner \in [Instances -> {"none", "waiting", "cleaning", "gone"}]

LifecycleInit ==
  /\ instances = Nothing /\ lockedBy = Nothing
  /\ caller = [c \in Callers |-> "idle"] /\ has = [c \in Callers |-> Nothing]
  /\ destroys = {} /\ born = {} /\ running = {} /\ raced = {}
  /\ cleaner = [i \in Instances |-> "none"]

Goes(c, from, to) == caller[c] = from /\ caller' = [caller EXCEPT ![c] = to]

(* The first look at the dictionary is without the lock, and so is the      *)
(* last: `return cls._instances[instance_key]'.                             *)
CallNew(c) ==
  /\ Goes(c, "idle", IF instances = Nothing THEN "locking" ELSE "reading")
  /\ raced' = raced \ {c}
  /\ UNCHANGED <<instances, lockedBy, has, destroys, born, running, cleaner>>

(* Mutant: under the lock the dictionary is not looked at again.            *)
LockWithoutSecondLook(c) ==
  /\ lockedBy = Nothing /\ lockedBy' = c /\ Goes(c, "locking", "creating")
  /\ UNCHANGED <<instances, has, destroys, born, running, cleaner, raced>>

LockForNew(c) ==
  /\ lockedBy = Nothing
  /\ IF instances = Nothing THEN Goes(c, "locking", "creating") /\ lockedBy' = c
                            ELSE Goes(c, "locking", "reading") /\ UNCHANGED lockedBy
  /\ UNCHANGED <<instances, has, destroys, born, running, cleaner, raced>>

CreateInstance(c) ==
  /\ Goes(c, "creating", "reading")
  /\ \E i \in Instances \ born :
       /\ instances' = i /\ born' = born \cup {i} /\ running' = running \cup {i}
       /\ cleaner' = [cleaner EXCEPT ![i] = "waiting"]
  /\ lockedBy' = Nothing
  /\ UNCHANGED <<has, destroys, raced>>

ReadInstance(c) ==
  /\ Goes(c, "reading", IF instances = Nothing THEN "keyError" ELSE "idle")
  /\ has' = [has EXCEPT ![c] = instances]
  /\ UNCHANGED <<instances, lockedBy, destroys, born, running, cleaner, raced>>

KeyErrorRaised(c) ==
  /\ Goes(c, "keyError", "idle")
  /\ UNCHANGED <<instances, lockedBy, has, destroys, born, running, cleaner, raced>>

(* shutdown: the flag is looked at, and cleared in a step of its own.       *)
CallShutdown(c) ==
  /\ has[c] \in running /\ Goes(c, "idle", "checked")
  /\ UNCHANGED <<instances, lockedBy, has, destroys, born, running, cleaner, raced>>

ClearRunning(c) ==
  /\ Goes(c, "checked", "cleared") /\ running' = running \ {has[c]}
  /\ UNCHANGED <<instances, lockedBy, has, destroys, born, cleaner, raced>>

StopWorkers(c) ==
  /\ Goes(c, "cleared", "stopped")
  /\ UNCHANGED <<instances, lockedBy, has, destroys, born, running, cleaner, raced>>

(* It waits for the cleanup thread, but not for longer than its timeout.    *)
JoinCleanup(c) ==
  /\ Goes(c, "stopped", "joined")
  /\ UNCHANGED <<instances, lockedBy, has, destroys, born, running, cleaner, raced>>

ClearResources(c) ==
  /\ Goes(c, "joined", IF c \in destroys THEN "deleting" ELSE "idle")
  /\ UNCHANGED <<instances, lockedBy, has, destroys, born, running, cleaner, raced>>

(* destroy_instance holds the lock while it shuts the instance down, if     *)
(* nobody else has begun to.                                                *)
CallDestroy(c) ==
  /\ lockedBy = Nothing /\ instances # Nothing
  /\ Goes(c, "idle", IF instances \in running THEN "checked" ELSE "deleting")
  /\ has' = [has EXCEPT ![c] = instances] /\ destroys' = destroys \cup {c}
  /\ lockedBy' = c
  /\ UNCHANGED <<instances, born, running, cleaner, raced>>

DeleteInstance(c) ==
  /\ Goes(c, "deleting", "idle")
  /\ instances' = Nothing /\ lockedBy' = Nothing /\ destroys' = destroys \ {c}
  /\ raced' = raced \cup {d \in Callers : caller[d] = "reading"}
  /\ UNCHANGED <<has, born, running, cleaner>>

(* Mutant: the loop goes on without looking at the flag.                    *)
WaitWithoutFlag(i) ==
  /\ cleaner[i] = "waiting" /\ cleaner' = [cleaner EXCEPT ![i] = "cleaning"]
  /\ UNCHANGED <<instances, lockedBy, caller, has, destroys, born, running, raced>>

(* _wait_with_interrupt_check looks at the flag every second at least.      *)
WaitEnds(i) ==
  /\ cleaner[i] = "waiting"
  /\ cleaner' = [cleaner EXCEPT ![i] = IF i \in running THEN "cleaning" ELSE "gone"]
  /\ UNCHANGED <<instances, lockedBy, caller, has, destroys, born, running, raced>>

(* Whatever the cleanup raises is counted and logged: the loop goes on.     *)
CleanOnce(i) ==
  /\ cleaner[i] = "cleaning" /\ cleaner' = [cleaner EXCEPT ![i] = "waiting"]
  /\ UNCHANGED <<instances, lockedBy, caller, has, destroys, born, running, raced>>

ShutdownStep(c) == ClearRunning(c) \/ StopWorkers(c) \/ JoinCleanup(c) \/ ClearResources(c)
CallerStep(c) ==
  \/ LockForNew(c) \/ CreateInstance(c) \/ ReadInstance(c) \/ KeyErrorRaised(c)
  \/ ShutdownStep(c) \/ DeleteInstance(c)

LifecycleNext ==
  \/ \E c \in Callers : CallNew(c) \/ CallShutdown(c) \/ CallDestroy(c) \/ CallerStep(c)
  \/ \E i \in Instances : WaitEnds(i) \/ CleanOnce(i)

(* Calls that have begun go on, and so do the cleanup threads.              *)
LifecycleFairness ==
  /\ \A c \in Callers : WF_lifecycleVars(CallerStep(c))
  /\ \A i \in Instances : WF_lifecycleVars(WaitEnds(i) \/ CleanOnce(i))

LifecycleSafety == LifecycleInit /\ [][LifecycleNext]_lifecycleVars

LifecycleSpec == LifecycleSafety /\ LifecycleFairness

-----------------------------------------------------------------------------
(* "All calls return the same instance": an instance that runs is the one   *)
(* in the dictionary, so there are never two, and __new__ fails (KeyError)  *)
(* only if destroy_instance deleted the key between its look at the         *)
(* dictionary and its return.                                               *)
OneRunningInstance ==
  /\ \A i \in running : instances = i
  /\ \A c \in Callers : caller[c] = "keyError" => c \in raced

(* A shutdown that has begun comes to its end, and the cleanup thread of    *)
(* the instance leaves.                                                     *)
ShutdownCompletes ==
  /\ \A c \in Callers : caller[c] \in InShutdown ~> caller[c] \notin InShutdown
  /\ \A i \in Instances : i \in born \ running ~> cleaner[i] = "gone"
=============================================================================
