------------------------ MODULE ManagerLifecycleProofs ------------------------
(***************************************************************************)
(* For any number of threads that create, shut down and destroy the         *)
(* instance of one key: never do two instances run, or one that is not in   *)
(* the dictionary.                                                          *)
(***************************************************************************)
EXTENDS ManagerLifecycle, TLAPS

Places ==
  {"idle", "locking", "creating", "reading", "keyError", "destroying", "deleting"} \cup InShutdown

CallerTypes ==
  /\ instances \in born \cup {Nothing} /\ running \subseteq born /\ born \subseteq Instances
  /\ caller \in [Callers -> Places] /\ has \in [Callers -> born \cup {Nothing}]

(* Whoever creates or destroys an instance has the lock, so nobody else     *)
(* changes the dictionary meanwhile.                                        *)
LockHeld(c) ==
  /\ caller[c] = "creating" => lockedBy = c /\ instances = Nothing
  /\ c \in destroys =>
       /\ lockedBy = c /\ has[c] = instances
       /\ caller[c] \in InShutdown \cup {"deleting"}

(* Past the clearing of the flag the caller's instance does not run.        *)
Stopped(c) ==
  /\ caller[c] = "deleting" => c \in destroys
  /\ caller[c] \in {"cleared", "stopped", "joined", "deleting"} => has[c] \notin running

(* A caller past its look at the dictionary finds the key, unless raced.    *)
FindsKey(c) ==
  /\ caller[c] = "reading" /\ instances = Nothing => c \in raced
  /\ caller[c] = "keyError" => c \in raced

LifecycleInv ==
  /\ CallerTypes
  /\ \A i \in running : instances = i
  /\ \A c \in Callers : LockHeld(c) /\ Stopped(c) /\ FindsKey(c)

-----------------------------------------------------------------------------
LEMMA LifecycleStart == LifecycleInit => LifecycleInv
  BY DEF LifecycleInit, LifecycleInv, CallerTypes, Places, LockHeld, Stopped, FindsKey, InShutdown

(* CreateInstance: no instance runs while the lock is held for a new one,   *)
(* and nobody has got the new one yet.                                      *)
LEMMA CreateKeeps ==
  ASSUME LifecycleInv, NEW c \in Callers, CreateInstance(c)
  PROVE  LifecycleInv'
  <1> USE LifecycleAssumption DEF LifecycleInv, Goes
  <1>1. lockedBy = c /\ instances = Nothing
    BY DEF LockHeld, CreateInstance
  <1>2. running = {}
    BY <1>1 DEF CallerTypes
  <1>3. \A d \in Callers : d \notin destroys
    BY <1>1 DEF LockHeld, CreateInstance, InShutdown
  <1>4. PICK i \in Instances \ born :
          instances' = i /\ born' = born \cup {i} /\ running' = running \cup {i}
    BY DEF CreateInstance
  <1>5. CallerTypes'
    BY <1>4 DEF CallerTypes, Places, CreateInstance
  <1>6. \A j \in running' : instances' = j
    BY <1>2, <1>4
  <1>7. ASSUME NEW d \in Callers PROVE (LockHeld(d) /\ Stopped(d) /\ FindsKey(d))'
    <2>1. has[d] # i
      BY <1>4 DEF CallerTypes
    <2>2. caller[d] = "creating" => d = c
      BY <1>1 DEF LockHeld
    <2>3. caller'[d] = IF d = c THEN "reading" ELSE caller[d]
      BY DEF CreateInstance, CallerTypes
    <2> QED
      BY <1>1, <1>2, <1>3, <1>4, <2>1, <2>2, <2>3 DEF LockHeld, Stopped, FindsKey, CreateInstance, InShutdown, CallerTypes
  <1> QED
    BY <1>5, <1>6, <1>7

(* DeleteInstance: the instance that leaves the dictionary does not run.    *)
LEMMA DeleteKeeps ==
  ASSUME LifecycleInv, NEW c \in Callers, DeleteInstance(c)
  PROVE  LifecycleInv'
  <1> USE LifecycleAssumption DEF LifecycleInv, Goes
  <1>1. c \in destroys /\ lockedBy = c /\ has[c] = instances /\ has[c] \notin running
    BY DEF LockHeld, Stopped, DeleteInstance
  <1>2. running = {}
    BY <1>1
  <1>3. CallerTypes' /\ \A i \in running' : instances' = i
    BY <1>2 DEF CallerTypes, Places, DeleteInstance
  <1>4. ASSUME NEW d \in Callers PROVE (LockHeld(d) /\ Stopped(d) /\ FindsKey(d))'
    <2>1. caller'[d] = IF d = c THEN "idle" ELSE caller[d]
      BY DEF DeleteInstance, CallerTypes
    <2>2. d # c => caller[d] # "creating" /\ d \notin destroys
      BY <1>1 DEF LockHeld
    <2> QED
      BY <1>2, <2>1, <2>2 DEF LockHeld, Stopped, FindsKey, DeleteInstance, CallerTypes, InShutdown
  <1> QED
    BY <1>3, <1>4

(* The other steps of a caller.                                             *)
LEMMA CallerKeeps ==
  ASSUME LifecycleInv, NEW c \in Callers,
         \/ CallNew(c) \/ LockForNew(c) \/ ReadInstance(c) \/ KeyErrorRaised(c)
         \/ CallShutdown(c) \/ ShutdownStep(c) \/ CallDestroy(c)
  PROVE  LifecycleInv'
  <1> USE LifecycleAssumption
      DEF LifecycleInv, CallerTypes, Places, LockHeld, Stopped, FindsKey, InShutdown, Goes
  <1>1. CASE CallNew(c)
    BY <1>1 DEF CallNew
  <1>2. CASE LockForNew(c)
    BY <1>2 DEF LockForNew
  <1>3. CASE ReadInstance(c)
    BY <1>3 DEF ReadInstance
  <1>4. CASE KeyErrorRaised(c)
    BY <1>4 DEF KeyErrorRaised
  <1>5. CASE CallShutdown(c)
    BY <1>5 DEF CallShutdown
  <1>6. CASE ClearRunning(c)
    BY <1>6 DEF ClearRunning
  <1>7. CASE StopWorkers(c)
    BY <1>7 DEF StopWorkers
  <1>8. CASE JoinCleanup(c)
    BY <1>8 DEF JoinCleanup
  <1>9. CASE ClearResources(c)
    BY <1>9 DEF ClearResources
  <1>10. CASE CallDestroy(c)
    BY <1>10 DEF CallDestroy
  <1> QED
    BY <1>1, <1>2, <1>3, <1>4, <1>5, <1>6, <1>7, <1>8, <1>9, <1>10 DEF ShutdownStep

LEMMA LifecycleInvariant == LifecycleSafety => []LifecycleInv
  <1>1. LifecycleInv /\ [LifecycleNext]_lifecycleVars => LifecycleInv'
    <2> SUFFICES ASSUME LifecycleInv, [LifecycleNext]_lifecycleVars PROVE LifecycleInv'
      OBVIOUS
    <2> USE DEF LifecycleInv, CallerTypes, LockHeld, Stopped, FindsKey
    <2>1. CASE \E i \in Instances : WaitEnds(i) \/ CleanOnce(i)
      BY <2>1 DEF WaitEnds, CleanOnce
    <2>2. CASE UNCHANGED lifecycleVars
      BY <2>2 DEF lifecycleVars
    <2> HIDE DEF LifecycleInv
    <2> QED
      BY <2>1, <2>2, CreateKeeps, DeleteKeeps, CallerKeeps DEF LifecycleNext, CallerStep
  <1> QED
    BY <1>1, LifecycleStart, PTL DEF LifecycleSafety

-----------------------------------------------------------------------------
(* __new__, shutdown and destroy_instance: the running instance is the one  *)
(* in the dictionary, and __new__ raises KeyError only if the key was       *)
(* deleted during the call.                                                 *)
THEOREM OneInstanceRuns == LifecycleSafety => []OneRunningInstance
  <1>1. LifecycleInv => OneRunningInstance
    BY DEF LifecycleInv, FindsKey, OneRunningInstance
  <1> QED
    BY <1>1, LifecycleInvariant, PTL

-----------------------------------------------------------------------------
LEMMA LifecycleTypesKept ==
  ASSUME LifecycleTypeOK, [LifecycleNext]_lifecycleVars
  PROVE  LifecycleTypeOK'
  <1> USE LifecycleAssumption DEF LifecycleTypeOK, Goes, InShutdown
  <1>1. ASSUME NEW c \in Callers, CallNew(c) \/ LockForNew(c) \/ ReadInstance(c) \/ KeyErrorRaised(c)
        PROVE  LifecycleTypeOK'
    BY <1>1 DEF CallNew, LockForNew, ReadInstance, KeyErrorRaised
  <1>2. ASSUME NEW c \in Callers, CreateInstance(c) PROVE LifecycleTypeOK'
    BY <1>2 DEF CreateInstance
  <1>3. ASSUME NEW c \in Callers, CallShutdown(c) \/ ShutdownStep(c) PROVE LifecycleTypeOK'
    BY <1>3 DEF CallShutdown, ShutdownStep, ClearRunning, StopWorkers, JoinCleanup, ClearResources
  <1>4. ASSUME NEW c \in Callers, CallDestroy(c) \/ DeleteInstance(c) PROVE LifecycleTypeOK'
    BY <1>4 DEF CallDestroy, DeleteInstance
  <1>5. ASSUME NEW i \in Instances, WaitEnds(i) \/ CleanOnce(i) PROVE LifecycleTypeOK'
    BY <1>5 DEF WaitEnds, CleanOnce
  <1>6. CASE UNCHANGED lifecycleVars
    BY <1>6 DEF lifecycleVars
  <1> HIDE DEF LifecycleTypeOK
  <1> QED
    BY <1>1, <1>2, <1>3, <1>4, <1>5, <1>6 DEF LifecycleNext, CallerStep

(* Every variable of the registry keeps its type; only instances that were  *)
(* created run.                                                             *)
THEOREM LifecycleTypes == LifecycleSafety => []LifecycleTypeOK
  <1>1. LifecycleInit => LifecycleTypeOK
    BY DEF LifecycleInit, LifecycleTypeOK, InShutdown
  <1>2. LifecycleTypeOK /\ [LifecycleNext]_lifecycleVars => LifecycleTypeOK'
    BY LifecycleTypesKept
  <1> QED
    BY <1>1, <1>2, PTL DEF LifecycleSafety
=============================================================================
