-------------------------- MODULE TaskTimeoutProofs ---------------------------
(***************************************************************************)
(* For any number of tasks, callbacks and time-outs, and whenever each      *)
(* function ends: what a worker reports agrees with how the function ended, *)
(* and a task that is given up can be told so.                              *)
(***************************************************************************)
EXTENDS TaskTimeout, FiniteSetTheorems, TLAPS

(* Where a worker is before its task has a thread, and after it gave it up. *)
Unstarted == {"new", "registering", "starting"}
GivingUp == {"tracking", "flagging", "calling"}

JobTypes ==
  /\ worker \in [Jobs -> Unstarted \cup GivingUp \cup {"direct", "joining", "checking", "collecting", "done"}]
  /\ thread \in [Jobs -> {"none", "running", "left", "dead"}]
  /\ fate \in [Jobs -> Fates \cup {"none"}]
  /\ container \in [Jobs -> [holds : {"nothing", "result", "exception"}, completed : BOOLEAN]]
  /\ event \in [Jobs -> {"none", "clear", "set"}]
  /\ callbacks \in Seq(Callbacks)
  /\ called \in [Jobs -> Nat] /\ owed \in [Jobs -> Nat]
  /\ report \in [Jobs -> {"none", "completed", "failed", "timeout", "silent"}]

(* The container follows the thread: what the function left is stored       *)
(* first, completed is set last.                                            *)
ContainerFollows(j) ==
  /\ thread[j] \in {"none", "running"} =>
       container[j].holds = "nothing" /\ (j \in WithTimeout => fate[j] = "none")
  /\ thread[j] \in {"left", "dead"} => fate[j] \in Fates /\ container[j].holds = Stored(fate[j])
  /\ container[j].completed <=> thread[j] = "dead"

(* The thread follows the worker.                                           *)
ThreadFollows(j) ==
  /\ j \notin WithTimeout => thread[j] = "none" /\ worker[j] \in {"new", "direct", "done"}
  /\ j \in WithTimeout => worker[j] # "direct" /\ (worker[j] \in Unstarted <=> thread[j] = "none")
  /\ worker[j] = "collecting" => container[j].completed

(* A cancel event is given up only for a task that has completed.           *)
EventFollows(j) ==
  /\ worker[j] \in {"starting", "joining", "checking"} \cup GivingUp => event[j] # "none"
  /\ worker[j] \in {"collecting", "done"} /\ report[j] # "timeout" /\ j \in WithTimeout =>
       container[j].completed
  /\ worker[j] = "calling" => event[j] = "set" /\ owed[j] <= Len(callbacks)

(* A report is what the container held.                                     *)
ReportFollows(j) ==
  /\ report[j] # "none" => worker[j] = "done"
  /\ report[j] = "completed" =>
       IF j \in WithTimeout THEN container[j].completed /\ container[j].holds # "exception"
                            ELSE fate[j] = "returned"
  /\ report[j] = "failed" =>
       IF j \in WithTimeout THEN container[j].completed /\ container[j].holds = "exception"
                            ELSE fate[j] = "raised"
  /\ report[j] = "timeout" => event[j] = "set" /\ called[j] >= owed[j]

JobInv(j) == ContainerFollows(j) /\ ThreadFollows(j) /\ EventFollows(j) /\ ReportFollows(j)

TimeoutInv == JobTypes /\ \A j \in Jobs : JobInv(j)

-----------------------------------------------------------------------------
LEMMA TimeoutStart == TimeoutInit => TimeoutInv
  <1> SUFFICES ASSUME TimeoutInit PROVE TimeoutInv
    OBVIOUS
  <1>1. JobTypes
    BY DEF TimeoutInit, JobTypes, Unstarted
  <1>2. ASSUME NEW j \in Jobs PROVE JobInv(j)
    BY TimeoutAssumption DEF TimeoutInit, JobInv, ContainerFollows, ThreadFollows, EventFollows,
       ReportFollows, Unstarted, GivingUp
  <1> QED
    BY <1>1, <1>2 DEF TimeoutInv

(* A step of one worker.                                                    *)
LEMMA WorkerKeeps ==
  ASSUME TimeoutInv, NEW j \in Jobs, WorkerStep(j)
  PROVE  TimeoutInv'
  <1> USE TimeoutAssumption DEF TimeoutInv, Moves, Unstarted, GivingUp, Fates
  <1> USE DEF JobInv, ContainerFollows, ThreadFollows, EventFollows, ReportFollows, JobTypes
  <1>1. CASE BeginExecution(j)
    BY <1>1 DEF BeginExecution
  <1>2. CASE RunDirectly(j)
    BY <1>2 DEF RunDirectly
  <1>3. CASE RegisterCancelEvent(j)
    BY <1>3 DEF RegisterCancelEvent
  <1>4. CASE StartTaskThread(j)
    BY <1>4 DEF StartTaskThread
  <1>5. CASE JoinReturns(j)
    <2>1. JobTypes'
      BY <1>5 DEF JoinReturns
    <2>2. ASSUME NEW k \in Jobs, k # j PROVE JobInv(k)'
      <3>1. JobInv(k) /\ k \in Jobs
        BY <2>2
      <3> QED
        BY <1>5, <2>2, <3>1 DEF JoinReturns
    <2>3. JobInv(j)'
      <3>1. JobInv(j)
        OBVIOUS
      <3> QED
        BY <1>5, <3>1 DEF JoinReturns
    <2> QED
      BY <2>1, <2>2, <2>3
  <1>6. CASE WaitForTaskCompletion(j)
    <2>1. JobTypes'
      BY <1>6 DEF WaitForTaskCompletion, CleanupCancelEvent
    <2>2. ASSUME NEW k \in Jobs, k # j PROVE JobInv(k)'
      <3>1. JobInv(k) /\ k \in Jobs
        BY <2>2
      <3> QED
        BY <1>6, <2>2, <3>1 DEF WaitForTaskCompletion, CleanupCancelEvent
    <2>3. JobInv(j)'
      <3>1. JobInv(j)
        OBVIOUS
      <3> QED
        BY <1>6, <3>1 DEF WaitForTaskCompletion, CleanupCancelEvent
    <2> QED
      BY <2>1, <2>2, <2>3
  <1>7. CASE CollectOutcome(j)
    <2>1. /\ Moves(j, "collecting", "done")
          /\ UNCHANGED <<thread, fate, container, tracked, old, callbacks, called, owed>>
          /\ \/ /\ container[j].holds = "exception"
                /\ report' = [report EXCEPT ![j] = "failed"] /\ UNCHANGED event
             \/ /\ container[j].holds # "exception"
                /\ report' = [report EXCEPT ![j] = "completed"]
                /\ event' = [event EXCEPT ![j] = "none"]
      <3> HIDE DEF TimeoutInv, JobInv, JobTypes
      <3> QED
        BY <1>7 DEF CollectOutcome, CleanupCancelEvent
    <2>2. CASE container[j].holds = "exception"
      <3>1. JobTypes'
        <4>1. JobTypes /\ worker' = [worker EXCEPT ![j] = "done"]
          BY <2>1
        <4> HIDE DEF TimeoutInv, JobInv, ContainerFollows, ThreadFollows, EventFollows, ReportFollows
        <4>2. worker' \in [Jobs -> Unstarted \cup GivingUp \cup {"direct", "joining", "checking", "collecting", "done"}]
          BY <4>1
        <4>3. event' \in [Jobs -> {"none", "clear", "set"}]
          BY <4>1, <2>1
        <4>4. report' \in [Jobs -> {"none", "completed", "failed", "timeout", "silent"}]
          BY <4>1, <2>1
        <4> QED
          BY <4>1, <4>2, <4>3, <4>4, <2>1
      <3>2. ASSUME NEW k \in Jobs, k # j PROVE JobInv(k)'
        <4>1. JobInv(k)
          BY <3>2
        <4>2. JobTypes
          OBVIOUS
        <4> HIDE DEF TimeoutInv
        <4> QED
          BY <4>1, <4>2, <2>1, <2>2, <3>2
      <3>3. JobInv(j)'
        <4>1. JobInv(j) /\ j \in WithTimeout
          BY <2>1
        <4>2. JobTypes
          OBVIOUS
        <4> HIDE DEF TimeoutInv
        <4> QED
          BY <4>1, <4>2, <2>1, <2>2
      <3> QED
        BY <3>1, <3>2, <3>3
    <2>3. CASE container[j].holds # "exception"
      <3>1. JobTypes'
        <4>1. JobTypes /\ worker' = [worker EXCEPT ![j] = "done"]
          BY <2>1
        <4> HIDE DEF TimeoutInv, JobInv, ContainerFollows, ThreadFollows, EventFollows, ReportFollows
        <4>2. worker' \in [Jobs -> Unstarted \cup GivingUp \cup {"direct", "joining", "checking", "collecting", "done"}]
          BY <4>1
        <4>3. event' \in [Jobs -> {"none", "clear", "set"}]
          BY <4>1, <2>1
        <4>4. report' \in [Jobs -> {"none", "completed", "failed", "timeout", "silent"}]
          BY <4>1, <2>1
        <4> QED
          BY <4>1, <4>2, <4>3, <4>4, <2>1
      <3>2. ASSUME NEW k \in Jobs, k # j PROVE JobInv(k)'
        <4>1. JobInv(k)
          BY <3>2
        <4>2. JobTypes
          OBVIOUS
        <4> HIDE DEF TimeoutInv
        <4> QED
          BY <4>1, <4>2, <2>1, <2>3, <3>2
      <3>3. JobInv(j)'
        <4>1. JobInv(j) /\ j \in WithTimeout
          BY <2>1
        <4>2. JobTypes
          OBVIOUS
        <4> HIDE DEF TimeoutInv
        <4> QED
          BY <4>1, <4>2, <2>1, <2>3
      <3> QED
        BY <3>1, <3>2, <3>3
    <2> QED
      BY <2>2, <2>3
  <1>8. CASE TrackTimedOutTask(j)
    BY <1>8 DEF TrackTimedOutTask
  <1>9. CASE SetCancelEvent(j)
    BY <1>9 DEF SetCancelEvent
  <1>10. CASE TriggerCallback(j)
    BY <1>10 DEF TriggerCallback
  <1>11. CASE RaiseTimeout(j)
    BY <1>11 DEF RaiseTimeout
  <1> QED
    BY <1>1, <1>2, <1>3, <1>4, <1>5, <1>6, <1>7, <1>8, <1>9, <1>10, <1>11 DEF WorkerStep

(* The end of a task's function, in two steps.                              *)
LEMMA ThreadKeeps ==
  ASSUME TimeoutInv, NEW j \in Jobs, FunctionEnds(j) \/ SetCompleted(j)
  PROVE  TimeoutInv'
  <1> USE TimeoutAssumption DEF TimeoutInv, Unstarted, GivingUp, Fates
  <1> USE DEF JobInv, ContainerFollows, ThreadFollows, EventFollows, ReportFollows, JobTypes
  <1>1. CASE FunctionEnds(j)
    <2>1. JobTypes'
      <3>1. \E v \in {"nothing", "result", "exception"} : container' = [container EXCEPT ![j].holds = v]
        BY <1>1 DEF FunctionEnds, Stored
      <3>2. container \in [Jobs -> [holds : {"nothing", "result", "exception"}, completed : BOOLEAN]]
        OBVIOUS
      <3>3. (container \in [Jobs -> [holds : {"nothing", "result", "exception"}, completed : BOOLEAN]])'
        <4> HIDE DEF TimeoutInv, JobTypes, JobInv
        <4> QED
          BY <3>1, <3>2
      <3>4. thread' \in [Jobs -> {"none", "running", "left", "dead"}]
        BY <1>1 DEF FunctionEnds
      <3>5. fate' \in [Jobs -> Fates \cup {"none"}]
        BY <1>1 DEF FunctionEnds
      <3>6. JobTypes /\ UNCHANGED <<worker, event, callbacks, called, owed, report>>
        BY <1>1 DEF FunctionEnds
      <3> HIDE DEF TimeoutInv, JobInv
      <3> QED
        BY <3>3, <3>4, <3>5, <3>6
    <2>2. ASSUME NEW k \in Jobs, k # j PROVE JobInv(k)'
      <3>1. JobInv(k) /\ k \in Jobs
        BY <2>2
      <3> QED
        BY <1>1, <2>2, <3>1 DEF FunctionEnds, Stored
    <2>3. JobInv(j)'
      <3>1. JobInv(j)
        OBVIOUS
      <3> QED
        BY <1>1, <3>1 DEF FunctionEnds, Stored
    <2> QED
      BY <2>1, <2>2, <2>3
  <1>2. CASE SetCompleted(j)
    <2>1. JobTypes'
      <3>1. container' = [container EXCEPT ![j].completed = TRUE]
        BY <1>2 DEF SetCompleted
      <3>2. container \in [Jobs -> [holds : {"nothing", "result", "exception"}, completed : BOOLEAN]]
        OBVIOUS
      <3>3. (container \in [Jobs -> [holds : {"nothing", "result", "exception"}, completed : BOOLEAN]])'
        <4> HIDE DEF TimeoutInv, JobTypes, JobInv
        <4> QED
          BY <3>1, <3>2
      <3> QED
        BY <1>2, <3>3 DEF SetCompleted
    <2>2. ASSUME NEW k \in Jobs, k # j PROVE JobInv(k)'
      <3>1. JobInv(k) /\ k \in Jobs
        BY <2>2
      <3> QED
        BY <1>2, <2>2, <3>1 DEF SetCompleted
    <2>3. JobInv(j)'
      <3>1. JobInv(j)
        OBVIOUS
      <3> QED
        BY <1>2, <3>1 DEF SetCompleted
    <2> QED
      BY <2>1, <2>2, <2>3
  <1> QED
    BY <1>1, <1>2

(* Callbacks are added, tracked entries age and are cleaned up.             *)
LEMMA OthersKeep ==
  ASSUME TimeoutInv,
         \/ \E j \in Jobs : EntryAges(j)
         \/ \E c \in Callbacks : AddCleanupCallback(c)
         \/ CleanupTimedOutTasks
         \/ UNCHANGED timeoutVars
  PROVE  TimeoutInv'
  <1> USE DEF TimeoutInv, JobInv, ContainerFollows, ThreadFollows, EventFollows, ReportFollows, JobTypes
  <1>1. CASE \E c \in Callbacks : AddCleanupCallback(c)
    <2>1. callbacks' \in Seq(Callbacks) /\ Len(callbacks') = Len(callbacks) + 1
      BY <1>1 DEF AddCleanupCallback
    <2> QED
      BY <1>1, <2>1 DEF AddCleanupCallback
  <1>2. CASE \E j \in Jobs : EntryAges(j)
    BY <1>2 DEF EntryAges
  <1>3. CASE CleanupTimedOutTasks
    BY <1>3 DEF CleanupTimedOutTasks
  <1>4. CASE UNCHANGED timeoutVars
    BY <1>4 DEF timeoutVars
  <1> QED
    BY <1>1, <1>2, <1>3, <1>4

LEMMA TimeoutInvariant == TimeoutSafety => []TimeoutInv
  <1>1. TimeoutInv /\ [TimeoutNext]_timeoutVars => TimeoutInv'
    BY WorkerKeeps, ThreadKeeps, OthersKeep DEF TimeoutNext
  <1> QED
    BY <1>1, TimeoutStart, PTL DEF TimeoutSafety

-----------------------------------------------------------------------------
(* execute_task: a task is reported completed or failed only after its      *)
(* function ended so, however late the worker looks.                        *)
THEOREM ReportsAgree == TimeoutSafety => []ReportMatchesFate
  <1>1. TimeoutInv => ReportMatchesFate
    BY DEF TimeoutInv, JobTypes, JobInv, ContainerFollows, ThreadFollows, ReportFollows,
       ReportMatchesFate, Stored, Fates
  <1> QED
    BY <1>1, TimeoutInvariant, PTL

(* get_cancel_event finds the event of a task that still runs, and finds it *)
(* set once the task was reported timed out.                                *)
THEOREM CancellationArrives == TimeoutSafety => []CancelReachesTask
  <1>1. TimeoutInv => CancelReachesTask
    <2> SUFFICES ASSUME TimeoutInv, NEW j \in Jobs
                 PROVE  /\ thread[j] = "running" => event[j] # "none"
                        /\ report[j] = "timeout" => event[j] = "set" /\ called[j] >= owed[j]
      BY DEF CancelReachesTask
    <2> USE DEF TimeoutInv, JobTypes, JobInv, ContainerFollows, ThreadFollows, EventFollows,
                ReportFollows, Unstarted, GivingUp
    <2>1. report[j] = "timeout" => event[j] = "set" /\ called[j] >= owed[j]
      OBVIOUS
    <2>2. ASSUME thread[j] = "running" PROVE event[j] # "none"
      <3>1. ~container[j].completed /\ j \in WithTimeout /\ worker[j] \notin Unstarted
        BY <2>2
      <3>2. worker[j] # "collecting" /\ worker[j] # "direct"
        BY <3>1
      <3>3. worker[j] = "done" => report[j] = "timeout"
        BY <3>1
      <3> QED
        BY <3>1, <3>2, <3>3, <2>1
    <2> QED
      BY <2>1, <2>2
  <1> QED
    BY <1>1, TimeoutInvariant, PTL

-----------------------------------------------------------------------------
(* The list of timed-out tasks, and how far the list of callbacks has been  *)
(* walked for each of them.                                                 *)
Limits ==
  /\ tracked \subseteq WithTimeout /\ old \subseteq tracked
  /\ IsFiniteSet(tracked) /\ Cardinality(tracked) <= MaxTracked
  /\ \A j \in Jobs : called[j] <= Len(callbacks) /\ owed[j] <= Len(callbacks)

LEMMA LimitsAtStart == TimeoutInit => Limits
  <1> SUFFICES ASSUME TimeoutInit PROVE Limits
    OBVIOUS
  <1>1. tracked = {} /\ old = {} /\ Len(callbacks) = 0
    BY DEF TimeoutInit
  <1>2. \A j \in Jobs : called[j] <= Len(callbacks) /\ owed[j] <= Len(callbacks)
    BY <1>1 DEF TimeoutInit
  <1> QED
    BY <1>1, <1>2, FS_EmptySet, TimeoutAssumption DEF Limits

(* _track_timed_out_task: what it adds finds room.                          *)
LEMMA TrackingKeepsLimit ==
  ASSUME TimeoutInv, Limits, NEW j \in Jobs, TrackTimedOutTask(j)
  PROVE  Limits'
  <1> DEFINE young == tracked \ old
  <1>1. j \in WithTimeout
    BY DEF TrackTimedOutTask, Moves, TimeoutInv, JobInv, ThreadFollows
  <1>2. /\ tracked' = young \cup (IF Cardinality(young) < MaxTracked THEN {j} ELSE {})
        /\ old' = {} /\ UNCHANGED <<called, owed, callbacks>>
    BY DEF TrackTimedOutTask
  <1>3. /\ IsFiniteSet(young) /\ Cardinality(young) \in Nat /\ Cardinality(young) <= MaxTracked
        /\ young \subseteq WithTimeout
    BY FS_Subset, FS_CardinalityType, TimeoutAssumption DEF Limits
  <1> HIDE DEF young
  <1>4. IsFiniteSet(tracked') /\ Cardinality(tracked') <= MaxTracked /\ tracked' \subseteq WithTimeout
    <2>1. CASE Cardinality(young) < MaxTracked
      <3>1. /\ IsFiniteSet(young \cup {j})
            /\ Cardinality(young \cup {j}) = IF j \in young THEN Cardinality(young) ELSE Cardinality(young) + 1
        BY <1>3, FS_AddElement, Zenon
      <3>2. tracked' = young \cup {j}
        BY <1>2, <2>1
      <3> QED
        BY <1>1, <1>3, <2>1, <3>1, <3>2, TimeoutAssumption
    <2>2. CASE ~(Cardinality(young) < MaxTracked)
      <3>1. tracked' = young
        BY <1>2, <2>2
      <3> QED
        BY <1>3, <3>1
    <2> QED
      BY <2>1, <2>2
  <1> QED
    BY <1>2, <1>4 DEF Limits

LEMMA LimitsKept ==
  ASSUME TimeoutInv, Limits, [TimeoutNext]_timeoutVars
  PROVE  Limits'
  <1> USE DEF Limits
  <1>0. /\ called \in [Jobs -> Nat] /\ owed \in [Jobs -> Nat] /\ callbacks \in Seq(Callbacks)
    BY DEF TimeoutInv, JobTypes
  <1>1. ASSUME NEW j \in Jobs, WorkerStep(j) PROVE Limits'
    <2>1. CASE TrackTimedOutTask(j)
      BY <2>1, TrackingKeepsLimit
    <2>2. CASE SetCancelEvent(j)
      BY <1>0, <2>2 DEF SetCancelEvent
    <2>3. CASE TriggerCallback(j)
      BY <1>0, <2>3 DEF TriggerCallback
    <2>4. CASE \/ BeginExecution(j) \/ RunDirectly(j) \/ RegisterCancelEvent(j) \/ StartTaskThread(j)
               \/ JoinReturns(j) \/ WaitForTaskCompletion(j) \/ CollectOutcome(j) \/ RaiseTimeout(j)
      <3>1. UNCHANGED <<tracked, old, called, owed, callbacks>>
        BY <2>4 DEF BeginExecution, RunDirectly, RegisterCancelEvent, StartTaskThread, JoinReturns,
           WaitForTaskCompletion, CollectOutcome, RaiseTimeout
      <3> QED
        BY <3>1
    <2> QED
      BY <1>1, <2>1, <2>2, <2>3, <2>4 DEF WorkerStep
  <1>2. ASSUME NEW c \in Callbacks, AddCleanupCallback(c) PROVE Limits'
    <2>1. Len(callbacks') = Len(callbacks) + 1 /\ Len(callbacks) \in Nat
      BY <1>0, <1>2 DEF AddCleanupCallback
    <2>2. UNCHANGED <<tracked, old, called, owed>>
      BY <1>2 DEF AddCleanupCallback
    <2> QED
      BY <1>0, <2>1, <2>2
  <1>3. ASSUME NEW j \in Jobs, EntryAges(j) PROVE Limits'
    BY <1>3 DEF EntryAges
  <1>4. ASSUME CleanupTimedOutTasks PROVE Limits'
    <2>1. /\ tracked' \subseteq tracked /\ old' \subseteq tracked'
          /\ UNCHANGED <<called, owed, callbacks>>
      BY <1>4 DEF CleanupTimedOutTasks
    <2>2. /\ IsFiniteSet(tracked') /\ Cardinality(tracked') \in Nat /\ Cardinality(tracked) \in Nat
          /\ Cardinality(tracked') <= Cardinality(tracked)
      BY <2>1, FS_Subset, FS_CardinalityType
    <2> QED
      BY <2>1, <2>2, TimeoutAssumption
  <1>5. CASE UNCHANGED timeoutVars \/ \E j \in Jobs : FunctionEnds(j) \/ SetCompleted(j)
    <2>1. UNCHANGED <<tracked, old, called, owed, callbacks>>
      BY <1>5 DEF timeoutVars, FunctionEnds, SetCompleted
    <2> QED
      BY <2>1
  <1> QED
    BY <1>1, <1>2, <1>3, <1>4, <1>5 DEF TimeoutNext

(* TaskExecutor: never more than MAX_TRACKED_TIMEOUTS tasks are tracked,    *)
(* and no callback is called that is not in the list.                       *)
THEOREM TimeoutsAreBounded == TimeoutSafety => []TimeoutTypeOK
  <1>1. TimeoutInv /\ Limits => TimeoutTypeOK
    <2> SUFFICES ASSUME TimeoutInv, Limits PROVE TimeoutTypeOK
      OBVIOUS
    <2>1. JobTypes
      BY DEF TimeoutInv
    <2>2. Len(callbacks) \in Nat
      BY <2>1 DEF JobTypes
    <2>3. called \in [Jobs -> 0 .. Len(callbacks)] /\ owed \in [Jobs -> 0 .. Len(callbacks)]
      BY <2>1, <2>2 DEF JobTypes, Limits
    <2> QED
      BY <2>1, <2>3 DEF JobTypes, Limits, TimeoutTypeOK, Unstarted, GivingUp
  <1>2. TimeoutInv /\ Limits /\ [TimeoutNext]_timeoutVars => Limits'
    BY LimitsKept
  <1> QED
    BY <1>1, <1>2, LimitsAtStart, TimeoutInvariant, PTL DEF TimeoutSafety
=============================================================================
