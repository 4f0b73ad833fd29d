------------------------------ MODULE TaskTimeout ------------------------------
(***************************************************************************)
(* TaskExecutor's timeouts: a worker starts a thread for the task, waits    *)
(* for it at most task_timeout, and gives it up: it is tracked, its cancel  *)
(* event set and the cleanup callbacks called, while the thread goes on.    *)
(* That the time is up is a free choice; a tracked entry ages at any time.  *)
(***************************************************************************)
EXTENDS Naturals, Sequences, FiniteSets

CONSTANTS
  Jobs,         (* the tasks; each is executed once, by a worker of its own *)
  WithTimeout,  (* those for which task_timeout is set when they begin      *)
  Hanging,      (* those whose function never ends                          *)
  Callbacks,    (* functions for add_cleanup_callback                       *)
  MaxTracked,   (* MAX_TRACKED_TIMEOUTS                                     *)
  MaxCleaned    (* max_cleanup of cleanup_timed_out_tasks                   *)

ASSUME TimeoutAssumption ==
  /\ WithTimeout \subseteq Jobs /\ Hanging \subseteq WithTimeout
  /\ MaxTracked \in Nat /\ MaxCleaned \in Nat \ {0}

VARIABLES
  worker,     (* where each job's worker is in execute_task                 *)
  thread,     (* the job's own thread: none, running, left, dead            *)
  fate,       (* how its function ended: returned, raised, or exited (by
                 SystemExit or KeyboardInterrupt)                           *)
  container,  (* result_container: what is stored and whether completed     *)
  event,      (* _task_cancel_events: none, clear or set                    *)
  tracked, old,  (* _timed_out_tasks, and those past TIMEOUT_TASK_EXPIRY    *)
  callbacks,  (* _cleanup_callbacks                                         *)
  called,     (* how many of the callbacks were called for each job         *)
  owed,       (* how many there were when its worker began to call them     *)
  report      (* the status the worker reported                             *)

timeoutVars == <<worker, thread, fate, container, event, tracked, old, callbacks,
                 called, owed, report>>

Fates == {"returned", "raised", "exited"}

TimeoutTypeOK ==
  /\ worker \in [Jobs -> {"new", "direct", "registering", "starting", "joining", "checking",
                          "collecting", "tracking", "flagging", "calling", "done"}]
  /\ thread \in [Jobs -> {"none", "running", "left", "dead"}]
  /\ fate \in [Jobs -> Fates \cup {"none"}]
  /\ container \in [Jobs -> [holds : {"nothing", "result", "exception"}, completed : BOOLEAN]]
  /\ event \in [Jobs -> {"none", "clear", "set"}]
  /\ tracked \subseteq WithTimeout /\ old \subseteq tracked /\ Cardinality(tracked) <= MaxTracked
  /\ callbacks \in Seq(Callbacks)
  /\ called \in [Jobs -> 0 .. Len(callbacks)] /\ owed \in [Jobs -> 0 .. Len(callbacks)]
  /\ report \in [Jobs -> {"none", "completed", "failed", "timeout", "silent"}]

TimeoutInit ==
  /\ worker = [j \in Jobs |-> "new"] /\ thread = [j \in Jobs |-> "none"]
  /\ fate = [j \in Jobs |-> "none"]
  /\ container = [j \in Jobs |-> [holds |-> "nothing", completed |-> FALSE]]
  /\ event = [j \in Jobs |-> "none"]
  /\ tracked = {} /\ old = {} /\ callbacks = <<>>
  /\ called = [j \in Jobs |-> 0] /\ owed = [j \in Jobs |-> 0]
  /\ report = [j \in Jobs |-> "none"]

Moves(j, from, to) == worker[j] = from /\ worker' = [worker EXCEPT ![j] = to]

BeginExecution(j) ==
  /\ Moves(j, "new", IF j \in WithTimeout THEN "registering" ELSE "direct")
  /\ UNCHANGED <<thread, fate, container, event, tracked, old, callbacks, called, owed, report>>

(* Without a timeout the function runs in the worker; SystemExit passes     *)
(* through execute_task without a report.                                   *)
RunDirectly(j) ==
  /\ Moves(j, "direct", "done")
  /\ \E f \in Fates :
       /\ fate' = [fate EXCEPT ![j] = f]
       /\ report' = [report EXCEPT ![j] = CASE f = "returned" -> "completed"
                                            [] f = "raised" -> "failed"
                                            [] f = "exited" -> "silent"]
  /\ UNCHANGED <<thread, container, event, tracked, old, callbacks, called, owed>>

RegisterCancelEvent(j) ==
  /\ Moves(j, "registering", "starting")
  /\ event' = [event EXCEPT ![j] = "clear"]
  /\ UNCHANGED <<thread, fate, container, tracked, old, callbacks, called, owed, report>>

StartTaskThread(j) ==
  /\ Moves(j, "starting", "joining")
  /\ thread' = [thread EXCEPT ![j] = "running"]
  /\ UNCHANGED <<fate, container, event, tracked, old, callbacks, called, owed, report>>

(* task_wrapper: the result or the exception is stored, except Exception    *)
(* lets an exit pass, and completed is set last in any case.                *)
Stored(f) == CASE f = "returned" -> "result" [] f = "raised" -> "exception" [] f = "exited" -> "nothing"

FunctionEnds(j) ==
  /\ thread[j] = "running" /\ j \notin Hanging
  /\ thread' = [thread EXCEPT ![j] = "left"]
  /\ \E f \in Fates : /\ fate' = [fate EXCEPT ![j] = f]
                      /\ container' = [container EXCEPT ![j].holds = Stored(f)]
  /\ UNCHANGED <<worker, event, tracked, old, callbacks, called, owed, report>>

SetCompleted(j) ==
  /\ thread[j] = "left" /\ thread' = [thread EXCEPT ![j] = "dead"]
  /\ container' = [container EXCEPT ![j].completed = TRUE]
  /\ UNCHANGED <<worker, fate, event, tracked, old, callbacks, called, owed, report>>

(* Mutant: join waits without a timeout.                                    *)
JoinWithoutTimeout(j) ==
  /\ thread[j] = "dead" /\ Moves(j, "joining", "checking")
  /\ UNCHANGED <<thread, fate, container, event, tracked, old, callbacks, called, owed, report>>

(* join returns because the thread has ended or because the time is up;     *)
(* what counts afterwards is completed alone.                               *)
JoinReturns(j) ==
  /\ Moves(j, "joining", "checking")
  /\ UNCHANGED <<thread, fate, container, event, tracked, old, callbacks, called, owed, report>>

CleanupCancelEvent(j) == event' = [event EXCEPT ![j] = "none"]

(* Mutant: completed is not looked at.                                      *)
TakeAsCompleted(j) ==
  /\ Moves(j, "checking", "collecting") /\ CleanupCancelEvent(j)
  /\ UNCHANGED <<thread, fate, container, tracked, old, callbacks, called, owed, report>>

(* Mutant: the cancel event is given up in either case.                     *)
CleanupBeforeHandling(j) ==
  /\ Moves(j, "checking", IF container[j].completed THEN "collecting" ELSE "tracking")
  /\ CleanupCancelEvent(j)
  /\ UNCHANGED <<thread, fate, container, tracked, old, callbacks, called, owed, report>>

WaitForTaskCompletion(j) ==
  /\ IF container[j].completed THEN Moves(j, "checking", "collecting") /\ CleanupCancelEvent(j)
                               ELSE Moves(j, "checking", "tracking") /\ UNCHANGED event
  /\ UNCHANGED <<thread, fate, container, tracked, old, callbacks, called, owed, report>>

(* An exception is raised again, anything else is the result.               *)
CollectOutcome(j) ==
  /\ Moves(j, "collecting", "done")
  /\ IF container[j].holds = "exception"
       THEN report' = [report EXCEPT ![j] = "failed"] /\ UNCHANGED event
       ELSE report' = [report EXCEPT ![j] = "completed"] /\ CleanupCancelEvent(j)
  /\ UNCHANGED <<thread, fate, container, tracked, old, callbacks, called, owed>>

(* Mutant: the limit is not looked at.                                      *)
TrackPastTheLimit(j) ==
  /\ Moves(j, "tracking", "flagging") /\ tracked' = tracked \cup {j}
  /\ UNCHANGED <<thread, fate, container, event, old, callbacks, called, owed, report>>

(* Old entries make room; a task that finds none is not tracked.            *)
TrackTimedOutTask(j) ==
  /\ Moves(j, "tracking", "flagging")
  /\ tracked' = (tracked \ old) \cup
                  (IF Cardinality(tracked \ old) < MaxTracked THEN {j} ELSE {})
  /\ old' = {}
  /\ UNCHANGED <<thread, fate, container, event, callbacks, called, owed, report>>

SetCancelEvent(j) ==
  /\ Moves(j, "flagging", "calling")
  /\ event' = [event EXCEPT ![j] = IF @ = "none" THEN @ ELSE "set"]
  /\ owed' = [owed EXCEPT ![j] = Len(callbacks)]
  /\ UNCHANGED <<thread, fate, container, tracked, old, callbacks, called, report>>

(* The list is walked without a lock, and may grow meanwhile; what a        *)
(* callback raises is logged.                                               *)
TriggerCallback(j) ==
  /\ worker[j] = "calling" /\ called[j] < Len(callbacks)
  /\ called' = [called EXCEPT ![j] = @ + 1]
  /\ UNCHANGED <<worker, thread, fate, container, event, tracked, old, callbacks, owed, report>>

RaiseTimeout(j) ==
  /\ called[j] = Len(callbacks) /\ Moves(j, "calling", "done")
  /\ report' = [report EXCEPT ![j] = "timeout"]
  /\ UNCHANGED <<thread, fate, container, event, tracked, old, callbacks, called, owed>>

AddCleanupCallback(c) ==
  /\ c \notin {callbacks[i] : i \in DOMAIN callbacks}
  /\ callbacks' = Append(callbacks, c)
  /\ UNCHANGED <<worker, thread, fate, container, event, tracked, old, called, owed, report>>

EntryAges(j) ==
  /\ j \in tracked /\ old' = old \cup {j}
  /\ UNCHANGED <<worker, thread, fate, container, event, tracked, callbacks, called, owed, report>>

CleanupTimedOutTasks ==
  /\ \E S \in SUBSET old \ {{}} :
       /\ Cardinality(S) = IF Cardinality(old) > MaxCleaned THEN MaxCleaned ELSE Cardinality(old)
       /\ tracked' = tracked \ S /\ old' = old \ S
  /\ UNCHANGED <<worker, thread, fate, container, event, callbacks, called, owed, report>>

WorkerStep(j) ==
  \/ BeginExecution(j) \/ RunDirectly(j) \/ RegisterCancelEvent(j) \/ StartTaskThread(j)
  \/ JoinReturns(j) \/ WaitForTaskCompletion(j) \/ CollectOutcome(j)
  \/ TrackTimedOutTask(j) \/ SetCancelEvent(j) \/ TriggerCallback(j) \/ RaiseTimeout(j)

TimeoutNext ==
  \/ \E j \in Jobs : WorkerStep(j) \/ FunctionEnds(j) \/ SetCompleted(j) \/ EntryAges(j)
  \/ \E c \in Callbacks : AddCleanupCallback(c)
  \/ CleanupTimedOutTasks

(* Only the workers are obliged to go on: no task function ever has to end. *)
TimeoutFairness == \A j \in Jobs : WF_timeoutVars(WorkerStep(j))

TimeoutSafety == TimeoutInit /\ [][TimeoutNext]_timeoutVars

TimeoutSpec == TimeoutSafety /\ TimeoutFairness

-----------------------------------------------------------------------------
(* The report of a worker that waited agrees with how the function ended    *)
(* ("Exception: what the task raises"); a function left by SystemExit alone *)
(* is reported completed, since task_wrapper stores nothing for it.         *)
ReportMatchesFate ==
  \A j \in Jobs :
    /\ report[j] = "completed" =>
         \/ fate[j] = "returned" /\ (j \in WithTimeout => container[j].holds = "result")
         \/ fate[j] = "exited" /\ j \in WithTimeout
    /\ report[j] = "failed" => fate[j] = "raised"

(* While a task's thread runs its function, get_cancel_event finds its      *)
(* event, set once the worker has given it up, and by the report of the     *)
(* timeout every callback there was has been called for it.                 *)
CancelReachesTask ==
  \A j \in Jobs :
    /\ thread[j] = "running" => event[j] # "none"
    /\ report[j] = "timeout" =>
         (thread[j] = "running" => event[j] = "set") /\ called[j] >= owed[j]

(* An execution ends, even if its function hangs.                           *)
ExecutionsEnd == \A j \in Jobs : worker[j] # "new" ~> worker[j] = "done"
=============================================================================
