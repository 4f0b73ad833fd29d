------------------------------ MODULE WorkerPool ------------------------------
(***************************************************************************)
(* WorkerManager and AdaptiveWorkerManager: the worker threads, the list    *)
(* worker_threads that stands for them, scaling up, idle exits and shutdown.*)
(*                                                                         *)
(* Every block under threads_lock is one step.  A thread that has ended and *)
(* is not listed stands for one that does not exist: scaling up may use its *)
(* name again.  Times (idle time, cooldowns, CPU load) are free choices.    *)
(***************************************************************************)
EXTENDS Naturals, Sequences, FiniteSets

CONSTANTS
  Threads,    (* names for worker threads                                  *)
  MinWorkers, MaxWorkers,
  Initial,    (* the threads start_initial_workers starts                  *)
  QueueSize,  (* maxsize of the task queue                                 *)
  HighMark,   (* queue_threshold_high                                      *)
  Clients,    (* how many clients may be inside submit_task at a time      *)
  Adaptive,   (* adaptive_worker_enabled                                   *)
  MayDie,     (* a task may raise SystemExit or KeyboardInterrupt          *)
  MayShutdown

Task == "task"
Pill == "exit"

ASSUME PoolAssumption ==
  /\ IsFiniteSet(Threads)
  /\ MinWorkers \in Nat \ {0} /\ MaxWorkers \in Nat /\ MinWorkers <= MaxWorkers
  /\ Initial \subseteq Threads /\ Cardinality(Initial) = MinWorkers
  /\ QueueSize \in Nat \ {0} /\ HighMark \in Nat /\ Clients \in Nat
  /\ Adaptive \in BOOLEAN /\ MayDie \in BOOLEAN /\ MayShutdown \in BOOLEAN

VARIABLES
  pc,          (* each thread's place in _worker_loop                       *)
  idle,        (* idle_start is set                                         *)
  listed,      (* worker_threads                                            *)
  queue,       (* task_queue: tasks and exit signals                        *)
  scheduling,  (* clients that have queued a task but not scheduled a check *)
  check,       (* the delayed scale check                                   *)
  upCooling, downCooling,  (* _last_scale_up, _last_scale_down are recent   *)
  phase,       (* of shutdown                                               *)
  pills,       (* exit signals still to send                                *)
  joining      (* threads still to join                                     *)

clientVars == <<scheduling, check>>
stopVars == <<phase, pills, joining>>
vars == <<pc, idle, listed, queue, clientVars, upCooling, downCooling, stopVars>>

Pcs == {"testing", "getting", "busy", "counting", "chosen", "stamped", "exiting", "gone"}
Checks == {"none", "waiting", "ran", "cancelled"}
Phases == {"running", "stopping", "counting", "signalling", "joining", "stopped"}

Live == {w \in Threads : pc[w] # "gone"}

TypeOK ==
  /\ pc \in [Threads -> Pcs]
  /\ idle \in [Threads -> BOOLEAN]
  /\ listed \subseteq Threads
  /\ queue \in Seq({Task, Pill}) /\ Len(queue) <= QueueSize
  /\ scheduling \in 0 .. Clients
  /\ check \in Checks
  /\ upCooling \in BOOLEAN /\ downCooling \in BOOLEAN
  /\ phase \in Phases /\ pills \in Nat /\ joining \subseteq Threads

(* start_initial_workers has run: nobody else has the manager before that.  *)
Init ==
  /\ pc = [w \in Threads |-> IF w \in Initial THEN "testing" ELSE "gone"]
  /\ idle = [w \in Threads |-> FALSE]
  /\ listed = Initial
  /\ queue = <<>>
  /\ scheduling = 0 /\ check = "none"
  /\ upCooling = FALSE /\ downCooling = FALSE
  /\ phase = "running" /\ pills = 0 /\ joining = {}

Goto(w, place) == pc' = [pc EXCEPT ![w] = place]

-----------------------------------------------------------------------------
(* _worker_loop.                                                            *)

TestNothing(w) ==
  /\ pc[w] = "testing"
  /\ Goto(w, "getting")
  /\ UNCHANGED <<idle, listed, queue, clientVars, upCooling, downCooling, stopVars>>

(* while self._running_event.is_set()                                       *)
Test(w) ==
  /\ pc[w] = "testing"
  /\ Goto(w, IF phase = "running" THEN "getting" ELSE "gone")
  /\ UNCHANGED <<idle, listed, queue, clientVars, upCooling, downCooling, stopVars>>

Take(w) ==
  /\ pc[w] = "getting"
  /\ queue # <<>>
  /\ queue' = Tail(queue)
  /\ IF Head(queue) = Pill
     THEN Goto(w, "gone") /\ UNCHANGED idle
     ELSE Goto(w, "busy") /\ idle' = [idle EXCEPT ![w] = FALSE]
  /\ UNCHANGED <<listed, clientVars, upCooling, downCooling, stopVars>>

Finish(w) ==
  /\ pc[w] = "busy"
  /\ Goto(w, "testing")
  /\ UNCHANGED <<idle, listed, queue, clientVars, upCooling, downCooling, stopVars>>

(* Only "except Exception" guards the call: the other two end the thread,   *)
(* which stays in the list.                                                 *)
Die(w) ==
  /\ MayDie
  /\ pc[w] = "busy"
  /\ Goto(w, "gone")
  /\ UNCHANGED <<idle, listed, queue, clientVars, upCooling, downCooling, stopVars>>

(* queue.Empty: note the time once, then ask whether it was too long.       *)
GetTimeout(w) ==
  /\ pc[w] = "getting"
  /\ queue = <<>>
  /\ IF idle[w]
     THEN /\ UNCHANGED idle
          /\ \/ Goto(w, "testing")
             \/ Goto(w, IF Adaptive THEN "counting" ELSE "exiting")
     ELSE idle' = [idle EXCEPT ![w] = TRUE] /\ Goto(w, "testing")
  /\ UNCHANGED <<listed, queue, clientVars, upCooling, downCooling, stopVars>>

(* _check_idle_timeout reads the two counts under the lock ...              *)
CountWorkers(w) ==
  /\ pc[w] = "counting"
  /\ Goto(w, IF Cardinality(listed) > MinWorkers /\ queue = <<>> THEN "chosen" ELSE "testing")
  /\ UNCHANGED <<idle, listed, queue, clientVars, upCooling, downCooling, stopVars>>

(* ... and should_scale_down reads the cooldown without any lock, ...       *)
ReadCooldown(w) ==
  /\ pc[w] = "chosen"
  /\ Goto(w, IF downCooling THEN "testing" ELSE "stamped")
  /\ UNCHANGED <<idle, listed, queue, clientVars, upCooling, downCooling, stopVars>>

(* ... which it starts anew in a later step.                                *)
StampCooldown(w) ==
  /\ pc[w] = "stamped"
  /\ downCooling' = TRUE
  /\ Goto(w, "exiting")
  /\ UNCHANGED <<idle, listed, queue, clientVars, upCooling, stopVars>>

ExitUnconditionally(w) ==
  /\ pc[w] = "exiting"
  /\ listed' = listed \ {w}
  /\ Goto(w, "gone")
  /\ UNCHANGED <<idle, queue, clientVars, upCooling, downCooling, stopVars>>

(* _try_exit_if_above_min: both its True answers end the thread, the one    *)
(* that leaves it in the list, too.                                         *)
TryExitIfAboveMin(w) ==
  /\ pc[w] = "exiting"
  /\ IF Cardinality(listed) <= MinWorkers
     THEN Goto(w, "gone") /\ UNCHANGED listed
     ELSE IF w \in listed
          THEN Goto(w, "gone") /\ listed' = listed \ {w}
          ELSE Goto(w, "testing") /\ UNCHANGED listed
  /\ UNCHANGED <<idle, queue, clientVars, upCooling, downCooling, stopVars>>

-----------------------------------------------------------------------------
(* submit_task and the delayed scale check.                                 *)

SubmitPastTheLimit ==
  /\ scheduling < Clients
  /\ queue' = Append(queue, Task)
  /\ scheduling' = scheduling + 1
  /\ UNCHANGED <<pc, idle, listed, check, upCooling, downCooling, stopVars>>

Submit ==
  /\ scheduling < Clients
  /\ Len(queue) < QueueSize
  /\ queue' = Append(queue, Task)
  /\ scheduling' = scheduling + 1
  /\ UNCHANGED <<pc, idle, listed, check, upCooling, downCooling, stopVars>>

(* _schedule_scale_check: one check at a time, later callers rely on it.    *)
ScheduleCheck ==
  /\ scheduling > 0
  /\ scheduling' = scheduling - 1
  /\ check' = IF check = "none" THEN "waiting" ELSE check
  /\ UNCHANGED <<pc, idle, listed, queue, upCooling, downCooling, stopVars>>

(* should_scale_up, and the queue rule without the adaptive manager.  The   *)
(* CPU load is low, or it is not, or nothing is known of it.                *)
WantsWorker(cpuLow) ==
  IF Adaptive
  THEN /\ ~upCooling
       /\ Len(queue) > HighMark \/ (cpuLow /\ Len(queue) > Cardinality(listed))
  ELSE Len(queue) > Cardinality(listed)

StartWorker(w) ==
  /\ pc' = [pc EXCEPT ![w] = "testing"]
  /\ idle' = [idle EXCEPT ![w] = FALSE]
  /\ listed' = listed \cup {w}
  /\ upCooling' = Adaptive

ScaleUpPastMax ==
  /\ check = "waiting"
  /\ check' = "ran"
  /\ \E cpuLow \in BOOLEAN :
       IF WantsWorker(cpuLow)
       THEN \E w \in Threads \ (Live \cup listed) : StartWorker(w)
       ELSE UNCHANGED <<pc, idle, listed, upCooling>>
  /\ UNCHANGED <<queue, scheduling, downCooling, stopVars>>

StartUnlisted ==
  /\ check = "waiting"
  /\ check' = "ran"
  /\ Cardinality(listed) < MaxWorkers
  /\ \E w \in Threads \ (Live \cup listed) :
       pc' = [pc EXCEPT ![w] = "testing"] /\ UNCHANGED <<idle, listed, upCooling>>
  /\ UNCHANGED <<queue, scheduling, downCooling, stopVars>>

(* The timer runs scale_up_workers_if_needed: at most one more thread, and  *)
(* none at the maximum.  It does not look at the running flag.              *)
ScaleUp ==
  /\ check = "waiting"
  /\ check' = "ran"
  /\ \E cpuLow \in BOOLEAN :
       IF Cardinality(listed) < MaxWorkers /\ WantsWorker(cpuLow)
       THEN \E w \in Threads \ (Live \cup listed) : StartWorker(w)
       ELSE UNCHANGED <<pc, idle, listed, upCooling>>
  /\ UNCHANGED <<queue, scheduling, downCooling, stopVars>>

(* The timer's finally clause.                                              *)
EndCheck ==
  /\ check = "ran"
  /\ check' = "none"
  /\ UNCHANGED <<pc, idle, listed, queue, scheduling, upCooling, downCooling, stopVars>>

CooldownsPass ==
  /\ upCooling \/ downCooling
  /\ upCooling' \in {FALSE, upCooling}
  /\ downCooling' \in {FALSE, downCooling}
  /\ UNCHANGED <<pc, idle, listed, queue, clientVars, stopVars>>

-----------------------------------------------------------------------------
(* shutdown.                                                                *)

BeginShutdown ==
  /\ MayShutdown
  /\ phase = "running"
  /\ phase' = "stopping"
  /\ UNCHANGED <<pc, idle, listed, queue, clientVars, upCooling, downCooling, pills, joining>>

(* Cancelling a waiting timer leaves _scale_scheduled set; a timer that was *)
(* started but is not in _timers yet is missed.                             *)
CancelTimers ==
  /\ phase = "stopping"
  /\ phase' = "counting"
  /\ \/ check = "waiting" /\ check' = "cancelled"
     \/ UNCHANGED check
  /\ UNCHANGED <<pc, idle, listed, queue, scheduling, upCooling, downCooling, pills, joining>>

(* send_shutdown_signals counts the list once ...                           *)
CountThreads ==
  /\ phase = "counting"
  /\ phase' = "signalling"
  /\ pills' = Cardinality(listed)
  /\ UNCHANGED <<pc, idle, listed, queue, clientVars, upCooling, downCooling, joining>>

(* ... and stops at the first signal that finds no room in the queue.       *)
SendSignal ==
  /\ phase = "signalling"
  /\ pills > 0
  /\ IF Len(queue) < QueueSize
     THEN queue' = Append(queue, Pill) /\ pills' = pills - 1
     ELSE pills' = 0 /\ UNCHANGED queue
  /\ UNCHANGED <<pc, idle, listed, clientVars, upCooling, downCooling, phase, joining>>

(* wait_for_threads_exit copies the list ...                                *)
BeginJoin ==
  /\ phase = "signalling"
  /\ pills = 0
  /\ phase' = "joining"
  /\ joining' = listed
  /\ UNCHANGED <<pc, idle, listed, queue, clientVars, upCooling, downCooling, pills>>

(* ... and waits for each, but not longer than the join timeout.            *)
Join(w) ==
  /\ phase = "joining"
  /\ w \in joining
  /\ joining' = joining \ {w}
  /\ UNCHANGED <<pc, idle, listed, queue, clientVars, upCooling, downCooling, phase, pills>>

ClearList ==
  /\ phase = "joining"
  /\ joining = {}
  /\ phase' = "stopped"
  /\ listed' = {}
  /\ UNCHANGED <<pc, idle, queue, clientVars, upCooling, downCooling, pills, joining>>

-----------------------------------------------------------------------------
Working(w) ==
  \/ Test(w) \/ Take(w) \/ Finish(w) \/ Die(w) \/ GetTimeout(w) \/ CountWorkers(w)
  \/ ReadCooldown(w) \/ StampCooldown(w) \/ TryExitIfAboveMin(w)

Scaling == ScheduleCheck \/ ScaleUp \/ EndCheck

Stopping ==
  \/ BeginShutdown \/ CancelTimers \/ CountThreads \/ SendSignal \/ BeginJoin \/ ClearList
  \/ \E w \in Threads : Join(w)

Next ==
  \/ \E w \in Threads : Working(w)
  \/ Submit \/ Scaling \/ CooldownsPass
  \/ Stopping

Spec == Init /\ [][Next]_vars

(* Threads run, tasks end, timers fire.                                     *)
Fairness == WF_vars(Scaling) /\ \A w \in Threads : WF_vars(Working(w))

FairSpec == Spec /\ Fairness

-----------------------------------------------------------------------------
(* Until shutdown clears the list, no thread runs that is not in it: the    *)
(* count scale_up_workers_if_needed compares with max_workers, and the one  *)
(* that gets exit signals and joins, leaves nobody out.                     *)
NoUnlistedWorker == phase # "stopped" => Live \subseteq listed

(* Never more than max_workers threads, whatever exits and starts overlap.  *)
NeverAboveMax == phase # "stopped" => Cardinality(Live) <= MaxWorkers

(* "Counting and removing in one lock keeps threads that leave at the same  *)
(* time from going below min_workers": true of the list.                    *)
ListNeverBelowMin == phase # "stopped" => Cardinality(listed) >= MinWorkers

(* After shutdown has begun every thread ends: those it sent no signal to,  *)
(* and those a late scale check still starts, too.                          *)
EveryWorkerLeaves ==
  \A w \in Threads : phase # "running" /\ pc[w] # "gone" ~> pc[w] = "gone"

(* "Tasks are executed asynchronously by the worker threads": as long as    *)
(* something is queued in a running manager, tasks are taken.               *)
TasksAreTaken ==
  []<>(queue = <<>> \/ phase # "running") \/ []<><<\E w \in Threads : Take(w)>>_vars
=============================================================================
