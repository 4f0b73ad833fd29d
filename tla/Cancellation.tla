----------------------------- MODULE Cancellation ------------------------------
(***************************************************************************)
(* TaskCancellationManager and its CancellableTasks.  A cancellation holds  *)
(* the manager's lock throughout, while the tasks execute in threads of     *)
(* their own.  CancellableTask never sets its _thread, so cancel joins      *)
(* nothing and succeeds unless it found the task completed.                 *)
(***************************************************************************)
EXTENDS Naturals, FiniteSets

CONSTANTS
  Cancellables,  (* CancellableTask objects                                 *)
  TaskIds,
  IdOf,          (* the id each is registered under                         *)
  NoTask

ASSUME CancellationAssumption == IdOf \in [Cancellables -> TaskIds] /\ NoTask \notin Cancellables

VARIABLES
  registry,   (* _cancellable_tasks                                         *)
  tokens,     (* _cancel_tokens, by the task whose event it is              *)
  phase,      (* unborn, idle, started, left (func has ended), completed, or
                 skipped (execute found it cancelled)                       *)
  flagged,    (* the tasks whose cancel_event is set                        *)
  cancelling, (* ids that the holder of _lock has still to cancel           *)
  looked,     (* the task whose _completed it has just found clear          *)
  early,      (* tasks that were cancelled before they began                *)
  replaced    (* tasks whose id was registered once more                    *)

cancelVars == <<registry, tokens, phase, flagged, cancelling, looked, early, replaced>>

CancelTypeOK ==
  /\ registry \in [TaskIds -> Cancellables \cup {NoTask}] /\ tokens = registry
  /\ phase \in [Cancellables -> {"unborn", "idle", "started", "left", "completed", "skipped"}]
  /\ flagged \subseteq Cancellables /\ cancelling \subseteq TaskIds
  /\ looked \in Cancellables \cup {NoTask} /\ early \subseteq flagged /\ replaced \subseteq Cancellables

CancelInit ==
  /\ registry = [i \in TaskIds |-> NoTask] /\ tokens = registry
  /\ phase = [o \in Cancellables |-> "unborn"]
  /\ flagged = {} /\ cancelling = {} /\ looked = NoTask /\ early = {} /\ replaced = {}

(* register_task overwrites what the id had, with a warning.                *)
RegisterTask(o) ==
  LET i == IdOf[o] IN
  /\ cancelling = {} /\ phase[o] = "unborn" /\ phase' = [phase EXCEPT ![o] = "idle"]
  /\ registry' = [registry EXCEPT ![i] = o] /\ tokens' = [tokens EXCEPT ![i] = o]
  /\ replaced' = replaced \cup ({registry[i]} \ {NoTask})
  /\ UNCHANGED <<flagged, cancelling, looked, early>>

StepTo(o, from, to) ==
  /\ phase[o] = from /\ phase' = [phase EXCEPT ![o] = to]
  /\ UNCHANGED <<registry, tokens, flagged, cancelling, looked, early, replaced>>

(* Mutant: execute does not look at the event.                              *)
ExecuteUnchecked(o) == StepTo(o, "idle", "started")

(* A task skipped here is never completed: get_result waits in vain.        *)
Execute(o) == StepTo(o, "idle", IF o \in flagged THEN "skipped" ELSE "started")
FuncEnds(o) == StepTo(o, "started", "left")
SetTaskCompleted(o) == StepTo(o, "left", "completed")

(* cancel_task of one id or cancel_all.                                     *)
TakeCancelLock(S) ==
  /\ cancelling = {} /\ S # {} /\ cancelling' = S
  /\ S \subseteq {i \in TaskIds : registry[i] # NoTask}
  /\ UNCHANGED <<registry, tokens, phase, flagged, looked, early, replaced>>

Unregister(i) ==
  /\ registry' = [registry EXCEPT ![i] = NoTask] /\ tokens' = [tokens EXCEPT ![i] = NoTask]
  /\ cancelling' = cancelling \ {i} /\ looked' = NoTask

(* cancel looks whether the task has completed; if so, it is forgotten.     *)
LookAtTask(i) ==
  /\ i \in cancelling /\ looked = NoTask
  /\ IF phase[registry[i]] = "completed" THEN Unregister(i)
     ELSE looked' = registry[i] /\ UNCHANGED <<registry, tokens, cancelling>>
  /\ UNCHANGED <<phase, flagged, early, replaced>>

SetTaskCancelled(i) ==
  /\ i \in cancelling /\ looked = registry[i] /\ looked # NoTask
  /\ flagged' = flagged \cup {looked}
  /\ early' = IF phase[looked] = "idle" THEN early \cup {looked} ELSE early
  /\ Unregister(i) /\ UNCHANGED <<phase, replaced>>

CancelNext ==
  \/ \E o \in Cancellables :
       RegisterTask(o) \/ Execute(o) \/ FuncEnds(o) \/ SetTaskCompleted(o)
  \/ \E i \in TaskIds : TakeCancelLock({i}) \/ LookAtTask(i) \/ SetTaskCancelled(i)
  \/ TakeCancelLock({i \in TaskIds : registry[i] # NoTask})

CancelSpec == CancelInit /\ [][CancelNext]_cancelVars

-----------------------------------------------------------------------------
(* A task whose cancellation succeeded before it began never runs, and a    *)
(* task the manager no longer knows has been told, has completed, or gave   *)
(* its id to another: none runs on out of reach of cancel_task.             *)
CancelTakesEffect ==
  /\ \A o \in early : phase[o] \in {"idle", "skipped"}
  /\ \A o \in Cancellables :
       phase[o] # "unborn" /\ registry[IdOf[o]] # o =>
         o \in flagged \/ phase[o] = "completed" \/ o \in replaced
=============================================================================
