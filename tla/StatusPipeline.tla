---------------------------- MODULE StatusPipeline ----------------------------
(***************************************************************************)
(* How a task's status travels from the threads that change it to the      *)
(* status store: TaskManager.submit_task, the worker loop, TaskExecutor's   *)
(* batch (L1), BatchedStatusUpdater's batch (L2) and the store, with the    *)
(* calls that read, clear, expire and shut down in between.                 *)
(*                                                                         *)
(* Each batch has a lock that its flusher holds until the last update has   *)
(* been handed on, so a flush is many steps: l1Out and l2Out are what the   *)
(* holders l1By and l2By still have to hand on.  Whether the flush interval *)
(* has passed is a free choice; a full batch must be flushed.               *)
(***************************************************************************)
EXTENDS Naturals, Sequences, FiniteSets

CONSTANTS
  Tasks,      (* the task ids; each names its submitting call too          *)
  Workers,    (* the threads of a pool of fixed size                       *)
  Readers,    (* the threads that call get_task_status                     *)
  None,       (* no thread, no task, no record                             *)
  Unread,     (* the flusher of the second batch has read no record yet    *)
  Pill,       (* the exit signal in the task queue                         *)
  QueueSize,  (* maxsize of the task queue                                 *)
  BatchSize,  (* batch_size of both batches                                *)
  Clearable,  (* the tasks whose status a client clears                    *)
  Evictable,  (* the tasks whose status the cleanup thread may remove      *)
  Voids,      (* the tasks whose function returns None                    *)
  MayExit,    (* the tasks that may raise SystemExit or KeyboardInterrupt  *)
  MayShutdown (* whether shutdown is called                                *)

Statuses == {"pending", "running", "completed", "failed"}
Terminal == {"completed", "failed"}
Fields == {"submit", "start", "end", "result", "error"}

Update == [task : Tasks, status : Statuses]
Upd(t, s) == [task |-> t, status |-> s]

Record == [status : Statuses, fields : SUBSET Fields]

ASSUME PipelineAssumption ==
  /\ None \notin Tasks \cup Workers \cup Readers
  /\ Pill \notin Tasks
  /\ Unread \notin Record \cup {None} /\ None \notin Record
  /\ Tasks \cap Workers = {} /\ Tasks \cap Readers = {} /\ Workers \cap Readers = {}
  /\ IsFiniteSet(Workers)
  /\ QueueSize \in Nat \ {0}
  /\ BatchSize \in Nat \ {0}
  /\ Clearable \subseteq Tasks /\ Evictable \subseteq Tasks
  /\ Voids \subseteq Tasks /\ MayExit \subseteq Tasks
  /\ MayShutdown \in BOOLEAN

VARIABLES
  phase,      (* of shutdown: running, signalling, waiting, stopped          *)
  pills,      (* exit signals shutdown still has to send                     *)
  queue,      (* task_queue                                                  *)
  submitPc,   (* each submit_task call                                       *)
  workerPc,   (* each worker                                                 *)
  job,        (* the task a worker has in hand                               *)
  outcome,    (* how each task's execution ended, as its worker reported it  *)
  l1, l1Out, l1By,           (* TaskExecutor._batch_updates and _batch_lock  *)
  l2, l2Out, l2By, l2Seen,   (* BatchedStatusUpdater._batch, _batch_lock and
                                the current_status its flusher has read      *)
  store,      (* sharded_status                                              *)
  readPc, readTask, owed,    (* each get_task_status call; owed: the outcome
                                was reported before the call began           *)
  seen,       (* what get_task_status last returned for each task            *)
  dropped     (* tasks whose status was ever removed from the store          *)

submitVars == <<submitPc>>
workerVars == <<workerPc, job, outcome>>
l1Vars == <<l1, l1Out, l1By>>
l2Vars == <<l2, l2Out, l2By, l2Seen>>
readVars == <<readPc, readTask, owed, seen>>
stopVars == <<phase, pills>>
storeVars == <<store, dropped>>
vars == <<stopVars, queue, submitVars, workerVars, l1Vars, l2Vars, storeVars, readVars>>

-----------------------------------------------------------------------------
(* The keyword arguments each caller of update_task_status gives that are    *)
(* not None: the merge ignores the others, a result among them.             *)
Given(u) ==
  CASE u.status = "pending"   -> {"submit"}
    [] u.status = "running"   -> {"start"}
    [] u.status = "completed" -> {"start", "end"} \cup {f \in {"result"} : u.task \notin Voids}
    [] u.status = "failed"    -> {"start", "end", "error"}

MergeDropping(current, u) ==
  [status |-> u.status, fields |-> Given(u)]

(* _merge_task_status: the new status, the fields given, and every field    *)
(* the current record has.                                                  *)
Merge(current, u) ==
  [status |-> u.status,
   fields |-> Given(u) \cup (IF current = None THEN {} ELSE current.fields)]

Actors == Tasks \cup Workers \cup Readers

SubmitPcs == {"new", "queued", "submitted", "refused"}
WorkerPcs == {"idle", "taken", "executing", "reported", "gone"}
ReadPcs == {"idle", "flushL1", "flushL2", "get"}
Phases == {"running", "signalling", "waiting", "stopped"}

TypeOK ==
  /\ phase \in Phases /\ pills \in Nat
  /\ queue \in Seq(Tasks \cup {Pill}) /\ Len(queue) <= QueueSize
  /\ submitPc \in [Tasks -> SubmitPcs]
  /\ workerPc \in [Workers -> WorkerPcs]
  /\ job \in [Workers -> Tasks \cup {None}]
  /\ outcome \in [Tasks -> Terminal \cup {"none"}]
  /\ l1 \in Seq(Update) /\ l1Out \in Seq(Update) /\ l1By \in Actors \cup {None}
  /\ l2 \in Seq(Update) /\ l2Out \in Seq(Update) /\ l2By \in Actors \cup {None}
  /\ l2Seen \in Record \cup {None, Unread}
  /\ store \in [Tasks -> Record \cup {None}]
  /\ readPc \in [Readers -> ReadPcs]
  /\ readTask \in [Readers -> Tasks \cup {None}]
  /\ owed \in [Readers -> BOOLEAN]
  /\ seen \in [Tasks -> Record \cup {None}]
  /\ dropped \subseteq Tasks

Init ==
  /\ phase = "running" /\ pills = 0
  /\ queue = <<>>
  /\ submitPc = [t \in Tasks |-> "new"]
  /\ workerPc = [w \in Workers |-> "idle"]
  /\ job = [w \in Workers |-> None]
  /\ outcome = [t \in Tasks |-> "none"]
  /\ l1 = <<>> /\ l1Out = <<>> /\ l1By = None
  /\ l2 = <<>> /\ l2Out = <<>> /\ l2By = None /\ l2Seen = Unread
  /\ store = [t \in Tasks |-> None]
  /\ readPc = [r \in Readers |-> "idle"]
  /\ readTask = [r \in Readers |-> None]
  /\ owed = [r \in Readers |-> FALSE]
  /\ seen = [t \in Tasks |-> None]
  /\ dropped = {}

-----------------------------------------------------------------------------
(* The second batch: BatchedStatusUpdater.                                  *)

(* update: append, and start a flush when the batch is full or the interval *)
(* has passed.  The caller has to wait for whoever holds the lock.          *)
QueueL2(a, u) ==
  /\ l2By = None
  /\ \/ /\ Len(l2) + 1 < BatchSize
        /\ l2' = Append(l2, u)
        /\ UNCHANGED <<l2Out, l2By>>
     \/ /\ l2Out' = Append(l2, u)
        /\ l2' = <<>>
        /\ l2By' = a
  /\ UNCHANGED l2Seen

(* force_flush by a reader.                                                 *)
ForceFlushL2(a) ==
  /\ l2By = None
  /\ IF l2 = <<>>
     THEN UNCHANGED <<l2, l2Out, l2By>>
     ELSE l2Out' = l2 /\ l2' = <<>> /\ l2By' = a
  /\ UNCHANGED l2Seen

(* _do_update_task_status, first half: read the current record.             *)
ReadCurrent ==
  /\ l2By # None
  /\ l2Seen = Unread
  /\ l2Seen' = store[Head(l2Out).task]
  /\ UNCHANGED <<stopVars, queue, submitVars, workerVars, l1Vars, l2, l2Out, l2By,
                 storeVars, readVars>>

(* Second half: write the merged record; the last one releases the lock.    *)
WriteMerged ==
  /\ l2By # None
  /\ l2Seen # Unread
  /\ LET u == Head(l2Out) IN
       store' = [store EXCEPT ![u.task] = Merge(l2Seen, u)]
  /\ l2Out' = Tail(l2Out)
  /\ l2By' = IF Len(l2Out) = 1 THEN None ELSE l2By
  /\ l2Seen' = Unread
  /\ UNCHANGED <<stopVars, queue, submitVars, workerVars, l1Vars, l2, dropped, readVars>>

-----------------------------------------------------------------------------
(* The first batch: TaskExecutor.                                           *)

QueueL1(w, u) ==
  /\ l1By = None
  /\ \/ /\ Len(l1) + 1 < BatchSize
        /\ l1' = Append(l1, u)
        /\ UNCHANGED <<l1Out, l1By>>
     \/ /\ l1Out' = Append(l1, u)
        /\ l1' = <<>>
        /\ l1By' = w

(* _check_and_flush_batch and flush_pending_updates.                        *)
FlushL1(a) ==
  /\ l1By = None
  /\ IF l1 = <<>>
     THEN UNCHANGED l1Vars
     ELSE l1Out' = l1 /\ l1' = <<>> /\ l1By' = a

HandOnNewest ==
  /\ l1Out # <<>>
  /\ l2By # l1By
  /\ QueueL2(l1By, l1Out[Len(l1Out)])
  /\ l1Out' = SubSeq(l1Out, 1, Len(l1Out) - 1)
  /\ UNCHANGED <<stopVars, queue, submitVars, workerVars, l1, l1By, storeVars, readVars>>

(* The holder of the first lock hands its oldest update to the second batch *)
(* (update_task_status); if that starts a flush there, it finishes it first. *)
HandOn ==
  /\ l1Out # <<>>
  /\ l2By # l1By
  /\ QueueL2(l1By, Head(l1Out))
  /\ l1Out' = Tail(l1Out)
  /\ UNCHANGED <<stopVars, queue, submitVars, workerVars, l1, l1By, storeVars, readVars>>

ReleaseL1 ==
  /\ l1By # None
  /\ l1Out = <<>>
  /\ l2By # l1By
  /\ l1By' = None
  /\ UNCHANGED <<stopVars, queue, submitVars, workerVars, l1, l1Out, l2Vars, storeVars,
                 readVars>>

(* The thread is not in the middle of a flush.                              *)
Unoccupied(a) == l1By # a /\ l2By # a

-----------------------------------------------------------------------------
(* TaskManager.submit_task: queue the task, then report it pending, past    *)
(* the first batch.  Nothing here looks at the running flag.                *)

EnqueuePastTheLimit(t) ==
  /\ submitPc[t] = "new"
  /\ queue' = Append(queue, t)
  /\ submitPc' = [submitPc EXCEPT ![t] = "queued"]
  /\ UNCHANGED <<stopVars, workerVars, l1Vars, l2Vars, storeVars, readVars>>

Enqueue(t) ==
  /\ submitPc[t] = "new"
  /\ Len(queue) < QueueSize
  /\ queue' = Append(queue, t)
  /\ submitPc' = [submitPc EXCEPT ![t] = "queued"]
  /\ UNCHANGED <<stopVars, workerVars, l1Vars, l2Vars, storeVars, readVars>>

(* queue.Full, at once or after the caller's timeout: TaskQueueFullError.   *)
Refuse(t) ==
  /\ submitPc[t] = "new"
  /\ Len(queue) >= QueueSize
  /\ submitPc' = [submitPc EXCEPT ![t] = "refused"]
  /\ UNCHANGED <<stopVars, queue, workerVars, l1Vars, l2Vars, storeVars, readVars>>

ReportPending(t) ==
  /\ submitPc[t] = "queued"
  /\ QueueL2(t, Upd(t, "pending"))
  /\ submitPc' = [submitPc EXCEPT ![t] = "submitted"]
  /\ UNCHANGED <<stopVars, queue, workerVars, l1Vars, storeVars, readVars>>

(* submit_task has returned the task id.                                    *)
Submitted(t) == submitPc[t] = "submitted" /\ Unoccupied(t)

-----------------------------------------------------------------------------
(* The worker loop and TaskExecutor.execute_task.                           *)

(* "idle" is a worker blocked in get, past its test of the running flag.    *)
Take(w) ==
  /\ workerPc[w] = "idle"
  /\ queue # <<>>
  /\ queue' = Tail(queue)
  /\ IF Head(queue) = Pill
     THEN /\ workerPc' = [workerPc EXCEPT ![w] = "gone"]
          /\ UNCHANGED job
     ELSE /\ workerPc' = [workerPc EXCEPT ![w] = "taken"]
          /\ job' = [job EXCEPT ![w] = Head(queue)]
  /\ UNCHANGED <<stopVars, submitVars, outcome, l1Vars, l2Vars, storeVars, readVars>>

LeaveOnSignalOnly(w) ==
  /\ workerPc[w] = "idle"
  /\ queue # <<>>
  /\ Head(queue) = Pill
  /\ queue' = Tail(queue)
  /\ workerPc' = [workerPc EXCEPT ![w] = "gone"]
  /\ UNCHANGED <<stopVars, submitVars, job, outcome, l1Vars, l2Vars, storeVars, readVars>>

(* get timed out and the running flag is found cleared.                     *)
Leave(w) ==
  /\ workerPc[w] = "idle"
  /\ queue = <<>>
  /\ phase # "running"
  /\ workerPc' = [workerPc EXCEPT ![w] = "gone"]
  /\ UNCHANGED <<stopVars, queue, submitVars, job, outcome, l1Vars, l2Vars, storeVars,
                 readVars>>

ReportRunning(w) ==
  /\ workerPc[w] = "taken"
  /\ QueueL1(w, Upd(job[w], "running"))
  /\ workerPc' = [workerPc EXCEPT ![w] = "executing"]
  /\ UNCHANGED <<stopVars, queue, submitVars, job, outcome, l2Vars, storeVars, readVars>>

ReportOutcomeTwice(w, status) ==
  /\ workerPc[w] = "executing"
  /\ Unoccupied(w)
  /\ outcome[job[w]] # status
  /\ QueueL1(w, Upd(job[w], status))
  /\ outcome' = [outcome EXCEPT ![job[w]] = status]
  /\ workerPc' = [workerPc EXCEPT ![w] = IF status = "completed" THEN @ ELSE "reported"]
  /\ UNCHANGED <<stopVars, queue, submitVars, job, l2Vars, storeVars, readVars>>

(* The function returned, raised or timed out.                              *)
ReportOutcome(w, status) ==
  /\ workerPc[w] = "executing"
  /\ Unoccupied(w)
  /\ QueueL1(w, Upd(job[w], status))
  /\ outcome' = [outcome EXCEPT ![job[w]] = status]
  /\ workerPc' = [workerPc EXCEPT ![w] = "reported"]
  /\ UNCHANGED <<stopVars, queue, submitVars, job, l2Vars, storeVars, readVars>>

(* SystemExit passes every handler but the finally: nothing is reported and *)
(* the thread ends.                                                         *)
ExitSilently(w) ==
  /\ workerPc[w] = "executing"
  /\ Unoccupied(w)
  /\ job[w] \in MayExit
  /\ \/ FlushL1(w)
     \/ l1By = None /\ UNCHANGED l1Vars
  /\ workerPc' = [workerPc EXCEPT ![w] = "gone"]
  /\ UNCHANGED <<stopVars, queue, submitVars, job, outcome, l2Vars, storeVars, readVars>>

(* execute_task's finally clause flushes if the interval has passed; then   *)
(* the loop tests the running flag again.  A KeyboardInterrupt is reported  *)
(* as a failure and ends the thread.                                        *)
FinishTask(w) ==
  /\ workerPc[w] = "reported"
  /\ Unoccupied(w)
  /\ \/ FlushL1(w)
     \/ l1By = None /\ UNCHANGED l1Vars
  /\ \E next \in {"idle", "gone"} :
       /\ next = "idle" => phase = "running"
       /\ next = "gone" =>
            phase # "running" \/ (job[w] \in MayExit /\ outcome[job[w]] = "failed")
       /\ workerPc' = [workerPc EXCEPT ![w] = next]
  /\ job' = [job EXCEPT ![w] = None]
  /\ UNCHANGED <<stopVars, queue, submitVars, outcome, l2Vars, storeVars, readVars>>

-----------------------------------------------------------------------------
(* TaskManager.get_task_status: drain the first batch, then the second,     *)
(* then look into the store.                                                *)

BeginGet(r, t) ==
  /\ readPc[r] = "idle"
  /\ Submitted(t)
  /\ readPc' = [readPc EXCEPT ![r] = "flushL1"]
  /\ readTask' = [readTask EXCEPT ![r] = t]
  /\ owed' = [owed EXCEPT ![r] = (outcome[t] \in Terminal)]
  /\ UNCHANGED <<stopVars, queue, submitVars, workerVars, l1Vars, l2Vars, storeVars, seen>>

SkipL1(r) ==
  /\ readPc[r] = "flushL1"
  /\ readPc' = [readPc EXCEPT ![r] = "flushL2"]
  /\ UNCHANGED <<stopVars, queue, submitVars, workerVars, l1Vars, l2Vars, storeVars,
                 readTask, owed, seen>>

GetFlushL1(r) ==
  /\ readPc[r] = "flushL1"
  /\ FlushL1(r)
  /\ readPc' = [readPc EXCEPT ![r] = "flushL2"]
  /\ UNCHANGED <<stopVars, queue, submitVars, workerVars, l2Vars, storeVars, readTask,
                 owed, seen>>

SkipL2(r) ==
  /\ readPc[r] = "flushL2"
  /\ Unoccupied(r)
  /\ readPc' = [readPc EXCEPT ![r] = "get"]
  /\ UNCHANGED <<stopVars, queue, submitVars, workerVars, l1Vars, l2Vars, storeVars,
                 readTask, owed, seen>>

GetFlushL2(r) ==
  /\ readPc[r] = "flushL2"
  /\ Unoccupied(r)
  /\ ForceFlushL2(r)
  /\ readPc' = [readPc EXCEPT ![r] = "get"]
  /\ UNCHANGED <<stopVars, queue, submitVars, workerVars, l1Vars, storeVars, readTask,
                 owed, seen>>

ReturnRecord(r) ==
  /\ readPc[r] = "get"
  /\ Unoccupied(r)
  /\ seen' = [seen EXCEPT ![readTask[r]] = store[readTask[r]]]
  /\ readPc' = [readPc EXCEPT ![r] = "idle"]
  /\ readTask' = [readTask EXCEPT ![r] = None]
  /\ owed' = [owed EXCEPT ![r] = FALSE]
  /\ UNCHANGED <<stopVars, queue, submitVars, workerVars, l1Vars, l2Vars, storeVars>>

-----------------------------------------------------------------------------
(* Removals.  All of them work on the store alone, past both batches.       *)

RemoveRecords(gone) ==
  /\ store' = [t \in Tasks |-> IF t \in gone THEN None ELSE store[t]]
  /\ dropped' = dropped \cup gone
  /\ UNCHANGED <<queue, submitVars, workerVars, l1Vars, l2Vars, readVars>>

(* clear_task_status(task_id).                                              *)
Clear(t) ==
  /\ t \in Clearable
  /\ Submitted(t)
  /\ RemoveRecords({t})
  /\ UNCHANGED stopVars

(* The cleanup thread: a record that ended may have expired, any record may *)
(* be over the maximum.                                                     *)
Evict(t) ==
  /\ t \in Evictable
  /\ phase = "running"
  /\ store[t] # None
  /\ RemoveRecords({t})
  /\ UNCHANGED stopVars

(* shutdown: clear the flag, then send one exit signal per thread ...       *)
BeginShutdown ==
  /\ MayShutdown
  /\ phase = "running"
  /\ phase' = "signalling"
  /\ pills' = Cardinality(Workers)
  /\ UNCHANGED <<queue, submitVars, workerVars, l1Vars, l2Vars, storeVars, readVars>>

(* ... giving up at the first one that finds the queue full ...             *)
SendSignal ==
  /\ phase = "signalling"
  /\ pills > 0
  /\ IF Len(queue) < QueueSize
     THEN queue' = Append(queue, Pill) /\ pills' = pills - 1
     ELSE pills' = 0 /\ UNCHANGED queue
  /\ UNCHANGED <<phase, submitVars, workerVars, l1Vars, l2Vars, storeVars, readVars>>

WaitForThreads ==
  /\ phase = "signalling"
  /\ pills = 0
  /\ phase' = "waiting"
  /\ UNCHANGED <<pills, queue, submitVars, workerVars, l1Vars, l2Vars, storeVars, readVars>>

(* ... and clear the store when the joins end, in time or not: a join gives *)
(* up after DEFAULT_THREAD_JOIN_TIMEOUT.                                    *)
EndShutdown ==
  /\ phase = "waiting"
  /\ phase' = "stopped"
  /\ RemoveRecords(Tasks)
  /\ UNCHANGED pills

-----------------------------------------------------------------------------
Flushing == ReadCurrent \/ WriteMerged \/ HandOn \/ ReleaseL1

Submitting(t) == Enqueue(t) \/ Refuse(t) \/ ReportPending(t)

Working(w) ==
  \/ Take(w) \/ Leave(w) \/ ReportRunning(w) \/ FinishTask(w) \/ ExitSilently(w)
  \/ \E status \in Terminal : ReportOutcome(w, status)

Getting(r) ==
  \/ \E t \in Tasks : BeginGet(r, t)
  \/ GetFlushL1(r) \/ GetFlushL2(r) \/ ReturnRecord(r)

Removing == \E t \in Tasks : Clear(t) \/ Evict(t)

Stopping == BeginShutdown \/ SendSignal \/ WaitForThreads \/ EndShutdown

Next ==
  \/ Flushing
  \/ \E t \in Tasks : Submitting(t)
  \/ \E w \in Workers : Working(w)
  \/ \E r \in Readers : Getting(r)
  \/ Removing
  \/ Stopping

Spec == Init /\ [][Next]_vars

(* Every started call and every running thread goes on: a flush is finished, *)
(* a queued task is taken, a task's function ends, shutdown proceeds.  Weak  *)
(* fairness is enough for the locks: each update is flushed once per batch,  *)
(* so a thread is kept from a lock only finitely often.                      *)
Fairness ==
  /\ WF_vars(Flushing)
  /\ WF_vars(SendSignal \/ WaitForThreads \/ EndShutdown)
  /\ \A t \in Tasks : WF_vars(ReportPending(t))
  /\ \A w \in Workers : WF_vars(Working(w))
  /\ \A r \in Readers : WF_vars(GetFlushL1(r) \/ GetFlushL2(r) \/ ReturnRecord(r))

(* A client asks for each of its tasks again and again.                      *)
Polling == \A r \in Readers, t \in Tasks : SF_vars(BeginGet(r, t))

FairSpec == Spec /\ Fairness

PollingSpec == FairSpec /\ Polling

-----------------------------------------------------------------------------
InSeq(u, s) == \E i \in 1 .. Len(s) : s[i] = u

(* A batch carries an outcome of t.                                         *)
HasOutcome(t, s) == \E i \in 1 .. Len(s) : s[i].task = t /\ s[i].status \in Terminal

Ended(t) == store[t] # None /\ "end" \in store[t].fields

(* The outcome of t is past the first batch: in the second, or stored.      *)
PastL1(t) == HasOutcome(t, l2) \/ HasOutcome(t, l2Out) \/ Ended(t)

(* An outcome a worker has reported is never lost on the way to the store,  *)
(* whatever flushes when, unless the record was removed on purpose.         *)
OutcomeNeverLost ==
  \A t \in Tasks \ dropped :
    outcome[t] \in Terminal =>
      HasOutcome(t, l1) \/ HasOutcome(t, l1Out) \/ PastL1(t)

(* "Flush pending batch updates to make sure the latest status is           *)
(* returned": an outcome reported before the call is in what it returns.    *)
GetSeesReportedOutcome ==
  \A r \in Readers :
    (readPc[r] = "get" /\ Unoccupied(r) /\ owed[r] /\ readTask[r] \notin dropped)
      => Ended(readTask[r])

Pos(u, s) == CHOOSE i \in 1 .. Len(s) : s[i] = u

Pipeline == l2Out \o l2 \o l1Out \o l1

(* A worker's two reports of a task stay in order through both batches.     *)
ReportsStayOrdered ==
  \A t \in Tasks, s \in Terminal :
    /\ InSeq(Upd(t, s), Pipeline) /\ InSeq(Upd(t, "running"), Pipeline) =>
         Pos(Upd(t, "running"), Pipeline) < Pos(Upd(t, s), Pipeline)
    /\ InSeq(Upd(t, "running"), Pipeline) /\ t \notin dropped => ~Ended(t)

(* A record never carries both a result and an error.                       *)
ResultOrError ==
  \A t \in Tasks : store[t] # None => ~({"result", "error"} \subseteq store[t].fields)

Rank(status) == CASE status = "pending" -> 1 [] status = "running" -> 2 [] OTHER -> 3

(* What clients see of a kept task never goes back, say to pending again:    *)
(* its pending update is in the second batch before its id is known.        *)
StatusNeverRegresses ==
  [][\A t \in Tasks \ dropped' :
       seen[t] # None /\ seen'[t] # None => Rank(seen[t].status) <= Rank(seen'[t].status)]_vars

(* "After submission the status is pending, running while it executes,      *)
(* completed or failed when it is done."                                    *)
DoneMeansCompletedOrFailed ==
  \A r \in Readers :
    (readPc[r] = "get" /\ Unoccupied(r) /\ owed[r] /\ readTask[r] \notin dropped)
      => store[readTask[r]].status \in Terminal

(* Once shutdown has begun every worker ends, even one whose exit signal    *)
(* did not fit into the queue.                                              *)
WorkersLeave ==
  phase # "running" ~> \A w \in Workers : workerPc[w] = "gone"

(* A polling client gets to see the end of every task it submitted, unless  *)
(* its record is removed or the manager is shut down before.                *)
OutcomeBecomesVisible ==
  \A t \in Tasks :
    Submitted(t) ~>
      \/ seen[t] # None /\ "end" \in seen[t].fields
      \/ t \in dropped
      \/ phase # "running"
-----------------------------------------------------------------------------
(* What a record shows a client of how its task ended: a record with an     *)
(* end and no error is one of success, whatever its status says.            *)
Shows(record) ==
  IF record = None THEN {}
  ELSE {"listed"} \cup
       {s \in Terminal : /\ "end" \in record.fields
                         /\ s = "failed" <=> "error" \in record.fields}

(* The client's view: the batches, their locks and the flushes are gone.    *)
Board == INSTANCE StatusBoard WITH
  Clients <- Readers,
  Nothing <- None,
  known   <- {t \in Tasks : submitPc[t] = "submitted"},
  told    <- outcome,
  board   <- [t \in Tasks |-> Shows(store[t])],
  removed <- dropped,
  asking  <- [r \in Readers |-> IF readPc[r] = "idle" THEN None ELSE readTask[r]],
  due     <- owed,
  shown   <- [t \in Tasks |-> Shows(seen[t])]

(* For a client the manager is a board: a task it has submitted is found    *)
(* until it is removed, an outcome reported before the call is in what the  *)
(* call returns, no record shows another outcome or loses the one it shows. *)
ImplementsBoard == Board!Spec
=============================================================================
