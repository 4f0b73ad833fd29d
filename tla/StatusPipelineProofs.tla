------------------------- MODULE StatusPipelineProofs -------------------------
(***************************************************************************)
(* For any tasks, workers, readers, queue and batch sizes, and with any     *)
(* clears, evictions, exits and a shutdown in between: no reported outcome  *)
(* is lost between a worker and the store, and get_task_status returns it   *)
(* once it was reported before the call; a task's reports stay in order, a  *)
(* record has a result or an error and not both, and what a client is told  *)
(* of a task never goes back.                                               *)
(***************************************************************************)
EXTENDS StatusPipeline, SequenceTheorems, FiniteSetTheorems, TLAPS

-----------------------------------------------------------------------------
(* The inductive invariant.                                                 *)

(* Who holds a batch's lock and what is left to hand on; what the flusher   *)
(* has read is still the record, unless that was removed meanwhile.         *)
Locks ==
  /\ l1By = None => l1Out = <<>>
  /\ (l2By = None <=> l2Out = <<>>)
  /\ l2Seen # Unread =>
       /\ l2By # None
       /\ Head(l2Out).task \in dropped \/ l2Seen = store[Head(l2Out).task]

InHand ==
  /\ \A w \in Workers : workerPc[w] \in {"taken", "executing", "reported"} => job[w] \in Tasks
  /\ \A r \in Readers : readPc[r] # "idle" => readTask[r] \in Tasks

(* How far the outcome r is owed has come, at each stage of the call.       *)
Owed(r, t) ==
  /\ readPc[r] = "flushL1" => outcome[t] \in Terminal
  /\ readPc[r] = "flushL2" => (l1By = r /\ HasOutcome(t, l1Out)) \/ PastL1(t)
  /\ readPc[r] = "get" => (l2By = r /\ HasOutcome(t, l2Out)) \/ Ended(t)

OwedStays ==
  \A r \in Readers :
    owed[r] /\ readPc[r] # "idle" /\ readTask[r] \notin dropped => Owed(r, readTask[r])

Inv == TypeOK /\ Locks /\ InHand /\ OutcomeNeverLost /\ OwedStays

-----------------------------------------------------------------------------
(* What appending to, and taking from, a batch does to the outcomes in it.  *)

(* An empty batch carries nothing.                                          *)
LEMMA NoOutcomeInEmpty == \A t : ~HasOutcome(t, <<>>)
  BY DEF HasOutcome

(* A batch that an update was queued in is not empty.                       *)
LEMMA AppendIsNotEmpty ==
  ASSUME NEW s \in Seq(Update), NEW u \in Update
  PROVE  Append(s, u) \in Seq(Update) /\ Append(s, u) # <<>>
  <1>1. Append(s, u) \in Seq(Update) /\ Len(Append(s, u)) = Len(s) + 1 /\ Len(s) \in Nat
    OBVIOUS
  <1>2. Len(Append(s, u)) # 0
    BY <1>1
  <1> QED
    BY <1>1, <1>2, EmptySeq

(* Queueing adds exactly the outcome queued.                                *)
LEMMA OutcomeInAppend ==
  ASSUME NEW s \in Seq(Update), NEW u \in Update, NEW t
  PROVE  HasOutcome(t, Append(s, u)) <=>
           HasOutcome(t, s) \/ (u.task = t /\ u.status \in Terminal)
  <1> DEFINE a == Append(s, u)
  <1>1. Len(a) = Len(s) + 1 /\ a[Len(s) + 1] = u /\ \A i \in 1 .. Len(s) : a[i] = s[i]
        /\ Len(s) \in Nat
    OBVIOUS
  <1> HIDE DEF a
  <1>2. HasOutcome(t, a) <=> HasOutcome(t, s) \/ (u.task = t /\ u.status \in Terminal)
    BY <1>1 DEF HasOutcome
  <1> QED
    BY <1>2 DEF a

(* Handing on the oldest update removes exactly that one.                   *)
LEMMA OutcomeInTail ==
  ASSUME NEW s \in Seq(Update), s # <<>>, NEW t
  PROVE  /\ (HasOutcome(t, s) <=>
                HasOutcome(t, Tail(s)) \/ (Head(s).task = t /\ Head(s).status \in Terminal))
         /\ Tail(s) \in Seq(Update) /\ Head(s) \in Update
         /\ (Len(s) = 1 <=> Tail(s) = <<>>)
  <1> DEFINE r == Tail(s)
  <1>1. /\ Len(s) \in Nat /\ Len(s) >= 1 /\ Len(r) = Len(s) - 1
        /\ r \in Seq(Update) /\ s[1] \in Update /\ Head(s) = s[1]
        /\ \A i \in 1 .. Len(s) - 1 : r[i] = s[i + 1]
    <2>1. Len(s) \in Nat /\ Len(s) >= 1
      BY EmptySeq, LenProperties
    <2> QED
      BY <2>1, HeadTailProperties, ElementOfSeq
  <1>0. Len(s) = 1 <=> r = <<>>
    BY <1>1, EmptySeq
  <1> HIDE DEF r
  <1>2. HasOutcome(t, s) <=> HasOutcome(t, r) \/ (s[1].task = t /\ s[1].status \in Terminal)
    <2>1. ASSUME NEW i \in 1 .. Len(s), s[i].task = t, s[i].status \in Terminal
          PROVE  HasOutcome(t, r) \/ (s[1].task = t /\ s[1].status \in Terminal)
      <3>1. CASE i = 1
        BY <2>1, <3>1
      <3>2. CASE i # 1
        <4>1. i - 1 \in 1 .. Len(r) /\ r[i - 1] = s[i]
          BY <1>1, <3>2
        <4> QED
          BY <4>1, <2>1 DEF HasOutcome
      <3> QED
        BY <3>1, <3>2
    <2>2. HasOutcome(t, r) => HasOutcome(t, s)
      <3> SUFFICES ASSUME NEW i \in 1 .. Len(r), r[i].task = t, r[i].status \in Terminal
                   PROVE  HasOutcome(t, s)
        BY DEF HasOutcome
      <3>1. i + 1 \in 1 .. Len(s) /\ s[i + 1] = r[i]
        BY <1>1
      <3> QED
        BY <3>1 DEF HasOutcome
    <2>3. s[1].task = t /\ s[1].status \in Terminal => HasOutcome(t, s)
      BY <1>1 DEF HasOutcome
    <2> QED
      BY <2>1, <2>2, <2>3 DEF HasOutcome
  <1> QED
    BY <1>0, <1>1, <1>2 DEF r

(* Merging keeps the fields a record has and adds those given; an outcome   *)
(* gives "end".                                                             *)
LEMMA MergeFacts ==
  ASSUME NEW current \in Record \cup {None}, NEW u \in Update
  PROVE  /\ Merge(current, u) \in Record
         /\ Merge(current, u) # None
         /\ Merge(current, u).status = u.status
         /\ current # None => current.fields \subseteq Merge(current, u).fields
         /\ u.status \in Terminal => "end" \in Merge(current, u).fields
  <1>0. u.status \in Statuses
    BY DEF Update
  <1>1. Given(u) \subseteq Fields
        /\ (u.status \in Terminal => "end" \in Given(u))
    BY <1>0 DEF Given, Statuses, Fields, Terminal
  <1>2. Merge(current, u) \in Record
    BY <1>0, <1>1, PipelineAssumption DEF Merge, Record
  <1> QED
    BY <1>1, <1>2, PipelineAssumption DEF Merge, Record
-----------------------------------------------------------------------------
(* What each batch operation does: to its types and lock, and to the        *)
(* outcomes in flight.                                                      *)

(* TaskExecutor._queue_status_update: nothing is lost, u is added.          *)
LEMMA QueueL1Facts ==
  ASSUME TypeOK, Locks, NEW a \in Actors, NEW u \in Update, QueueL1(a, u)
  PROVE  /\ l1' \in Seq(Update) /\ l1Out' \in Seq(Update) /\ l1By' \in Actors \cup {None}
         /\ l1By = None /\ l1Out = <<>>
         /\ l1By' = None => l1Out' = <<>>
         /\ \A t : HasOutcome(t, l1') \/ HasOutcome(t, l1Out') <=>
                   HasOutcome(t, l1) \/ (u.task = t /\ u.status \in Terminal)
  <1>1. l1By = None /\ l1Out = <<>> /\ l1 \in Seq(Update) /\ Append(l1, u) \in Seq(Update)
    BY DEF TypeOK, Locks, QueueL1
  <1>2. CASE l1' = Append(l1, u) /\ l1Out' = l1Out /\ l1By' = l1By
    BY <1>1, <1>2, NoOutcomeInEmpty, OutcomeInAppend
  <1>3. CASE l1' = <<>> /\ l1Out' = Append(l1, u) /\ l1By' = a
    BY <1>1, <1>3, NoOutcomeInEmpty, OutcomeInAppend, PipelineAssumption DEF Actors
  <1> QED
    BY <1>2, <1>3 DEF QueueL1

(* _check_and_flush_batch and flush_pending_updates move the whole batch.   *)
LEMMA FlushL1Facts ==
  ASSUME TypeOK, Locks, NEW a \in Actors, FlushL1(a) \/ (l1By = None /\ UNCHANGED l1Vars)
  PROVE  /\ l1' \in Seq(Update) /\ l1Out' \in Seq(Update) /\ l1By' \in Actors \cup {None}
         /\ l1By = None /\ l1Out = <<>>
         /\ l1By' = None => l1Out' = <<>>
         /\ \A t : HasOutcome(t, l1') \/ HasOutcome(t, l1Out') <=> HasOutcome(t, l1)
         /\ FlushL1(a) => \A t : HasOutcome(t, l1) => l1By' = a /\ HasOutcome(t, l1Out')
  BY NoOutcomeInEmpty, PipelineAssumption DEF TypeOK, Locks, FlushL1, Actors, l1Vars

(* BatchedStatusUpdater.update.                                             *)
LEMMA QueueL2Facts ==
  ASSUME TypeOK, Locks, NEW a \in Actors, NEW u \in Update, QueueL2(a, u)
  PROVE  /\ l2' \in Seq(Update) /\ l2Out' \in Seq(Update) /\ l2By' \in Actors \cup {None}
         /\ l2By = None /\ l2Out = <<>> /\ l2Seen = Unread /\ l2Seen' = Unread
         /\ (l2By' = None <=> l2Out' = <<>>)
         /\ \A t : HasOutcome(t, l2') \/ HasOutcome(t, l2Out') <=>
                   HasOutcome(t, l2) \/ (u.task = t /\ u.status \in Terminal)
  <1>0. Append(l2, u) \in Seq(Update) /\ Append(l2, u) # <<>>
    BY AppendIsNotEmpty DEF TypeOK
  <1>1. /\ l2By = None /\ l2Out = <<>> /\ l2Seen = Unread /\ l2Seen' = Unread
        /\ l2 \in Seq(Update) /\ a # None
    BY PipelineAssumption DEF TypeOK, Locks, QueueL2, Actors
  <1>2. CASE l2' = Append(l2, u) /\ l2Out' = l2Out /\ l2By' = l2By
    BY <1>0, <1>1, <1>2, NoOutcomeInEmpty, OutcomeInAppend
  <1>3. CASE l2' = <<>> /\ l2Out' = Append(l2, u) /\ l2By' = a
    BY <1>0, <1>1, <1>3, NoOutcomeInEmpty, OutcomeInAppend
  <1> QED
    BY <1>2, <1>3 DEF QueueL2

(* BatchedStatusUpdater.force_flush.                                        *)
LEMMA ForceFlushL2Facts ==
  ASSUME TypeOK, Locks, NEW a \in Actors, ForceFlushL2(a)
  PROVE  /\ l2' \in Seq(Update) /\ l2Out' \in Seq(Update) /\ l2By' \in Actors \cup {None}
         /\ l2By = None /\ l2Out = <<>> /\ l2Seen = Unread /\ l2Seen' = Unread
         /\ (l2By' = None <=> l2Out' = <<>>)
         /\ \A t : HasOutcome(t, l2) <=> HasOutcome(t, l2') \/ HasOutcome(t, l2Out')
         /\ \A t : HasOutcome(t, l2) => l2By' = a /\ HasOutcome(t, l2Out')
  <1>1. /\ l2By = None /\ l2Out = <<>> /\ l2Seen = Unread /\ l2Seen' = Unread
        /\ l2 \in Seq(Update) /\ a # None
    BY PipelineAssumption DEF TypeOK, Locks, ForceFlushL2, Actors
  <1>2. CASE l2 = <<>> /\ UNCHANGED <<l2, l2Out, l2By>>
    BY <1>1, <1>2, NoOutcomeInEmpty
  <1>3. CASE l2 # <<>> /\ l2Out' = l2 /\ l2' = <<>> /\ l2By' = a
    BY <1>1, <1>3, NoOutcomeInEmpty
  <1> QED
    BY <1>2, <1>3 DEF ForceFlushL2
-----------------------------------------------------------------------------
(* Types and locks, one action at a time.                                   *)

Shape == TypeOK /\ Locks /\ InHand

(* What the reported updates are made of.                                   *)
LEMMA UpdIsUpdate ==
  ASSUME NEW t \in Tasks, NEW status \in Statuses
  PROVE  /\ Upd(t, status) \in Update
         /\ Upd(t, status).task = t /\ Upd(t, status).status = status
  BY DEF Upd, Update

(* In the beginning nothing is held and nothing is in hand.                 *)
LEMMA ShapeInit == Init => Shape
  <1> SUFFICES ASSUME Init PROVE Shape
    OBVIOUS
  <1>1. Len(<<>>) = 0 /\ 0 <= QueueSize
    BY PipelineAssumption
  <1>2. TypeOK
    BY <1>1, PipelineAssumption DEF Init, TypeOK, SubmitPcs, WorkerPcs, ReadPcs, Phases
  <1>3. Locks /\ InHand
    BY DEF Init, Locks, InHand
  <1> QED
    BY <1>2, <1>3 DEF Shape

(* Flushing: the steps of whoever holds a batch's lock.                     *)
LEMMA ShapeFlushing == Shape /\ Flushing => Shape'
  <1> SUFFICES ASSUME Shape, Flushing PROVE Shape'
    OBVIOUS
  <1> USE DEF Shape
  <1> USE DEF stopVars, submitVars, workerVars, l1Vars, l2Vars, storeVars, readVars
  <1>1. CASE ReadCurrent
    <2>1. Head(l2Out).task \in Tasks
      BY <1>1, OutcomeInTail DEF ReadCurrent, TypeOK, Locks, Update
    <2>2. l2Seen' \in Record \cup {None} /\ l2Seen' = store[Head(l2Out).task]
      BY <1>1, <2>1 DEF ReadCurrent, TypeOK
    <2>3. TypeOK'
      BY <1>1, <2>2 DEF ReadCurrent, TypeOK
    <2> QED
      BY <1>1, <2>2, <2>3 DEF ReadCurrent, Locks, InHand
  <1>2. CASE WriteMerged
    <2> DEFINE u == Head(l2Out)
    <2>1. /\ u \in Update /\ Tail(l2Out) \in Seq(Update)
          /\ (Len(l2Out) = 1 <=> Tail(l2Out) = <<>>)
      BY <1>2, OutcomeInTail DEF WriteMerged, TypeOK, Locks
    <2>2. Merge(l2Seen, u) \in Record
      BY <1>2, <2>1, MergeFacts DEF WriteMerged, TypeOK
    <2> HIDE DEF u
    <2>3. store' \in [Tasks -> Record \cup {None}]
      BY <1>2, <2>2 DEF WriteMerged, TypeOK, u
    <2>4. TypeOK'
      BY <1>2, <2>1, <2>3 DEF WriteMerged, TypeOK
    <2> QED
      BY <1>2, <2>1, <2>4 DEF WriteMerged, TypeOK, Locks, InHand
  <1>3. CASE HandOn
    <2>1. Head(l1Out) \in Update /\ Tail(l1Out) \in Seq(Update) /\ l1By \in Actors
      BY <1>3, OutcomeInTail DEF HandOn, TypeOK, Locks
    <2>2. /\ l2' \in Seq(Update) /\ l2Out' \in Seq(Update) /\ l2By' \in Actors \cup {None}
          /\ l2Seen' = Unread
          /\ (l2By' = None <=> l2Out' = <<>>)
      BY <1>3, <2>1, QueueL2Facts DEF HandOn
    <2>3. TypeOK'
      BY <1>3, <2>1, <2>2 DEF HandOn, TypeOK
    <2> QED
      BY <1>3, <2>1, <2>2, <2>3, PipelineAssumption DEF HandOn, Locks, InHand, Actors
  <1>4. CASE ReleaseL1
    <2>1. TypeOK'
      BY <1>4 DEF ReleaseL1, TypeOK
    <2> QED
      BY <1>4, <2>1 DEF ReleaseL1, Locks, InHand
  <1> QED
    BY <1>1, <1>2, <1>3, <1>4 DEF Flushing

(* submit_task.                                                             *)
LEMMA ShapeSubmitting ==
  ASSUME Shape, NEW t \in Tasks, Submitting(t)
  PROVE  Shape'
  <1> USE DEF Shape
  <1> USE DEF stopVars, submitVars, workerVars, l1Vars, l2Vars, storeVars, readVars
  <1>1. CASE Enqueue(t)
    <2>1. queue' \in Seq(Tasks \cup {Pill}) /\ Len(queue') <= QueueSize
      BY <1>1, PipelineAssumption DEF Enqueue, TypeOK
    <2>2. TypeOK'
      BY <1>1, <2>1 DEF Enqueue, TypeOK, SubmitPcs
    <2> QED
      BY <1>1, <2>2 DEF Enqueue, Locks, InHand
  <1>2. CASE Refuse(t)
    <2>1. TypeOK'
      BY <1>2 DEF Refuse, TypeOK, SubmitPcs
    <2> QED
      BY <1>2, <2>1 DEF Refuse, Locks, InHand
  <1>3. CASE ReportPending(t)
    <2>1. /\ l2' \in Seq(Update) /\ l2Out' \in Seq(Update) /\ l2By' \in Actors \cup {None}
          /\ l2Seen' = Unread
          /\ (l2By' = None <=> l2Out' = <<>>)
      BY <1>3, QueueL2Facts, UpdIsUpdate DEF ReportPending, Actors, Statuses
    <2>2. TypeOK'
      BY <1>3, <2>1 DEF ReportPending, TypeOK, SubmitPcs
    <2> QED
      BY <1>3, <2>1, <2>2, PipelineAssumption DEF ReportPending, Locks, InHand
  <1> QED
    BY <1>1, <1>2, <1>3 DEF Submitting

(* The worker loop.                                                         *)
LEMMA ShapeWorking ==
  ASSUME Shape, NEW w \in Workers, Working(w)
  PROVE  Shape'
  <1> USE DEF Shape
  <1> USE DEF stopVars, submitVars, workerVars, l1Vars, l2Vars, storeVars, readVars
  <1>0. w \in Actors
    BY DEF Actors
  <1>1. CASE Take(w)
    <2>1. /\ Head(queue) \in Tasks \cup {Pill}
          /\ queue' \in Seq(Tasks \cup {Pill}) /\ Len(queue') <= QueueSize
      BY <1>1, PipelineAssumption DEF Take, TypeOK
    <2>2. TypeOK'
      BY <1>1, <2>1 DEF Take, TypeOK, WorkerPcs
    <2> QED
      BY <1>1, <2>1, <2>2 DEF Take, TypeOK, Locks, InHand, WorkerPcs
  <1>2. CASE Leave(w)
    <2>1. TypeOK'
      BY <1>2 DEF Leave, TypeOK, WorkerPcs
    <2> QED
      BY <1>2, <2>1 DEF Leave, TypeOK, Locks, InHand
  <1>3. CASE ReportRunning(w)
    <2>1. job[w] \in Tasks
      BY <1>3 DEF ReportRunning, InHand
    <2>2. /\ l1' \in Seq(Update) /\ l1Out' \in Seq(Update) /\ l1By' \in Actors \cup {None}
          /\ l1By' = None => l1Out' = <<>>
      BY <1>0, <1>3, <2>1, QueueL1Facts, UpdIsUpdate DEF ReportRunning, Statuses
    <2>3. TypeOK'
      BY <1>3, <2>2 DEF ReportRunning, TypeOK, WorkerPcs
    <2> QED
      BY <1>3, <2>1, <2>2, <2>3 DEF ReportRunning, TypeOK, Locks, InHand
  <1>4. ASSUME NEW status \in Terminal, ReportOutcome(w, status) PROVE Shape'
    <2>1. job[w] \in Tasks
      BY <1>4 DEF ReportOutcome, InHand
    <2>2. /\ l1' \in Seq(Update) /\ l1Out' \in Seq(Update) /\ l1By' \in Actors \cup {None}
          /\ l1By' = None => l1Out' = <<>>
      BY <1>0, <1>4, <2>1, QueueL1Facts, UpdIsUpdate DEF ReportOutcome, Statuses, Terminal
    <2>3. outcome' \in [Tasks -> Terminal \cup {"none"}]
      BY <1>4 DEF ReportOutcome, TypeOK
    <2>4. TypeOK'
      BY <1>4, <2>2, <2>3 DEF ReportOutcome, TypeOK, WorkerPcs
    <2> QED
      BY <1>4, <2>1, <2>2, <2>4 DEF ReportOutcome, TypeOK, Locks, InHand
  <1>5. CASE ExitSilently(w)
    <2>1. /\ l1' \in Seq(Update) /\ l1Out' \in Seq(Update) /\ l1By' \in Actors \cup {None}
          /\ l1By' = None => l1Out' = <<>>
      BY <1>0, <1>5, FlushL1Facts DEF ExitSilently
    <2>2. TypeOK'
      BY <1>5, <2>1 DEF ExitSilently, TypeOK, WorkerPcs
    <2> QED
      BY <1>5, <2>1, <2>2 DEF ExitSilently, TypeOK, Locks, InHand
  <1>6. CASE FinishTask(w)
    <2>1. /\ l1' \in Seq(Update) /\ l1Out' \in Seq(Update) /\ l1By' \in Actors \cup {None}
          /\ l1By' = None => l1Out' = <<>>
      BY <1>0, <1>6, FlushL1Facts DEF FinishTask
    <2>2. PICK next \in {"idle", "gone"} : workerPc' = [workerPc EXCEPT ![w] = next]
      BY <1>6 DEF FinishTask
    <2>3. TypeOK'
      BY <1>6, <2>1, <2>2 DEF FinishTask, TypeOK, WorkerPcs
    <2>4. InHand'
      BY <1>6, <2>2 DEF FinishTask, TypeOK, InHand
    <2> QED
      BY <1>6, <2>1, <2>3, <2>4 DEF FinishTask, TypeOK, Locks
  <1> QED
    BY <1>1, <1>2, <1>3, <1>4, <1>5, <1>6 DEF Working
(* get_task_status.                                                         *)
LEMMA ShapeGetting ==
  ASSUME Shape, NEW r \in Readers, Getting(r)
  PROVE  Shape'
  <1> USE DEF Shape
  <1> USE DEF stopVars, submitVars, workerVars, l1Vars, l2Vars, storeVars, readVars
  <1>0. r \in Actors
    BY DEF Actors
  <1>1. ASSUME NEW t \in Tasks, BeginGet(r, t) PROVE Shape'
    <2>1. TypeOK'
      BY <1>1 DEF BeginGet, TypeOK, ReadPcs
    <2> QED
      BY <1>1, <2>1 DEF BeginGet, TypeOK, Locks, InHand
  <1>2. CASE GetFlushL1(r)
    <2>1. /\ l1' \in Seq(Update) /\ l1Out' \in Seq(Update) /\ l1By' \in Actors \cup {None}
          /\ l1By' = None => l1Out' = <<>>
      BY <1>0, <1>2, FlushL1Facts DEF GetFlushL1
    <2>2. TypeOK'
      BY <1>2, <2>1 DEF GetFlushL1, TypeOK, ReadPcs
    <2> QED
      BY <1>2, <2>1, <2>2 DEF GetFlushL1, TypeOK, Locks, InHand
  <1>3. CASE GetFlushL2(r)
    <2>1. /\ l2' \in Seq(Update) /\ l2Out' \in Seq(Update) /\ l2By' \in Actors \cup {None}
          /\ l2Seen' = Unread
          /\ (l2By' = None <=> l2Out' = <<>>)
      BY <1>0, <1>3, ForceFlushL2Facts DEF GetFlushL2
    <2>2. TypeOK'
      BY <1>3, <2>1 DEF GetFlushL2, TypeOK, ReadPcs
    <2> QED
      BY <1>3, <2>1, <2>2 DEF GetFlushL2, TypeOK, Locks, InHand
  <1>4. CASE ReturnRecord(r)
    <2>1. readTask[r] \in Tasks
      BY <1>4 DEF ReturnRecord, InHand
    <2>2. TypeOK'
      BY <1>4, <2>1 DEF ReturnRecord, TypeOK, ReadPcs
    <2> QED
      BY <1>4, <2>2 DEF ReturnRecord, TypeOK, Locks, InHand
  <1> QED
    BY <1>1, <1>2, <1>3, <1>4 DEF Getting

(* Whatever is removed, the flusher's record of a task that is still there  *)
(* stays the stored one.                                                    *)
LEMMA ShapeRemoval ==
  ASSUME Shape, NEW gone \in SUBSET Tasks, RemoveRecords(gone),
         phase' \in Phases, pills' \in Nat
  PROVE  Shape'
  <1> USE DEF Shape
  <1> USE DEF submitVars, workerVars, l1Vars, l2Vars, readVars
  <1>1. store' \in [Tasks -> Record \cup {None}]
    BY DEF RemoveRecords, TypeOK
  <1>2. dropped' \subseteq Tasks
    BY DEF RemoveRecords, TypeOK
  <1>3. TypeOK'
    BY <1>1, <1>2 DEF RemoveRecords, TypeOK
  <1>4. l2Seen # Unread => Head(l2Out).task \in Tasks
    BY OutcomeInTail DEF TypeOK, Locks, Update
  <1>5. Locks'
    BY <1>4 DEF RemoveRecords, TypeOK, Locks
  <1> QED
    BY <1>3, <1>5 DEF RemoveRecords, InHand

(* clear_task_status and the cleanup thread.                                *)
LEMMA ShapeRemoving == Shape /\ Removing => Shape'
  <1> SUFFICES ASSUME Shape, NEW t \in Tasks, Clear(t) \/ Evict(t) PROVE Shape'
    BY DEF Removing
  <1>1. RemoveRecords({t}) /\ {t} \in SUBSET Tasks
    BY DEF Clear, Evict
  <1>2. phase' \in Phases /\ pills' \in Nat
    BY DEF Clear, Evict, stopVars, Shape, TypeOK
  <1> QED
    BY <1>1, <1>2, ShapeRemoval

(* shutdown.                                                                *)
LEMMA ShapeStopping == Shape /\ Stopping => Shape'
  <1> SUFFICES ASSUME Shape, Stopping PROVE Shape'
    OBVIOUS
  <1> USE DEF stopVars, submitVars, workerVars, l1Vars, l2Vars, storeVars, readVars
  <1>1. CASE BeginShutdown
    <2>1. Cardinality(Workers) \in Nat
      BY PipelineAssumption, FS_CardinalityType
    <2>2. TypeOK'
      BY <1>1, <2>1 DEF BeginShutdown, Shape, TypeOK, Phases
    <2> QED
      BY <1>1, <2>2 DEF BeginShutdown, Shape, Locks, InHand
  <1>2. CASE SendSignal
    <2>1. queue' \in Seq(Tasks \cup {Pill}) /\ Len(queue') <= QueueSize /\ pills' \in Nat
      <3>1. /\ pills \in Nat /\ pills > 0 /\ QueueSize \in Nat
            /\ queue \in Seq(Tasks \cup {Pill}) /\ Len(queue) <= QueueSize
        BY <1>2, PipelineAssumption DEF SendSignal, Shape, TypeOK
      <3>2. CASE Len(queue) < QueueSize /\ queue' = Append(queue, Pill) /\ pills' = pills - 1
        BY <3>1, <3>2
      <3>3. CASE pills' = 0 /\ queue' = queue
        BY <3>1, <3>3
      <3> QED
        BY <1>2, <3>2, <3>3 DEF SendSignal
    <2>2. TypeOK'
      BY <1>2, <2>1 DEF SendSignal, Shape, TypeOK
    <2> QED
      BY <1>2, <2>2 DEF SendSignal, Shape, Locks, InHand
  <1>3. CASE WaitForThreads
    <2>1. TypeOK'
      BY <1>3 DEF WaitForThreads, Shape, TypeOK, Phases
    <2> QED
      BY <1>3, <2>1 DEF WaitForThreads, Shape, Locks, InHand
  <1>4. CASE EndShutdown
    <2>1. phase' \in Phases /\ pills' \in Nat
      BY <1>4 DEF EndShutdown, Shape, TypeOK, Phases
    <2> QED
      BY <1>4, <2>1, ShapeRemoval DEF EndShutdown
  <1> QED
    BY <1>1, <1>2, <1>3, <1>4 DEF Stopping

(* Every step keeps the types and the discipline of the two locks.          *)
LEMMA ShapeStep == Shape /\ [Next]_vars => Shape'
  <1> SUFFICES ASSUME Shape, [Next]_vars PROVE Shape'
    OBVIOUS
  <1>1. CASE Next
    BY <1>1, ShapeFlushing, ShapeSubmitting, ShapeWorking, ShapeGetting, ShapeRemoving,
       ShapeStopping DEF Next
  <1>2. CASE UNCHANGED vars
    BY <1>2 DEF vars, stopVars, submitVars, workerVars, l1Vars, l2Vars, storeVars, readVars,
       Shape, TypeOK, Locks, InHand
  <1> QED
    BY <1>1, <1>2

(* For every run the program's queue, batches and records keep their types. *)
THEOREM PipelineTypeCorrect == Spec => []TypeOK
  <1>1. Shape => TypeOK
    BY DEF Shape
  <1> QED
    BY <1>1, ShapeInit, ShapeStep, PTL DEF Spec
-----------------------------------------------------------------------------
(* Outcomes only travel forward.                                            *)

InFlight(t) == HasOutcome(t, l1) \/ HasOutcome(t, l1Out) \/ PastL1(t)

(* What a step does to the outcomes of the tasks that are still kept: none  *)
(* falls back or out, and a lock's holder lets go only when it has passed   *)
(* on all it took.                                                          *)
Forward ==
  \A t \in Tasks \ dropped' :
    /\ InFlight(t) => InFlight(t)'
    /\ PastL1(t) => PastL1(t)'
    /\ Ended(t) => Ended(t)'
    /\ \A a \in Actors :
         /\ l1By = a /\ HasOutcome(t, l1Out) =>
              (l1By' = a /\ HasOutcome(t, l1Out')) \/ PastL1(t)'
         /\ l2By = a /\ HasOutcome(t, l2Out) =>
              (l2By' = a /\ HasOutcome(t, l2Out')) \/ Ended(t)'

(* A step that leaves the batches and the store alone.                      *)
LEMMA ForwardIdle == UNCHANGED <<l1Vars, l2Vars, storeVars>> => Forward
  BY DEF Forward, InFlight, PastL1, Ended, l1Vars, l2Vars, storeVars

(* A worker reports into, or flushes, the first batch.                      *)
LEMMA ForwardL1 ==
  ASSUME Shape, NEW a \in Actors,
         \/ \E u \in Update : QueueL1(a, u)
         \/ FlushL1(a) \/ (l1By = None /\ UNCHANGED l1Vars),
         UNCHANGED <<l2Vars, storeVars>>
  PROVE  Forward
  <1>1. \A t : HasOutcome(t, l1) => HasOutcome(t, l1') \/ HasOutcome(t, l1Out')
    BY QueueL1Facts, FlushL1Facts DEF Shape
  <1>2. l1Out = <<>>
    BY QueueL1Facts, FlushL1Facts DEF Shape
  <1> QED
    BY <1>1, <1>2, NoOutcomeInEmpty DEF Forward, InFlight, PastL1, Ended, l2Vars, storeVars

(* submit_task reports into, or get_task_status flushes, the second batch.  *)
LEMMA ForwardL2 ==
  ASSUME Shape, NEW a \in Actors,
         (\E u \in Update : QueueL2(a, u)) \/ ForceFlushL2(a),
         UNCHANGED <<l1Vars, storeVars>>
  PROVE  Forward
  <1>1. \A t : HasOutcome(t, l2) => HasOutcome(t, l2') \/ HasOutcome(t, l2Out')
    BY QueueL2Facts, ForceFlushL2Facts DEF Shape
  <1>2. l2Out = <<>>
    BY QueueL2Facts, ForceFlushL2Facts DEF Shape
  <1> QED
    BY <1>1, <1>2, NoOutcomeInEmpty DEF Forward, InFlight, PastL1, Ended, l1Vars, storeVars

(* A removal touches no outcome of a task it does not remove.               *)
LEMMA ForwardRemoval ==
  ASSUME Shape, NEW gone \in SUBSET Tasks, RemoveRecords(gone)
  PROVE  Forward
  <1>1. \A t \in Tasks \ dropped' : store'[t] = store[t]
    BY DEF RemoveRecords
  <1> QED
    BY <1>1 DEF RemoveRecords, Forward, InFlight, PastL1, Ended, l1Vars, l2Vars

(* _flush of the first batch hands on one update.                           *)
LEMMA ForwardHandOn == Shape /\ HandOn => Forward
  <1> SUFFICES ASSUME Shape, HandOn PROVE Forward
    OBVIOUS
  <1>1. Head(l1Out) \in Update /\ l1By \in Actors
    BY OutcomeInTail DEF Shape, HandOn, TypeOK, Locks
  <1>2. \A t : HasOutcome(t, l1Out) <=> HasOutcome(t, l1Out') \/
                  (Head(l1Out).task = t /\ Head(l1Out).status \in Terminal)
    BY OutcomeInTail DEF Shape, HandOn, TypeOK
  <1>3. \A t : HasOutcome(t, l2') \/ HasOutcome(t, l2Out') <=>
                 HasOutcome(t, l2) \/ (Head(l1Out).task = t /\ Head(l1Out).status \in Terminal)
    BY <1>1, QueueL2Facts DEF Shape, HandOn
  <1>4. l2Out = <<>>
    BY <1>1, QueueL2Facts DEF Shape, HandOn
  <1>5. l1' = l1 /\ l1By' = l1By /\ store' = store
    BY DEF HandOn, storeVars
  <1>6. \A t : PastL1(t) => PastL1(t)'
    BY <1>3, <1>4, <1>5, NoOutcomeInEmpty DEF PastL1, Ended
  <1>7. \A t : HasOutcome(t, l1Out) => HasOutcome(t, l1Out') \/ PastL1(t)'
    BY <1>2, <1>3 DEF PastL1
  <1> QED
    BY <1>4, <1>5, <1>6, <1>7, NoOutcomeInEmpty DEF Forward, InFlight, Ended

(* _do_update_task_status writes the merged record.                         *)
LEMMA ForwardWriteMerged == Shape /\ WriteMerged => Forward
  <1> SUFFICES ASSUME Shape, WriteMerged PROVE Forward
    OBVIOUS
  <1> DEFINE u == Head(l2Out)
  <1>1. l2Out # <<>> /\ l2Out \in Seq(Update)
    BY DEF Shape, WriteMerged, Locks, TypeOK
  <1>2. /\ u \in Update
        /\ \A t : HasOutcome(t, l2Out) <=> HasOutcome(t, l2Out') \/
                     (u.task = t /\ u.status \in Terminal)
        /\ (Len(l2Out) = 1 <=> l2Out' = <<>>)
    BY <1>1, OutcomeInTail DEF WriteMerged
  <1>3. u.task \in Tasks /\ u.status \in Statuses
    BY <1>2 DEF Update
  <1>4. u.task \notin dropped => l2Seen = store[u.task]
    BY DEF Shape, Locks, WriteMerged
  <1>5. store' = [store EXCEPT ![u.task] = Merge(l2Seen, u)]
        /\ store \in [Tasks -> Record \cup {None}] /\ dropped' = dropped
        /\ l2Seen \in Record \cup {None}
    BY DEF Shape, TypeOK, WriteMerged
  <1> HIDE DEF u
  <1>6. /\ store'[u.task] = Merge(l2Seen, u)
        /\ \A t \in Tasks \ {u.task} : store'[t] = store[t]
    BY <1>3, <1>5
  <1>7. \A t \in Tasks \ dropped : Ended(t) => Ended(t)'
    <2> SUFFICES ASSUME NEW t \in Tasks \ dropped, Ended(t) PROVE Ended(t)'
      OBVIOUS
    <2>1. CASE t = u.task
      BY <1>2, <1>3, <1>4, <1>5, <1>6, <2>1, MergeFacts DEF Ended
    <2>2. CASE t # u.task
      BY <1>6, <2>2 DEF Ended
    <2> QED
      BY <2>1, <2>2
  <1>8. u.status \in Terminal => (store'[u.task] # None /\ "end" \in store'[u.task].fields)
    BY <1>2, <1>3, <1>5, <1>6, MergeFacts
  <1>9. \A t \in Tasks : HasOutcome(t, l2Out) => HasOutcome(t, l2Out') \/ Ended(t)'
    BY <1>2, <1>8 DEF Ended
  <1>10. l2' = l2 /\ l1' = l1 /\ l1Out' = l1Out /\ l1By' = l1By
    BY DEF WriteMerged, l1Vars
  <1>11. \A t \in Tasks \ dropped : PastL1(t) => PastL1(t)'
    BY <1>7, <1>9, <1>10 DEF PastL1
  <1>12. l2By' = l2By \/ l2Out' = <<>>
    BY <1>2 DEF WriteMerged
  <1> QED
    BY <1>5, <1>7, <1>9, <1>10, <1>11, <1>12, NoOutcomeInEmpty DEF Forward, InFlight
(* No step of the program sets an outcome back.                             *)
LEMMA ForwardStep == Shape /\ [Next]_vars => Forward
  <1> SUFFICES ASSUME Shape, [Next]_vars PROVE Forward
    OBVIOUS
  <1>0. Workers \cup Readers \cup Tasks \subseteq Actors
    BY DEF Actors
  <1>1. CASE Flushing
    <2>1. CASE ReadCurrent
      BY <2>1 DEF ReadCurrent, Forward, InFlight, PastL1, Ended, l1Vars, storeVars
    <2>2. CASE ReleaseL1
      BY <2>2, NoOutcomeInEmpty DEF ReleaseL1, Forward, InFlight, PastL1, Ended, l2Vars, storeVars
    <2> QED
      BY <1>1, <2>1, <2>2, ForwardHandOn, ForwardWriteMerged DEF Flushing
  <1>2. ASSUME NEW t \in Tasks, Submitting(t) PROVE Forward
    <2>1. CASE ReportPending(t)
      BY <1>0, <2>1, ForwardL2, UpdIsUpdate DEF ReportPending, Statuses
    <2> QED
      BY <1>2, <2>1, ForwardIdle DEF Submitting, Enqueue, Refuse
  <1>3. ASSUME NEW w \in Workers, Working(w) PROVE Forward
    <2>1. CASE ReportRunning(w)
      BY <1>0, <2>1, ForwardL1, UpdIsUpdate DEF ReportRunning, Statuses, Shape, InHand
    <2>2. ASSUME NEW status \in Terminal, ReportOutcome(w, status) PROVE Forward
      BY <1>0, <2>2, ForwardL1, UpdIsUpdate DEF ReportOutcome, Statuses, Terminal, Shape, InHand
    <2>3. CASE ExitSilently(w) \/ FinishTask(w)
      BY <1>0, <2>3, ForwardL1 DEF ExitSilently, FinishTask
    <2>4. CASE Take(w) \/ Leave(w)
      BY <2>4, ForwardIdle DEF Take, Leave
    <2> QED
      BY <1>3, <2>1, <2>2, <2>3, <2>4 DEF Working
  <1>4. ASSUME NEW r \in Readers, Getting(r) PROVE Forward
    <2>1. CASE GetFlushL1(r)
      BY <1>0, <2>1, ForwardL1 DEF GetFlushL1
    <2>2. CASE GetFlushL2(r)
      BY <1>0, <2>2, ForwardL2 DEF GetFlushL2
    <2>3. CASE (\E t \in Tasks : BeginGet(r, t)) \/ ReturnRecord(r)
      BY <2>3, ForwardIdle DEF BeginGet, ReturnRecord
    <2> QED
      BY <1>4, <2>1, <2>2, <2>3 DEF Getting
  <1>5. CASE Removing
    <2>1. PICK t \in Tasks : RemoveRecords({t})
      BY <1>5 DEF Removing, Clear, Evict
    <2> QED
      BY <2>1, ForwardRemoval
  <1>6. CASE Stopping
    BY <1>6, ForwardIdle, ForwardRemoval DEF Stopping, BeginShutdown, SendSignal,
       WaitForThreads, EndShutdown
  <1>7. CASE UNCHANGED vars
    BY <1>7, ForwardIdle DEF vars
  <1> QED
    BY <1>1, <1>2, <1>3, <1>4, <1>5, <1>6, <1>7 DEF Next

-----------------------------------------------------------------------------
(* OutcomeNeverLost.                                                        *)

(* The outcomes change in one action only, which puts the new one in flight. *)
LEMMA OutcomeReported ==
  ASSUME Shape, [Next]_vars, NEW t \in Tasks, outcome'[t] # outcome[t]
  PROVE  outcome'[t] \in Terminal /\ InFlight(t)'
  <1>1. PICK w \in Workers, status \in Terminal : ReportOutcome(w, status)
    BY DEF Next, vars, Flushing, ReadCurrent, WriteMerged, HandOn, ReleaseL1, Submitting, Enqueue,
       Refuse, ReportPending, Working, Take, Leave, ReportRunning, FinishTask, ExitSilently,
       Getting, BeginGet, GetFlushL1, GetFlushL2, ReturnRecord, Removing, Clear, Evict,
       RemoveRecords, Stopping, BeginShutdown, SendSignal, WaitForThreads, EndShutdown, workerVars
  <1>2. t = job[w] /\ outcome'[t] = status
    BY <1>1 DEF ReportOutcome, Shape, TypeOK
  <1>3. Upd(t, status) \in Update /\ Upd(t, status).task = t /\ Upd(t, status).status = status
    BY UpdIsUpdate DEF Terminal, Statuses
  <1>4. HasOutcome(t, l1') \/ HasOutcome(t, l1Out')
    BY <1>1, <1>2, <1>3, QueueL1Facts DEF ReportOutcome, Shape, Actors
  <1> QED
    BY <1>2, <1>4 DEF InFlight

(* A removed record stays marked as removed.                                *)
LEMMA DroppedGrows == Shape /\ [Next]_vars => dropped \subseteq dropped'
  BY DEF Next, vars, Flushing, ReadCurrent, WriteMerged, HandOn, ReleaseL1, Submitting, Enqueue,
     Refuse, ReportPending, Working, Take, Leave, ReportRunning, ReportOutcome, FinishTask,
     ExitSilently, Getting, BeginGet, GetFlushL1, GetFlushL2, ReturnRecord, Removing, Clear,
     Evict, RemoveRecords, Stopping, BeginShutdown, SendSignal, WaitForThreads, EndShutdown,
     storeVars

(* In the beginning there is no outcome to lose.                            *)
LEMMA OutcomeInit == Init => OutcomeNeverLost
  BY DEF Init, OutcomeNeverLost, Terminal

(* A step keeps every reported outcome in flight or stored.                 *)
LEMMA OutcomeStep == Shape /\ OutcomeNeverLost /\ [Next]_vars => OutcomeNeverLost'
  <1> SUFFICES ASSUME Shape, OutcomeNeverLost, [Next]_vars,
                      NEW t \in Tasks \ dropped', outcome'[t] \in Terminal
               PROVE  InFlight(t)'
    BY DEF OutcomeNeverLost, InFlight
  <1>1. CASE outcome'[t] # outcome[t]
    BY <1>1, OutcomeReported
  <1>2. CASE outcome'[t] = outcome[t]
    <2>1. t \notin dropped
      BY DroppedGrows
    <2>2. InFlight(t)
      BY <1>2, <2>1 DEF OutcomeNeverLost, InFlight
    <2> QED
      BY <2>2, ForwardStep DEF Forward
  <1> QED
    BY <1>1, <1>2

(* An outcome that a worker reported reaches the store or is still in one   *)
(* of the batches, unless the record was removed on purpose.                *)
THEOREM NoOutcomeIsLost == Spec => []OutcomeNeverLost
  BY ShapeInit, ShapeStep, OutcomeInit, OutcomeStep, PTL DEF Spec
-----------------------------------------------------------------------------
(* GetSeesReportedOutcome.                                                  *)

(* In the beginning nobody is owed anything.                                *)
LEMMA OwedInit == Init => OwedStays
  BY DEF Init, OwedStays

(* As long as r's call is not the one that moves, what it is owed is safe:  *)
(* outcomes stay terminal and only travel forward.                          *)
LEMMA OwedWhileStill ==
  ASSUME Shape, [Next]_vars, NEW r \in Readers, NEW t \in Tasks \ dropped', Owed(r, t),
         readPc'[r] = readPc[r]
  PROVE  Owed(r, t)'
  <1>1. r \in Actors /\ Forward
    BY ForwardStep DEF Actors
  <1>2. outcome[t] \in Terminal => outcome'[t] \in Terminal
    BY OutcomeReported
  <1>3. \/ l1By = r /\ HasOutcome(t, l1Out)
        \/ PastL1(t)
        => (l1By' = r /\ HasOutcome(t, l1Out')) \/ PastL1(t)'
    BY <1>1 DEF Forward
  <1>4. \/ l2By = r /\ HasOutcome(t, l2Out)
        \/ Ended(t)
        => (l2By' = r /\ HasOutcome(t, l2Out')) \/ Ended(t)'
    BY <1>1 DEF Forward
  <1>5. readPc[r] = "flushL1" => outcome'[t] \in Terminal
    BY <1>2 DEF Owed
  <1>6. readPc[r] = "flushL2" => (l1By' = r /\ HasOutcome(t, l1Out')) \/ PastL1(t)'
    BY <1>3 DEF Owed
  <1>7. readPc[r] = "get" => (l2By' = r /\ HasOutcome(t, l2Out')) \/ Ended(t)'
    BY <1>4 DEF Owed
  <1> QED
    BY <1>5, <1>6, <1>7 DEF Owed

(* The calls that a step does not move.                                     *)
LEMMA OtherReaders ==
  ASSUME Shape, [Next]_vars, NEW r \in Readers, ~Getting(r)
  PROVE  readPc'[r] = readPc[r] /\ readTask'[r] = readTask[r] /\ owed'[r] = owed[r]
  <1> USE DEF readVars, vars
  <1>1. CASE \E q \in Readers : Getting(q)
    <2>1. PICK q \in Readers : Getting(q) /\ q # r
      BY <1>1
    <2> QED
      BY <2>1 DEF Getting, BeginGet, GetFlushL1, GetFlushL2, ReturnRecord, Shape, TypeOK
  <1>2. CASE ~ \E q \in Readers : Getting(q)
    <2>1. UNCHANGED readVars
      BY <1>2 DEF Next, Flushing, ReadCurrent, WriteMerged, HandOn, ReleaseL1, Submitting,
         Enqueue, Refuse, ReportPending, Working, Take, Leave, ReportRunning, ReportOutcome,
         FinishTask, ExitSilently, Removing, Clear, Evict, RemoveRecords, Stopping,
         BeginShutdown, SendSignal, WaitForThreads, EndShutdown
    <2> QED
      BY <2>1
  <1> QED
    BY <1>1, <1>2

(* The steps of the call itself: each flush moves what is owed one stage on. *)
LEMMA OwedWhenMoving ==
  ASSUME Shape, OutcomeNeverLost, OwedStays, NEW r \in Readers, Getting(r),
         owed'[r], readPc'[r] # "idle", readTask'[r] \notin dropped'
  PROVE  Owed(r, readTask[r])'
  <1>0. r \in Actors
    BY DEF Actors
  <1>1. ASSUME NEW t \in Tasks, BeginGet(r, t) PROVE Owed(r, readTask[r])'
    <2>1. readPc'[r] = "flushL1" /\ readTask'[r] = t /\ outcome[t] \in Terminal
          /\ outcome' = outcome
      BY <1>1 DEF BeginGet, Shape, TypeOK, workerVars
    <2> QED
      BY <2>1 DEF Owed
  <1>2. CASE GetFlushL1(r)
    <2> DEFINE t == readTask[r]
    <2>1. /\ readPc[r] = "flushL1" /\ readPc'[r] = "flushL2"
          /\ readTask' = readTask /\ owed[r] /\ t \in Tasks \ dropped
      BY <1>2 DEF GetFlushL1, Shape, TypeOK, InHand, storeVars
    <2>2. outcome[t] \in Terminal
      BY <2>1 DEF OwedStays, Owed
    <2>3. HasOutcome(t, l1) \/ HasOutcome(t, l1Out) \/ PastL1(t)
      BY <2>1, <2>2 DEF OutcomeNeverLost
    <2>4. l1Out = <<>> /\ (HasOutcome(t, l1) => l1By' = r /\ HasOutcome(t, l1Out'))
      BY <1>0, <1>2, FlushL1Facts DEF GetFlushL1, Shape
    <2>5. PastL1(t) => PastL1(t)'
      BY <1>2, <2>1 DEF GetFlushL1, PastL1, Ended, l2Vars, storeVars
    <2>6. (l1By' = r /\ HasOutcome(t, l1Out')) \/ PastL1(t)'
      BY <2>3, <2>4, <2>5, NoOutcomeInEmpty
    <2> QED
      BY <2>1, <2>6 DEF Owed
  <1>3. CASE GetFlushL2(r)
    <2> DEFINE t == readTask[r]
    <2>1. /\ readPc[r] = "flushL2" /\ readPc'[r] = "get" /\ l1By # r
          /\ readTask' = readTask /\ owed[r] /\ t \in Tasks \ dropped
      BY <1>3 DEF GetFlushL2, Shape, TypeOK, InHand, storeVars, Unoccupied
    <2>2. PastL1(t)
      BY <2>1 DEF OwedStays, Owed
    <2>3. l2Out = <<>> /\ (HasOutcome(t, l2) => l2By' = r /\ HasOutcome(t, l2Out'))
      BY <1>0, <1>3, ForceFlushL2Facts DEF GetFlushL2, Shape
    <2>4. Ended(t) => Ended(t)'
      BY <1>3, <2>1 DEF GetFlushL2, Ended, storeVars
    <2>5. (l2By' = r /\ HasOutcome(t, l2Out')) \/ Ended(t)'
      BY <2>2, <2>3, <2>4, NoOutcomeInEmpty DEF PastL1
    <2> QED
      BY <2>1, <2>5 DEF Owed
  <1>4. CASE ReturnRecord(r)
    BY <1>4 DEF ReturnRecord, Shape, TypeOK
  <1> QED
    BY <1>1, <1>2, <1>3, <1>4 DEF Getting

(* Every step keeps what every call is owed.                                *)
LEMMA OwedStep ==
  Shape /\ OutcomeNeverLost /\ OwedStays /\ [Next]_vars => OwedStays'
  <1> SUFFICES ASSUME Shape, OutcomeNeverLost, OwedStays, [Next]_vars, NEW r \in Readers,
                      owed'[r], readPc'[r] # "idle", readTask'[r] \notin dropped'
               PROVE  Owed(r, readTask[r])'
    BY DEF OwedStays
  <1>1. CASE Getting(r)
    BY <1>1, OwedWhenMoving
  <1>2. CASE ~Getting(r)
    <2>1. readPc'[r] = readPc[r] /\ readTask'[r] = readTask[r] /\ owed'[r] = owed[r]
      BY <1>2, OtherReaders
    <2>2. PICK t \in Tasks \ dropped' : t = readTask[r] /\ t = readTask'[r]
      BY <2>1 DEF Shape, InHand
    <2>3. Owed(r, t)
      BY <2>1, <2>2, DroppedGrows DEF OwedStays
    <2>4. Owed(r, t)'
      BY <2>1, <2>2, <2>3, OwedWhileStill
    <2> QED
      BY <2>2, <2>4 DEF Owed
  <1> QED
    BY <1>1, <1>2

(* get_task_status flushes both batches before it looks, whoever else is    *)
(* flushing: an outcome reported before the call is in what it returns.     *)
THEOREM GetReturnsReportedOutcome == Spec => []GetSeesReportedOutcome
  <1>1. OwedStays => GetSeesReportedOutcome
    BY DEF OwedStays, Owed, GetSeesReportedOutcome, Unoccupied
  <1> QED
    BY <1>1, ShapeInit, ShapeStep, OutcomeInit, OutcomeStep, OwedInit, OwedStep, PTL DEF Spec
-----------------------------------------------------------------------------
(* What the two batches and the store say of one task.  The pipeline is one *)
(* sequence, oldest update first; a task is in one place at a time, so it   *)
(* has one outcome, reported after it was reported running.                 *)

InQueue(t) == \E i \in 1 .. Len(queue) : queue[i] = t

HasInHand(w) == workerPc[w] \in {"taken", "executing", "reported"}

(* A task that is not yet submitted, or refused, is nowhere; one in the     *)
(* queue is there once and in nobody's hands; no two workers have the same. *)
OnePlace ==
  /\ \A t \in Tasks : submitPc[t] \in {"new", "refused"} \/ InQueue(t) =>
       outcome[t] = "none" /\ \A w \in Workers : HasInHand(w) => job[w] # t
  /\ \A t \in Tasks : submitPc[t] \in {"new", "refused"} => ~InQueue(t)
  /\ \A i, j \in 1 .. Len(queue) : queue[i] = queue[j] /\ queue[i] # Pill => i = j
  /\ \A w \in Workers : workerPc[w] \in {"taken", "executing"} => outcome[job[w]] = "none"
  /\ \A v, w \in Workers : HasInHand(v) /\ HasInHand(w) /\ job[v] = job[w] => v = w

(* The updates in a pipeline: an outcome is the one reported, it comes      *)
(* after "running", and what has ended is not about to be set to running.   *)
Truthful(P) ==
  \A i \in 1 .. Len(P) : P[i].status \in Terminal => outcome[P[i].task] = P[i].status

InOrder(P) ==
  \A i, j \in 1 .. Len(P) :
    P[i].task = P[j].task /\ P[i].status = "running" /\ P[j].status \in Terminal => i < j

NoneTooLate(P) ==
  \A i \in 1 .. Len(P) :
    P[i].status = "running" /\ P[i].task \notin dropped => ~Ended(P[i].task)

(* What a record may say of a task with this outcome.                       *)
Agrees(ended, record) ==
  record # None =>
    /\ "end" \in record.fields =>
         ended \in Terminal /\ (ended = "failed" => "error" \in record.fields)
    /\ "result" \in record.fields => ended = "completed"
    /\ "error" \in record.fields => ended = "failed"
    /\ record.status \in Terminal => "end" \in record.fields

Fits(t, record) == Agrees(outcome[t], record)

RecordsFit ==
  /\ \A t \in Tasks : Fits(t, store[t])
  /\ l2Seen # Unread => Fits(Head(l2Out).task, l2Seen)

Reports == Truthful(Pipeline) /\ InOrder(Pipeline) /\ NoneTooLate(Pipeline) /\ RecordsFit

(* Where the pending update of a task may be: a reader at its last step has *)
(* it behind it, or in its own hands.                                       *)
NotPending(t, s) == \A i \in 1 .. Len(s) : s[i].task = t => s[i].status # "pending"

FirstHasNoPending == \A t \in Tasks : NotPending(t, l1) /\ NotPending(t, l1Out)

PendingFirst ==
  /\ FirstHasNoPending
  /\ \A r \in Readers : readPc[r] # "idle" => submitPc[readTask[r]] = "submitted"
  /\ \A r \in Readers : readPc[r] = "get" =>
       NotPending(readTask[r], l2) /\ (l2By # r => NotPending(readTask[r], l2Out))
  /\ \A t \in Tasks : seen[t] # None =>
       submitPc[t] = "submitted" /\ NotPending(t, l2) /\ NotPending(t, l2Out)

(* What was returned is not ahead of the record.                            *)
SeenBehindStore ==
  \A t \in Tasks \ dropped :
    seen[t] # None => store[t] # None /\ Rank(seen[t].status) <= Rank(store[t].status)

-----------------------------------------------------------------------------
(* The pipeline as one sequence.                                            *)

(* All of Q but pending updates is in P, in the same order.                 *)
KeepsOrder(f, Q, P) ==
  /\ f \in [1 .. Len(Q) -> Int]
  /\ \A k \in 1 .. Len(Q) : Q[k].status # "pending" => f[k] \in 1 .. Len(P) /\ P[f[k]] = Q[k]
  /\ \A k, l \in 1 .. Len(Q) : k <= l => f[k] <= f[l]

Drawn(Q, P) == \E f : KeepsOrder(f, Q, P)

LEMMA SameDrawn ==
  ASSUME NEW P \in Seq(Update)
  PROVE  Drawn(P, P)
  <1> DEFINE f == [k \in 1 .. Len(P) |-> k]
  <1>1. Len(P) \in Nat
    BY LenProperties
  <1>2. KeepsOrder(f, P, P)
    BY <1>1 DEF KeepsOrder
  <1> QED
    BY <1>2 DEF Drawn

(* An update before all others.                                             *)
LEMMA FirstAndRest ==
  ASSUME NEW h \in Update, NEW Q \in Seq(Update)
  PROVE  /\ Len(Q) \in Nat /\ Len(<<h>> \o Q) = Len(Q) + 1 /\ (<<h>> \o Q)[1] = h
         /\ \A k \in 1 .. Len(Q) : (<<h>> \o Q)[k + 1] = Q[k]
  <1> DEFINE P == <<h>> \o Q
  <1>1. <<h>> \in Seq(Update) /\ Len(<<h>>) = 1 /\ Len(Q) \in Nat /\ <<h>>[1] = h
    OBVIOUS
  <1>2. /\ Len(P) = Len(Q) + 1
        /\ \A i \in 1 .. Len(Q) + 1 : P[i] = IF i <= 1 THEN <<h>>[i] ELSE Q[i - 1]
    BY <1>1, ConcatProperties
  <1> HIDE DEF P
  <1>3. ASSUME NEW k \in 1 .. Len(Q) PROVE P[k + 1] = Q[k]
    <2>1. k + 1 \in 1 .. Len(Q) + 1 /\ ~(k + 1 <= 1) /\ (k + 1) - 1 = k
      BY <1>1
    <2> QED
      BY <1>2, <2>1
  <1>4. P[1] = h
    BY <1>1, <1>2
  <1> QED
    BY <1>1, <1>2, <1>3, <1>4 DEF P

(* The oldest update is taken out.                                          *)
LEMMA RestDrawn ==
  ASSUME NEW h \in Update, NEW Q \in Seq(Update)
  PROVE  Drawn(Q, <<h>> \o Q)
  <1> DEFINE P == <<h>> \o Q
             f == [k \in 1 .. Len(Q) |-> k + 1]
  <1>1. /\ Len(Q) \in Nat /\ Len(P) = Len(Q) + 1
        /\ \A k \in 1 .. Len(Q) : P[k + 1] = Q[k]
    BY FirstAndRest
  <1> HIDE DEF P
  <1>2. KeepsOrder(f, Q, P)
    BY <1>1 DEF KeepsOrder
  <1> HIDE DEF f
  <1> QED
    BY <1>2 DEF Drawn, P

(* A pending update is put in between.                                      *)
LEMMA PendingDrawn ==
  ASSUME NEW A \in Seq(Update), NEW B \in Seq(Update), NEW u \in Update, u.status = "pending"
  PROVE  Drawn(Append(A, u) \o B, A \o B)
  <1> DEFINE Q == Append(A, u) \o B
             P == A \o B
             f == [k \in 1 .. Len(Q) |-> IF k <= Len(A) THEN k ELSE k - 1]
  <1>1. /\ Len(A) \in Nat /\ Len(B) \in Nat
        /\ Len(P) = Len(A) + Len(B) /\ Len(Q) = Len(A) + 1 + Len(B)
        /\ \A i \in 1 .. Len(P) : P[i] = IF i <= Len(A) THEN A[i] ELSE B[i - Len(A)]
        /\ \A i \in 1 .. Len(Q) : Q[i] = IF i <= Len(A) + 1 THEN Append(A, u)[i]
                                                            ELSE B[i - (Len(A) + 1)]
        /\ \A i \in 1 .. Len(A) : Append(A, u)[i] = A[i]
        /\ Append(A, u)[Len(A) + 1] = u
    <2>1. /\ Append(A, u) \in Seq(Update) /\ Len(Append(A, u)) = Len(A) + 1
          /\ \A i \in 1 .. Len(A) : Append(A, u)[i] = A[i]
          /\ Append(A, u)[Len(A) + 1] = u
      BY AppendProperties
    <2> QED
      BY <2>1, ConcatProperties, LenProperties
  <1> HIDE DEF P, Q
  <1>2. ASSUME NEW k \in 1 .. Len(Q), Q[k].status # "pending"
        PROVE  f[k] \in 1 .. Len(P) /\ P[f[k]] = Q[k]
    <2>1. CASE k <= Len(A)
      BY <1>1, <1>2, <2>1
    <2>2. CASE k = Len(A) + 1
      BY <1>1, <1>2, <2>2
    <2>3. CASE k > Len(A) + 1
      <3>1. f[k] = k - 1 /\ k - 1 \in 1 .. Len(P) /\ ~(k - 1 <= Len(A)) /\ ~(k <= Len(A) + 1)
            /\ (k - 1) - Len(A) = k - (Len(A) + 1)
        BY <1>1, <2>3
      <3> HIDE DEF f
      <3> QED
        BY <1>1, <3>1
    <2> QED
      BY <1>1, <2>1, <2>2, <2>3
  <1>3. f \in [1 .. Len(Q) -> Int] /\ \A k, l \in 1 .. Len(Q) : k <= l => f[k] <= f[l]
    BY <1>1
  <1> HIDE DEF f
  <1>4. KeepsOrder(f, Q, P)
    BY <1>2, <1>3 DEF KeepsOrder
  <1> QED
    BY <1>4 DEF Drawn, P, Q

(* A sequence is its head and its tail.                                     *)
LEMMA HeadThenTail ==
  ASSUME NEW s \in Seq(Update), s # <<>>
  PROVE  /\ s = <<Head(s)>> \o Tail(s) /\ <<Head(s)>> \in Seq(Update)
         /\ Tail(s) \in Seq(Update) /\ Head(s) \in Update
  <1>1. /\ Head(s) \in Update /\ Tail(s) \in Seq(Update)
        /\ Len(s) \in Nat /\ Len(s) >= 1 /\ Len(Tail(s)) = Len(s) - 1
        /\ \A i \in 1 .. Len(Tail(s)) : Tail(s)[i] = s[i + 1]
    BY HeadTailProperties, EmptySeq
  <1> DEFINE h == <<Head(s)>>
             c == h \o Tail(s)
  <1>2. h \in Seq(Update) /\ Len(h) = 1 /\ h[1] = s[1]
    BY <1>1
  <1>3. /\ c \in Seq(Update) /\ Len(c) = Len(s)
        /\ \A i \in 1 .. Len(s) : c[i] = IF i <= 1 THEN h[i] ELSE Tail(s)[i - 1]
    <2> HIDE DEF h
    <2>1. /\ c \in Seq(Update) /\ Len(c) = Len(h) + Len(Tail(s))
          /\ \A i \in 1 .. Len(h) + Len(Tail(s)) :
               c[i] = IF i <= Len(h) THEN h[i] ELSE Tail(s)[i - Len(h)]
      <3> DEFINE T == Tail(s)
      <3>1. h \in Seq(Update) /\ T \in Seq(Update)
        BY <1>1, <1>2
      <3> HIDE DEF T
      <3>2. /\ h \o T \in Seq(Update) /\ Len(h \o T) = Len(h) + Len(T)
            /\ \A i \in 1 .. Len(h) + Len(T) :
                 (h \o T)[i] = IF i <= Len(h) THEN h[i] ELSE T[i - Len(h)]
        BY <3>1, ConcatProperties
      <3> QED
        BY <3>2 DEF T
    <2> HIDE DEF c
    <2>2. Len(h) + Len(Tail(s)) = Len(s)
      BY <1>1, <1>2
    <2> QED
      BY <1>2, <2>1, <2>2
  <1> HIDE DEF h, c
  <1>4. ASSUME NEW i \in 1 .. Len(s) PROVE c[i] = s[i]
    <2>1. CASE i = 1
      BY <1>2, <1>3, <2>1
    <2>2. CASE i # 1
      BY <1>1, <1>3, <2>2
    <2> QED
      BY <2>1, <2>2
  <1>5. c = s
    BY <1>3, <1>4, SeqEqual
  <1> QED
    BY <1>1, <1>2, <1>5 DEF h, c

(* The two halves of the pipeline: at the second batch and at the first.    *)
Second == l2Out \o l2
First == l1Out \o l1

LEMMA JoinHalves ==
  ASSUME NEW a \in Seq(Update), NEW b \in Seq(Update), NEW c \in Seq(Update), NEW d \in Seq(Update)
  PROVE  /\ a \o b \o c \o d = (a \o b) \o (c \o d)
         /\ a \o b \in Seq(Update) /\ c \o d \in Seq(Update) /\ a \o b \o c \o d \in Seq(Update)
  <1>1. a \o b \in Seq(Update) /\ c \o d \in Seq(Update)
    BY ConcatProperties
  <1>2. ((a \o b) \o c) \o d = (a \o b) \o (c \o d)
    BY <1>1, ConcatAssociative
  <1>3. (a \o b) \o (c \o d) \in Seq(Update)
    BY <1>1, ConcatProperties
  <1> QED
    BY <1>1, <1>2, <1>3

LEMMA TwoHalves ==
  ASSUME Shape
  PROVE  /\ Pipeline = Second \o First
         /\ Second \in Seq(Update) /\ First \in Seq(Update) /\ Pipeline \in Seq(Update)
  BY JoinHalves DEF Shape, TypeOK, Pipeline, Second, First

LEMMA TwoHalvesNext ==
  ASSUME Shape'
  PROVE  /\ Pipeline' = Second' \o First'
         /\ Second' \in Seq(Update) /\ First' \in Seq(Update) /\ Pipeline' \in Seq(Update)
  BY JoinHalves DEF Shape, TypeOK, Pipeline, Second, First

(* What each operation on a batch does to its half.                         *)
LEMMA QueueL1AddsLast ==
  ASSUME Shape, NEW a \in Actors, NEW u \in Update, QueueL1(a, u)
  PROVE  First' = Append(First, u)
  <1>1. l1Out = <<>> /\ l1 \in Seq(Update) /\ Append(l1, u) \in Seq(Update)
    BY QueueL1Facts, AppendProperties DEF Shape, TypeOK
  <1>2. First = l1
    BY <1>1, ConcatEmptySeq DEF First
  <1>3. First' = Append(l1, u)
    <2>1. CASE l1' = Append(l1, u) /\ l1Out' = <<>>
      BY <1>1, <2>1, ConcatEmptySeq DEF First
    <2>2. CASE l1' = <<>> /\ l1Out' = Append(l1, u)
      BY <1>1, <2>2, ConcatEmptySeq DEF First
    <2> QED
      BY <1>1, <2>1, <2>2 DEF QueueL1
  <1> QED
    BY <1>2, <1>3

LEMMA FlushL1KeepsFirst ==
  ASSUME Shape, NEW a \in Actors, FlushL1(a) \/ (l1By = None /\ UNCHANGED l1Vars)
  PROVE  First' = First
  <1>1. l1Out = <<>> /\ l1 \in Seq(Update)
    BY FlushL1Facts DEF Shape, TypeOK
  <1>2. CASE l1' = <<>> /\ l1Out' = l1
    BY <1>1, <1>2, ConcatEmptySeq DEF First
  <1>3. CASE UNCHANGED l1Vars
    BY <1>3 DEF First, l1Vars
  <1> QED
    BY <1>2, <1>3 DEF FlushL1

LEMMA QueueL2AddsLast ==
  ASSUME Shape, NEW a \in Actors, NEW u \in Update, QueueL2(a, u)
  PROVE  Second' = Append(Second, u)
  <1>1. l2Out = <<>> /\ l2 \in Seq(Update) /\ Append(l2, u) \in Seq(Update)
    BY QueueL2Facts, AppendProperties DEF Shape, TypeOK
  <1>2. Second = l2
    BY <1>1, ConcatEmptySeq DEF Second
  <1>3. Second' = Append(l2, u)
    <2>1. CASE l2' = Append(l2, u) /\ l2Out' = <<>>
      BY <1>1, <2>1, ConcatEmptySeq DEF Second
    <2>2. CASE l2' = <<>> /\ l2Out' = Append(l2, u)
      BY <1>1, <2>2, ConcatEmptySeq DEF Second
    <2> QED
      BY <1>1, <2>1, <2>2 DEF QueueL2
  <1> QED
    BY <1>2, <1>3

LEMMA ForceFlushKeepsSecond ==
  ASSUME Shape, NEW a \in Actors, ForceFlushL2(a)
  PROVE  Second' = Second
  <1>1. l2Out = <<>> /\ l2 \in Seq(Update)
    BY ForceFlushL2Facts DEF Shape, TypeOK
  <1>2. CASE l2' = <<>> /\ l2Out' = l2
    BY <1>1, <1>2, ConcatEmptySeq DEF Second
  <1>3. CASE UNCHANGED <<l2, l2Out>>
    BY <1>3 DEF Second
  <1> QED
    BY <1>2, <1>3 DEF ForceFlushL2

(* Handing on the oldest update of the first half to the end of the second  *)
(* leaves the pipeline as it is.                                            *)
LEMMA HandOnKeepsPipeline ==
  ASSUME Shape, HandOn
  PROVE  Pipeline' = Pipeline
  <1> DEFINE u == Head(l1Out)
             T == Tail(l1Out)
  <1>0. /\ l1Out \in Seq(Update) /\ l1Out # <<>> /\ l1 \in Seq(Update) /\ l1By \in Actors
        /\ l1Out' = T /\ l1' = l1
    BY DEF Shape, TypeOK, Locks, HandOn
  <1>1. /\ l1Out = <<u>> \o T /\ <<u>> \in Seq(Update) /\ T \in Seq(Update) /\ u \in Update
    BY <1>0, HeadThenTail
  <1>2. Second' = Append(Second, u)
    BY <1>0, <1>1, QueueL2AddsLast DEF HandOn
  <1>3. Second \in Seq(Update) /\ Pipeline = Second \o First
    BY TwoHalves
  <1>4. Pipeline' = Second' \o First'
    <2>1. Shape'
      BY ShapeFlushing DEF Flushing
    <2> QED
      BY <2>1, TwoHalvesNext
  <1>5. Second' = Second \o <<u>>
    BY <1>1, <1>2, <1>3, AppendIsConcat
  <1>6. First' = T \o l1 /\ First = (<<u>> \o T) \o l1
    BY <1>0, <1>1 DEF First
  <1> HIDE DEF u, T
  <1>7. T \o l1 \in Seq(Update)
    BY <1>0, <1>1, ConcatProperties
  <1>8. (Second \o <<u>>) \o (T \o l1) = Second \o (<<u>> \o (T \o l1))
    BY <1>1, <1>3, <1>7, ConcatAssociative
  <1>9. (<<u>> \o T) \o l1 = <<u>> \o (T \o l1)
    BY <1>0, <1>1, ConcatAssociative
  <1> QED
    BY <1>3, <1>4, <1>5, <1>6, <1>8, <1>9

(* The oldest update is the one that is written.                            *)
LEMMA WriteTakesOldest ==
  ASSUME Shape, WriteMerged
  PROVE  Pipeline = <<Head(l2Out)>> \o Pipeline' /\ Head(l2Out) \in Update
  <1> DEFINE u == Head(l2Out)
             T == Tail(l2Out)
  <1>0. /\ l2Out \in Seq(Update) /\ l2Out # <<>> /\ l2 \in Seq(Update)
        /\ l2Out' = T /\ UNCHANGED <<l2, l1Out, l1>>
    BY DEF Shape, TypeOK, Locks, WriteMerged, l1Vars
  <1>1. /\ l2Out = <<u>> \o T /\ <<u>> \in Seq(Update) /\ T \in Seq(Update) /\ u \in Update
    BY <1>0, HeadThenTail
  <1>3. First \in Seq(Update) /\ Pipeline = Second \o First
    BY TwoHalves
  <1>4. Pipeline' = Second' \o First'
    <2>1. Shape'
      BY ShapeFlushing DEF Flushing
    <2> QED
      BY <2>1, TwoHalvesNext
  <1>5. First' = First /\ Second' = T \o l2 /\ Second = (<<u>> \o T) \o l2
    BY <1>0, <1>1 DEF First, Second
  <1> HIDE DEF u, T
  <1>6. T \o l2 \in Seq(Update)
    BY <1>0, <1>1, ConcatProperties
  <1>7. (<<u>> \o T) \o l2 = <<u>> \o (T \o l2)
    BY <1>0, <1>1, ConcatAssociative
  <1>8. (<<u>> \o (T \o l2)) \o First = <<u>> \o ((T \o l2) \o First)
    BY <1>1, <1>3, <1>6, ConcatAssociative
  <1> QED
    BY <1>1, <1>3, <1>4, <1>5, <1>7, <1>8 DEF u

(* What any step does to the pipeline: only a worker's report adds to it    *)
(* something that is not pending, and adds it at the end.                   *)
Reported(w, status) ==
  /\ Pipeline' = Append(Pipeline, Upd(job[w], status)) /\ job[w] \in Tasks
  /\ UNCHANGED <<store, l2Seen, l2Out, dropped>>
  /\ \/ ReportRunning(w) /\ status = "running" /\ outcome' = outcome
     \/ ReportOutcome(w, status) /\ status \in Terminal

LEMMA WorkerReports ==
  ASSUME Shape, NEW w \in Workers, NEW status \in Statuses,
         \/ ReportRunning(w) /\ status = "running"
         \/ ReportOutcome(w, status) /\ status \in Terminal
  PROVE  Reported(w, status)
  <1> DEFINE u == Upd(job[w], status)
  <1>1. job[w] \in Tasks /\ QueueL1(w, u) /\ UNCHANGED <<l2Vars, storeVars>> /\ w \in Actors
    BY DEF ReportRunning, ReportOutcome, Shape, InHand, Actors
  <1>2. u \in Update
    BY <1>1, UpdIsUpdate
  <1>3. First' = Append(First, u)
    BY <1>1, <1>2, QueueL1AddsLast
  <1>4. Second' = Second
    BY <1>1 DEF Second, l2Vars
  <1>5. Shape'
    <2>1. Working(w)
      BY DEF Working
    <2> QED
      BY <2>1, ShapeWorking
  <1>6. /\ Pipeline = Second \o First /\ Pipeline' = Second' \o First'
        /\ Second \in Seq(Update) /\ First \in Seq(Update) /\ Pipeline \in Seq(Update)
    BY <1>5, TwoHalves, TwoHalvesNext
  <1>7. Append(First, u) = First \o <<u>> /\ Append(Pipeline, u) = Pipeline \o <<u>>
    BY <1>2, <1>6, AppendIsConcat
  <1>8. <<u>> \in Seq(Update)
    BY <1>2
  <1> HIDE DEF u
  <1>9. (Second \o First) \o <<u>> = Second \o (First \o <<u>>)
    BY <1>6, <1>8, ConcatAssociative
  <1>10. Pipeline' = Append(Pipeline, u)
    BY <1>3, <1>4, <1>6, <1>7, <1>9
  <1>11. ReportRunning(w) => outcome' = outcome
    BY DEF ReportRunning
  <1> QED
    BY <1>1, <1>10, <1>11 DEF Reported, u, l2Vars, storeVars

LEMMA PipelineMoves ==
  ASSUME Shape, [Next]_vars
  PROVE  \/ Drawn(Pipeline', Pipeline) /\ outcome' = outcome
         \/ \E w \in Workers, status \in Statuses : Reported(w, status)
  <1>0. Shape' /\ Workers \cup Readers \cup Tasks \subseteq Actors
    BY ShapeStep DEF Actors
  <1>1. /\ Pipeline = Second \o First /\ Pipeline' = Second' \o First'
        /\ Second \in Seq(Update) /\ First \in Seq(Update)
        /\ Pipeline \in Seq(Update) /\ Pipeline' \in Seq(Update)
    BY <1>0, TwoHalves, TwoHalvesNext
  <1>2. ASSUME First' = First, Second' = Second, outcome' = outcome
        PROVE  Drawn(Pipeline', Pipeline) /\ outcome' = outcome
    BY <1>1, <1>2, SameDrawn
  <1>3. CASE Flushing
    <2>1. CASE ReadCurrent \/ ReleaseL1
      BY <1>2, <2>1 DEF ReadCurrent, ReleaseL1, First, Second, l1Vars, l2Vars, workerVars
    <2>2. CASE WriteMerged
      BY <1>1, <2>2, WriteTakesOldest, RestDrawn DEF WriteMerged, workerVars
    <2>3. CASE HandOn
      BY <1>1, <2>3, HandOnKeepsPipeline, SameDrawn DEF HandOn, workerVars
    <2> QED
      BY <1>3, <2>1, <2>2, <2>3 DEF Flushing
  <1>4. ASSUME NEW t \in Tasks, Submitting(t)
        PROVE  Drawn(Pipeline', Pipeline) /\ outcome' = outcome
    <2>1. CASE Enqueue(t) \/ Refuse(t)
      BY <1>2, <2>1 DEF Enqueue, Refuse, First, Second, l1Vars, l2Vars, workerVars
    <2>2. CASE ReportPending(t)
      <3> DEFINE u == Upd(t, "pending")
      <3>1. u \in Update /\ u.status = "pending"
        BY UpdIsUpdate DEF Statuses
      <3>2. Second' = Append(Second, u)
        BY <1>0, <2>2, <3>1, QueueL2AddsLast DEF ReportPending
      <3>3. First' = First /\ outcome' = outcome
        BY <2>2 DEF ReportPending, First, l1Vars, workerVars
      <3> HIDE DEF u
      <3>4. Drawn(Append(Second, u) \o First, Second \o First)
        BY <1>1, <3>1, PendingDrawn
      <3> QED
        BY <1>1, <3>2, <3>3, <3>4
    <2> QED
      BY <1>4, <2>1, <2>2 DEF Submitting
  <1>5. ASSUME NEW w \in Workers, Working(w)
        PROVE  \/ Drawn(Pipeline', Pipeline) /\ outcome' = outcome
               \/ \E status \in Statuses : Reported(w, status)
    <2>1. CASE Take(w) \/ Leave(w)
      BY <1>2, <2>1 DEF Take, Leave, First, Second, l1Vars, l2Vars
    <2>2. CASE ExitSilently(w) \/ FinishTask(w)
      <3>1. First' = First
        BY <1>0, <2>2, FlushL1KeepsFirst DEF ExitSilently, FinishTask
      <3> QED
        BY <1>2, <2>2, <3>1 DEF ExitSilently, FinishTask, Second, l2Vars
    <2>3. CASE ReportRunning(w)
      BY <2>3, WorkerReports DEF Statuses
    <2>4. ASSUME NEW status \in Terminal, ReportOutcome(w, status)
          PROVE  \E s \in Statuses : Reported(w, s)
      BY <2>4, WorkerReports DEF Statuses, Terminal
    <2> QED
      BY <1>5, <2>1, <2>2, <2>3, <2>4 DEF Working
  <1>6. ASSUME NEW r \in Readers, Getting(r)
        PROVE  Drawn(Pipeline', Pipeline) /\ outcome' = outcome
    <2>1. CASE GetFlushL1(r)
      <3>1. First' = First
        BY <1>0, <2>1, FlushL1KeepsFirst DEF GetFlushL1
      <3> QED
        BY <1>2, <2>1, <3>1 DEF GetFlushL1, Second, l2Vars, workerVars
    <2>2. CASE GetFlushL2(r)
      <3>1. Second' = Second
        BY <1>0, <2>2, ForceFlushKeepsSecond DEF GetFlushL2
      <3> QED
        BY <1>2, <2>2, <3>1 DEF GetFlushL2, First, l1Vars, workerVars
    <2>3. CASE (\E t \in Tasks : BeginGet(r, t)) \/ ReturnRecord(r)
      BY <1>2, <2>3 DEF BeginGet, ReturnRecord, First, Second, l1Vars, l2Vars, workerVars
    <2> QED
      BY <1>6, <2>1, <2>2, <2>3 DEF Getting
  <1>7. CASE Removing \/ Stopping \/ UNCHANGED vars
    <2>1. UNCHANGED <<l1Vars, l2Vars, workerVars>>
      BY <1>7 DEF Removing, Clear, Evict, RemoveRecords, Stopping, BeginShutdown, SendSignal,
         WaitForThreads, EndShutdown, vars
    <2> QED
      BY <1>2, <2>1 DEF First, Second, l1Vars, l2Vars, workerVars
  <1> QED
    BY <1>3, <1>4, <1>5, <1>6, <1>7 DEF Next

-----------------------------------------------------------------------------
(* One place for each task.                                                 *)

QueueItems == Tasks \cup {Pill}

Distinct(q) == \A i, j \in 1 .. Len(q) : q[i] = q[j] /\ q[i] # Pill => i = j

LEMMA Queued ==
  ASSUME NEW q \in Seq(QueueItems), Distinct(q), NEW x \in QueueItems,
         x = Pill \/ ~InSeq(x, q)
  PROVE  Distinct(Append(q, x)) /\ \A y : InSeq(y, Append(q, x)) <=> InSeq(y, q) \/ y = x
  <1> DEFINE a == Append(q, x)
  <1>1. /\ Len(q) \in Nat /\ Len(a) = Len(q) + 1
        /\ \A i \in 1 .. Len(q) : a[i] = q[i]
        /\ a[Len(q) + 1] = x
    BY AppendProperties, LenProperties
  <1> HIDE DEF a
  <1>2. \A y : InSeq(y, a) <=> InSeq(y, q) \/ y = x
    BY <1>1 DEF InSeq
  <1>3. Distinct(a)
    BY <1>1 DEF Distinct, InSeq
  <1> QED
    BY <1>2, <1>3 DEF a

LEMMA Dequeued ==
  ASSUME NEW q \in Seq(QueueItems), Distinct(q), q # <<>>
  PROVE  /\ Distinct(Tail(q)) /\ \A y : InSeq(y, Tail(q)) => InSeq(y, q)
         /\ Head(q) \in QueueItems /\ InSeq(Head(q), q)
         /\ Head(q) # Pill => ~InSeq(Head(q), Tail(q))
  <1> DEFINE r == Tail(q)
             h == Head(q)
  <1>1. /\ Len(q) \in Nat /\ Len(q) >= 1 /\ Len(r) = Len(q) - 1 /\ h = q[1] /\ h \in QueueItems
        /\ \A i \in 1 .. Len(r) : r[i] = q[i + 1]
    BY HeadTailProperties, EmptySeq
  <1> HIDE DEF r, h
  <1>2. \A i \in 1 .. Len(r) : i + 1 \in 1 .. Len(q) /\ i + 1 # 1
    BY <1>1
  <1>3. Distinct(r)
    <2> SUFFICES ASSUME NEW i \in 1 .. Len(r), NEW j \in 1 .. Len(r), r[i] = r[j], r[i] # Pill
                 PROVE  i = j
      BY DEF Distinct
    <2>1. i + 1 = j + 1
      BY <1>1, <1>2 DEF Distinct
    <2> QED
      BY <1>1, <2>1
  <1>4. \A y : InSeq(y, r) => InSeq(y, q)
    BY <1>1, <1>2 DEF InSeq
  <1>5. h # Pill => ~InSeq(h, r)
    <2> SUFFICES ASSUME h # Pill, NEW i \in 1 .. Len(r), r[i] = h PROVE FALSE
      BY DEF InSeq
    <2>1. i + 1 = 1
      BY <1>1, <1>2 DEF Distinct
    <2> QED
      BY <1>2, <2>1
  <1>6. InSeq(h, q)
    BY <1>1 DEF InSeq
  <1> QED
    BY <1>1, <1>3, <1>4, <1>5, <1>6 DEF r, h

LEMMA OnePlaceKept ==
  ASSUME Shape, OnePlace, [Next]_vars
  PROVE  OnePlace'
  <1> USE DEF stopVars, submitVars, workerVars, l1Vars, l2Vars, storeVars, readVars
  <1>0. /\ queue \in Seq(QueueItems) /\ Distinct(queue)
        /\ \A t : InQueue(t) <=> InSeq(t, queue)
        /\ submitPc \in [Tasks -> SubmitPcs] /\ workerPc \in [Workers -> WorkerPcs]
        /\ job \in [Workers -> Tasks \cup {None}] /\ outcome \in [Tasks -> Terminal \cup {"none"}]
        /\ \A w \in Workers : HasInHand(w) => job[w] \in Tasks
        /\ Pill \notin Tasks
    BY PipelineAssumption
       DEF Shape, TypeOK, InHand, HasInHand, OnePlace, Distinct, InQueue, InSeq, QueueItems
  <1>00. \A t : InQueue(t)' <=> InSeq(t, queue')
    BY DEF InQueue, InSeq
  <1>1. CASE UNCHANGED <<queue, submitPc, workerPc, job, outcome>>
    BY <1>1 DEF OnePlace, InQueue, HasInHand
  <1>2. ASSUME NEW t \in Tasks, Submitting(t) PROVE OnePlace'
    <2>1. CASE Enqueue(t)
      <3>1. /\ submitPc[t] = "new" /\ queue' = Append(queue, t) /\ UNCHANGED <<workerPc, job, outcome>>
            /\ submitPc' = [submitPc EXCEPT ![t] = "queued"]
        BY <2>1 DEF Enqueue
      <3>2. Distinct(queue') /\ \A y : InQueue(y)' <=> InQueue(y) \/ y = t
        <4>1. ~InSeq(t, queue) /\ t \in QueueItems
          BY <1>0, <3>1 DEF OnePlace, QueueItems
        <4>2. Distinct(Append(queue, t)) /\ \A y : InSeq(y, Append(queue, t)) <=> InSeq(y, queue) \/ y = t
          BY <1>0, <4>1, Queued
        <4> QED
          BY <1>0, <1>00, <3>1, <4>2
      <3>3. \A s \in Tasks : submitPc'[s] \in {"new", "refused"} => submitPc[s] \in {"new", "refused"} /\ s # t
        BY <1>0, <3>1
      <3>4. \A v \in Workers : HasInHand(v)' <=> HasInHand(v)
        BY <3>1 DEF HasInHand
      <3>5. \A s \in Tasks : submitPc'[s] \in {"new", "refused"} \/ InQueue(s)' =>
              outcome'[s] = "none" /\ \A v \in Workers : HasInHand(v)' => job'[v] # s
        BY <3>1, <3>2, <3>3, <3>4 DEF OnePlace
      <3>6. \A s \in Tasks : submitPc'[s] \in {"new", "refused"} => ~InQueue(s)'
        BY <3>2, <3>3 DEF OnePlace
      <3>7. \A i, j \in 1 .. Len(queue') : queue'[i] = queue'[j] /\ queue'[i] # Pill => i = j
        BY <3>2 DEF Distinct
      <3>8. \A v \in Workers : workerPc'[v] \in {"taken", "executing"} => outcome'[job'[v]] = "none"
        BY <3>1 DEF OnePlace
      <3>9. \A v, x \in Workers : HasInHand(v)' /\ HasInHand(x)' /\ job'[v] = job'[x] => v = x
        BY <3>1, <3>4 DEF OnePlace
      <3> QED
        BY <3>5, <3>6, <3>7, <3>8, <3>9 DEF OnePlace
    <2>2. CASE Refuse(t)
      BY <1>0, <2>2 DEF Refuse, OnePlace, HasInHand, InQueue
    <2>3. CASE ReportPending(t)
      BY <1>0, <2>3 DEF ReportPending, OnePlace, HasInHand, InQueue
    <2> QED
      BY <1>2, <2>1, <2>2, <2>3 DEF Submitting
  <1>3. ASSUME NEW w \in Workers, Working(w) PROVE OnePlace'
    <2>1. CASE Take(w)
      <3>1. /\ workerPc[w] = "idle" /\ queue # <<>> /\ queue' = Tail(queue)
            /\ UNCHANGED <<submitPc, outcome>>
        BY <2>1 DEF Take
      <3>0. PICK h : h = Head(queue)
        OBVIOUS
      <3>2. /\ Distinct(queue') /\ \A y : InQueue(y)' => InQueue(y)
            /\ h # Pill => h \in Tasks /\ InQueue(h) /\ ~InQueue(h)'
        <4>1. /\ Distinct(Tail(queue)) /\ \A y : InSeq(y, Tail(queue)) => InSeq(y, queue)
              /\ h \in QueueItems /\ InSeq(h, queue) /\ (h # Pill => ~InSeq(h, Tail(queue)))
          BY <1>0, <3>0, <3>1, Dequeued
        <4> QED
          BY <1>0, <1>00, <3>1, <4>1 DEF QueueItems
      <3>3. CASE h = Pill /\ workerPc' = [workerPc EXCEPT ![w] = "gone"] /\ UNCHANGED job
        <4>1. \A v \in Workers : HasInHand(v)' => HasInHand(v) /\ workerPc'[v] = workerPc[v]
          BY <1>0, <3>3 DEF HasInHand
        <4>2. \A t \in Tasks : submitPc'[t] \in {"new", "refused"} \/ InQueue(t)' =>
                outcome'[t] = "none" /\ \A v \in Workers : HasInHand(v)' => job'[v] # t
          BY <3>1, <3>2, <3>3, <4>1 DEF OnePlace
        <4>3. \A v \in Workers : workerPc'[v] \in {"taken", "executing"} => outcome'[job'[v]] = "none"
          BY <1>0, <3>1, <3>3 DEF OnePlace
        <4>4. \A v, x \in Workers : HasInHand(v)' /\ HasInHand(x)' /\ job'[v] = job'[x] => v = x
          BY <3>3, <4>1 DEF OnePlace
        <4>5. \A t \in Tasks : submitPc'[t] \in {"new", "refused"} => ~InQueue(t)'
          BY <3>1, <3>2 DEF OnePlace
        <4>6. \A i, j \in 1 .. Len(queue') : queue'[i] = queue'[j] /\ queue'[i] # Pill => i = j
          BY <3>2 DEF Distinct
        <4> QED
          BY <4>2, <4>3, <4>4, <4>5, <4>6 DEF OnePlace
      <3>4. CASE h # Pill /\ workerPc' = [workerPc EXCEPT ![w] = "taken"] /\ job' = [job EXCEPT ![w] = h]
        <4>1. /\ h \in Tasks /\ InQueue(h) /\ ~InQueue(h)' /\ ~HasInHand(w)
              /\ \A v \in Workers : HasInHand(v)' <=> HasInHand(v) \/ v = w
              /\ \A v \in Workers \ {w} : job'[v] = job[v] /\ workerPc'[v] = workerPc[v]
              /\ job'[w] = h
          BY <1>0, <3>1, <3>2, <3>4 DEF HasInHand
        <4>2. \A v \in Workers : HasInHand(v) => job[v] # h
          BY <4>1 DEF OnePlace
        <4>3. outcome[h] = "none" /\ submitPc[h] \notin {"new", "refused"}
          BY <4>1 DEF OnePlace
        <4>4. \A t \in Tasks : submitPc'[t] \in {"new", "refused"} \/ InQueue(t)' =>
                outcome'[t] = "none" /\ \A v \in Workers : HasInHand(v)' => job'[v] # t
          BY <3>1, <3>2, <4>1, <4>3 DEF OnePlace
        <4>5. \A v, x \in Workers : HasInHand(v)' /\ HasInHand(x)' /\ job'[v] = job'[x] => v = x
          BY <4>1, <4>2 DEF OnePlace
        <4>6. \A v \in Workers : workerPc'[v] \in {"taken", "executing"} => outcome'[job'[v]] = "none"
          BY <3>1, <4>1, <4>3 DEF OnePlace
        <4> QED
          BY <3>1, <3>2, <4>4, <4>5, <4>6 DEF OnePlace, Distinct
      <3> QED
        BY <2>1, <3>0, <3>3, <3>4 DEF Take
    <2>2. CASE Leave(w) \/ ExitSilently(w)
      <3>1. /\ UNCHANGED <<queue, submitPc, job, outcome>>
            /\ workerPc' = [workerPc EXCEPT ![w] = "gone"]
        BY <2>2 DEF Leave, ExitSilently
      <3> QED
        BY <1>0, <3>1 DEF OnePlace, HasInHand, InQueue
    <2>3. CASE ReportRunning(w)
      <3>1. /\ UNCHANGED <<queue, submitPc, job, outcome>> /\ workerPc[w] = "taken"
            /\ workerPc' = [workerPc EXCEPT ![w] = "executing"]
        BY <2>3 DEF ReportRunning
      <3> QED
        BY <1>0, <3>1 DEF OnePlace, HasInHand, InQueue
    <2>4. ASSUME NEW status \in Terminal, ReportOutcome(w, status) PROVE OnePlace'
      <3>1. /\ UNCHANGED <<queue, submitPc, job>> /\ workerPc[w] = "executing"
            /\ outcome' = [outcome EXCEPT ![job[w]] = status]
            /\ workerPc' = [workerPc EXCEPT ![w] = "reported"]
        BY <2>4 DEF ReportOutcome
      <3>2. /\ HasInHand(w) /\ \A v \in Workers : HasInHand(v)' <=> HasInHand(v)
            /\ \A v \in Workers \ {w} : workerPc'[v] = workerPc[v]
            /\ \A t \in Tasks \ {job[w]} : outcome'[t] = outcome[t]
            /\ workerPc'[w] = "reported" /\ \A y : InQueue(y)' <=> InQueue(y)
        BY <1>0, <3>1 DEF HasInHand, InQueue
      <3>3. \A v \in Workers : workerPc'[v] \in {"taken", "executing"} => outcome'[job'[v]] = "none"
        BY <1>0, <3>1, <3>2 DEF OnePlace, HasInHand
      <3> QED
        BY <3>1, <3>2, <3>3 DEF OnePlace
    <2>5. CASE FinishTask(w)
      <3>1. /\ UNCHANGED <<queue, submitPc, outcome>> /\ job' = [job EXCEPT ![w] = None]
            /\ \E next \in {"idle", "gone"} : workerPc' = [workerPc EXCEPT ![w] = next]
        BY <2>5 DEF FinishTask
      <3> QED
        BY <1>0, <3>1 DEF OnePlace, HasInHand, InQueue
    <2> QED
      BY <1>3, <2>1, <2>2, <2>3, <2>4, <2>5 DEF Working
  <1>4. CASE SendSignal
    <2>1. \/ UNCHANGED <<queue, submitPc, workerPc, job, outcome>>
          \/ queue' = Append(queue, Pill) /\ UNCHANGED <<submitPc, workerPc, job, outcome>>
      BY <1>4 DEF SendSignal
    <2>2. CASE queue' = Append(queue, Pill) /\ UNCHANGED <<submitPc, workerPc, job, outcome>>
      <3>1. Distinct(queue') /\ \A y : InQueue(y)' <=> InQueue(y) \/ y = Pill
        BY <1>0, <1>00, <2>2, Queued DEF QueueItems
      <3> QED
        BY <1>0, <2>2, <3>1 DEF OnePlace, HasInHand, Distinct
    <2> QED
      BY <1>1, <2>1, <2>2
  <1>5. CASE \/ Flushing \/ Removing \/ BeginShutdown \/ WaitForThreads \/ EndShutdown \/ UNCHANGED vars
             \/ \E r \in Readers : Getting(r)
    BY <1>1, <1>5 DEF Flushing, ReadCurrent, WriteMerged, HandOn, ReleaseL1, Removing, Clear, Evict,
       RemoveRecords, BeginShutdown, WaitForThreads, EndShutdown, vars, Getting, BeginGet, GetFlushL1,
       GetFlushL2, ReturnRecord
  <1> QED
    BY <1>2, <1>3, <1>4, <1>5 DEF Next, Stopping

-----------------------------------------------------------------------------
(* ReportsStayOrdered and ResultOrError.                                    *)

(* An outcome once reported stays.                                          *)
LEMMA OutcomeSettles ==
  ASSUME Shape, OnePlace, [Next]_vars, NEW t, outcome[t] \in Terminal
  PROVE  outcome'[t] = outcome[t]
  <1>1. ASSUME NEW w \in Workers, NEW status \in Terminal, ReportOutcome(w, status)
        PROVE  outcome'[t] = outcome[t]
    <2>1. outcome[job[w]] = "none" /\ outcome' = [outcome EXCEPT ![job[w]] = status]
      BY <1>1 DEF ReportOutcome, OnePlace
    <2> QED
      BY <2>1 DEF Terminal
  <1> QED
    BY <1>1, PipelineMoves DEF Reported

(* What is reported, and what is in the pipeline after it.                  *)
LEMMA AfterReport ==
  ASSUME Shape, OnePlace, NEW w \in Workers, NEW status \in Statuses, Reported(w, status)
  PROVE  /\ Len(Pipeline) \in Nat /\ Len(Pipeline') = Len(Pipeline) + 1
         /\ \A i \in 1 .. Len(Pipeline) : Pipeline'[i] = Pipeline[i] /\ Pipeline[i] \in Update
         /\ Pipeline'[Len(Pipeline) + 1] = Upd(job[w], status)
         /\ Upd(job[w], status).task = job[w] /\ Upd(job[w], status).status = status
         /\ job[w] \in Tasks /\ outcome[job[w]] = "none"
         /\ outcome'[job[w]] = IF status \in Terminal THEN status ELSE "none"
         /\ status = "running" \/ status \in Terminal
         /\ \A t \in Tasks \ {job[w]} : outcome'[t] = outcome[t]
         /\ UNCHANGED <<store, l2Seen, l2Out, dropped>>
  <1>1. Upd(job[w], status) \in Update /\ Upd(job[w], status).task = job[w]
        /\ Upd(job[w], status).status = status /\ job[w] \in Tasks
    BY UpdIsUpdate DEF Reported
  <1>2. /\ Len(Pipeline) \in Nat /\ Len(Pipeline') = Len(Pipeline) + 1
        /\ \A i \in 1 .. Len(Pipeline) : Pipeline'[i] = Pipeline[i] /\ Pipeline[i] \in Update
        /\ Pipeline'[Len(Pipeline) + 1] = Upd(job[w], status)
    BY <1>1, TwoHalves, AppendProperties, LenProperties, ElementOfSeq DEF Reported
  <1>3. CASE ReportRunning(w) /\ status = "running" /\ outcome' = outcome
    BY <1>1, <1>2, <1>3 DEF Reported, ReportRunning, OnePlace, Terminal
  <1>4. CASE ReportOutcome(w, status) /\ status \in Terminal
    <2>1. outcome[job[w]] = "none" /\ outcome' = [outcome EXCEPT ![job[w]] = status]
      BY <1>4 DEF ReportOutcome, OnePlace
    <2>2. outcome \in [Tasks -> Terminal \cup {"none"}]
      BY DEF Shape, TypeOK
    <2> QED
      BY <1>1, <1>2, <1>4, <2>1, <2>2 DEF Reported
  <1> QED
    BY <1>3, <1>4 DEF Reported

LEMMA OrderKept ==
  ASSUME Shape, OnePlace, Truthful(Pipeline), InOrder(Pipeline), [Next]_vars
  PROVE  Truthful(Pipeline)' /\ InOrder(Pipeline)'
  <1>1. CASE Drawn(Pipeline', Pipeline) /\ outcome' = outcome
    <2>1. PICK f : KeepsOrder(f, Pipeline', Pipeline)
      BY <1>1 DEF Drawn
    <2>2. Truthful(Pipeline)'
      <3> SUFFICES ASSUME NEW i \in 1 .. Len(Pipeline'), Pipeline'[i].status \in Terminal
                   PROVE  outcome'[Pipeline'[i].task] = Pipeline'[i].status
        BY DEF Truthful
      <3>1. f[i] \in 1 .. Len(Pipeline) /\ Pipeline[f[i]] = Pipeline'[i]
        BY <2>1 DEF KeepsOrder, Terminal
      <3> QED
        BY <1>1, <3>1 DEF Truthful
    <2>3. InOrder(Pipeline)'
      <3> SUFFICES ASSUME NEW i \in 1 .. Len(Pipeline'), NEW j \in 1 .. Len(Pipeline'),
                          Pipeline'[i].task = Pipeline'[j].task,
                          Pipeline'[i].status = "running", Pipeline'[j].status \in Terminal
                   PROVE  i < j
        BY DEF InOrder
      <3>1. /\ f[i] \in 1 .. Len(Pipeline) /\ Pipeline[f[i]] = Pipeline'[i]
            /\ f[j] \in 1 .. Len(Pipeline) /\ Pipeline[f[j]] = Pipeline'[j]
            /\ f[i] \in Int /\ f[j] \in Int
        BY <2>1 DEF KeepsOrder, Terminal
      <3>2. f[i] < f[j]
        BY <3>1 DEF InOrder
      <3>3. j <= i => f[j] <= f[i]
        BY <2>1 DEF KeepsOrder
      <3> QED
        BY <3>1, <3>2, <3>3
    <2> QED
      BY <2>2, <2>3
  <1>2. ASSUME NEW w \in Workers, NEW status \in Statuses, Reported(w, status)
        PROVE  Truthful(Pipeline)' /\ InOrder(Pipeline)'
    <2> DEFINE n == Len(Pipeline)
    <2>1. /\ n \in Nat /\ Len(Pipeline') = n + 1
          /\ \A i \in 1 .. n : Pipeline'[i] = Pipeline[i] /\ Pipeline[i].task \in Tasks
          /\ Pipeline'[n + 1].task = job[w] /\ Pipeline'[n + 1].status = status
          /\ job[w] \in Tasks /\ outcome[job[w]] = "none"
          /\ outcome'[job[w]] = IF status \in Terminal THEN status ELSE "none"
          /\ \A t \in Tasks \ {job[w]} : outcome'[t] = outcome[t]
      BY <1>2, AfterReport DEF Update
    <2>2. \A i \in 1 .. n : Pipeline[i].status \in Terminal => Pipeline[i].task # job[w]
      BY <2>1 DEF Truthful, Terminal
    <2> HIDE DEF n
    <2>3. Truthful(Pipeline)'
      <3> SUFFICES ASSUME NEW i \in 1 .. Len(Pipeline'), Pipeline'[i].status \in Terminal
                   PROVE  outcome'[Pipeline'[i].task] = Pipeline'[i].status
        BY DEF Truthful
      <3>1. CASE i = n + 1
        BY <2>1, <3>1
      <3>2. CASE i # n + 1
        <4>1. i \in 1 .. n
          BY <2>1, <3>2
        <4> QED
          BY <2>1, <2>2, <4>1 DEF Truthful, n
      <3> QED
        BY <3>1, <3>2
    <2>4. InOrder(Pipeline)'
      <3> SUFFICES ASSUME NEW i \in 1 .. Len(Pipeline'), NEW j \in 1 .. Len(Pipeline'),
                          Pipeline'[i].task = Pipeline'[j].task,
                          Pipeline'[i].status = "running", Pipeline'[j].status \in Terminal
                   PROVE  i < j
        BY DEF InOrder
      <3>1. CASE j = n + 1
        <4>1. i # n + 1
          BY <2>1, <3>1 DEF Terminal
        <4> QED
          BY <2>1, <3>1, <4>1
      <3>2. CASE j # n + 1
        <4>1. j \in 1 .. n
          BY <2>1, <3>2
        <4>2. i # n + 1
          BY <2>1, <2>2, <4>1
        <4>3. i \in 1 .. n
          BY <2>1, <4>2
        <4> QED
          BY <2>1, <4>1, <4>3 DEF InOrder, n
      <3> QED
        BY <3>1, <3>2
    <2> QED
      BY <2>3, <2>4
  <1> QED
    BY <1>1, <1>2, PipelineMoves

(* What any step does to the records: a write, a read, a removal or nothing.*)
LEMMA StoreMoves ==
  ASSUME Shape, [Next]_vars
  PROVE  \/ WriteMerged /\ dropped' = dropped
         \/ ReadCurrent /\ UNCHANGED <<store, dropped, l2Out>>
         \/ \E gone \in SUBSET Tasks : RemoveRecords(gone)
         \/ UNCHANGED <<store, dropped, l2Seen>> /\ (l2Seen # Unread => l2Out' = l2Out)
  <1> USE DEF storeVars, l2Vars
  <1>1. ASSUME NEW a \in Actors, NEW u \in Update, QueueL2(a, u) PROVE l2Seen = Unread /\ l2Seen' = Unread
    BY <1>1, QueueL2Facts DEF Shape
  <1>2. ASSUME NEW a \in Actors, ForceFlushL2(a) PROVE l2Seen = Unread /\ l2Seen' = Unread
    BY <1>2, ForceFlushL2Facts DEF Shape
  <1>3. CASE Flushing
    <2>1. CASE HandOn
      <3>1. Head(l1Out) \in Update /\ l1By \in Actors
        BY <2>1, OutcomeInTail DEF HandOn, Shape, TypeOK, Locks
      <3> QED
        BY <1>1, <2>1, <3>1 DEF HandOn
    <2> QED
      BY <1>3, <2>1 DEF Flushing, ReadCurrent, WriteMerged, ReleaseL1
  <1>4. ASSUME NEW t \in Tasks, Submitting(t)
        PROVE  UNCHANGED <<store, dropped, l2Seen>> /\ (l2Seen # Unread => l2Out' = l2Out)
    <2>1. Upd(t, "pending") \in Update /\ t \in Actors
      BY UpdIsUpdate DEF Statuses, Actors
    <2> QED
      BY <1>1, <1>4, <2>1 DEF Submitting, Enqueue, Refuse, ReportPending
  <1>5. ASSUME NEW w \in Workers, Working(w)
        PROVE  UNCHANGED <<store, dropped, l2Seen, l2Out>>
    BY <1>5 DEF Working, Take, Leave, ReportRunning, ReportOutcome, FinishTask, ExitSilently
  <1>6. ASSUME NEW r \in Readers, Getting(r)
        PROVE  UNCHANGED <<store, dropped, l2Seen>> /\ (l2Seen # Unread => l2Out' = l2Out)
    <2>1. r \in Actors
      BY DEF Actors
    <2> QED
      BY <1>2, <1>6, <2>1 DEF Getting, BeginGet, GetFlushL1, GetFlushL2, ReturnRecord
  <1>7. CASE Removing
    <2>1. \E t \in Tasks : RemoveRecords({t})
      BY <1>7 DEF Removing, Clear, Evict
    <2> QED
      BY <2>1
  <1>8. CASE Stopping \/ UNCHANGED vars
    BY <1>8 DEF Stopping, BeginShutdown, SendSignal, WaitForThreads, EndShutdown, vars
  <1> QED
    BY <1>3, <1>4, <1>5, <1>6, <1>7, <1>8 DEF Next

(* A merge adds what the update says, and nothing else.                     *)
LEMMA MergeFits ==
  ASSUME NEW t \in Tasks, NEW current \in Record \cup {None}, NEW u \in Update,
         Fits(t, current), u.status \in Terminal => outcome[t] = u.status
  PROVE  Fits(t, Merge(current, u))
  <1> DEFINE m == Merge(current, u)
             old == IF current = None THEN {} ELSE current.fields
  <1>1. m.status = u.status /\ m.fields = Given(u) \cup old /\ u.status \in Statuses
    BY DEF Merge, Update
  <1>2. /\ u.status = "pending" => Given(u) = {"submit"}
        /\ u.status = "running" => Given(u) = {"start"}
        /\ u.status = "completed" => /\ {"start", "end"} \subseteq Given(u)
                                     /\ Given(u) \subseteq {"start", "end", "result"}
        /\ u.status = "failed" => Given(u) = {"start", "end", "error"}
    BY DEF Given
  <1>3. /\ "end" \in old => outcome[t] \in Terminal /\ (outcome[t] = "failed" => "error" \in old)
        /\ "result" \in old => outcome[t] = "completed"
        /\ "error" \in old => outcome[t] = "failed"
    BY DEF Fits, Agrees
  <1> HIDE DEF m, old
  <1> QED
    BY <1>1, <1>2, <1>3 DEF Fits, Agrees, Statuses, Terminal, m

(* The update that is written, and those behind it.                         *)
LEMMA WrittenFirst ==
  ASSUME Shape, WriteMerged
  PROVE  /\ Len(Pipeline') \in Nat /\ Len(Pipeline) = Len(Pipeline') + 1
         /\ Pipeline[1] = Head(l2Out) /\ 1 \in 1 .. Len(Pipeline)
         /\ \A k \in 1 .. Len(Pipeline') : Pipeline'[k] = Pipeline[k + 1]
                                           /\ k + 1 \in 1 .. Len(Pipeline)
         /\ Head(l2Out) \in Update /\ l2Seen \in Record \cup {None}
         /\ Head(l2Out).task \in Tasks /\ Head(l2Out).status \in Statuses
         /\ store' = [store EXCEPT ![Head(l2Out).task] = Merge(l2Seen, Head(l2Out))]
         /\ store \in [Tasks -> Record \cup {None}]
  <1>1. Pipeline' \in Seq(Update)
    BY ShapeFlushing, TwoHalvesNext DEF Flushing
  <1>2. Pipeline = <<Head(l2Out)>> \o Pipeline' /\ Head(l2Out) \in Update
    BY WriteTakesOldest
  <1>3. /\ Len(Pipeline') \in Nat /\ Len(Pipeline) = Len(Pipeline') + 1
        /\ Pipeline[1] = Head(l2Out)
        /\ \A k \in 1 .. Len(Pipeline') : Pipeline'[k] = Pipeline[k + 1]
    BY <1>1, <1>2, FirstAndRest
  <1>4. l2Seen \in Record \cup {None} /\ store \in [Tasks -> Record \cup {None}]
    BY DEF Shape, TypeOK, WriteMerged
  <1>5. store' = [store EXCEPT ![Head(l2Out).task] = Merge(l2Seen, Head(l2Out))]
    BY DEF WriteMerged
  <1>6. \A k \in 1 .. Len(Pipeline') : k + 1 \in 1 .. Len(Pipeline)
    BY <1>3
  <1> QED
    BY <1>2, <1>3, <1>4, <1>5, <1>6 DEF Update

(* A record that fits a task goes on to fit it: the outcome only comes.      *)
LEMMA FitsStays ==
  ASSUME Shape, OnePlace, [Next]_vars, NEW t, NEW record, Fits(t, record)
  PROVE  Agrees(outcome'[t], record)
  <1>1. CASE outcome[t] \in Terminal
    BY <1>1, OutcomeSettles DEF Fits
  <1>2. CASE outcome[t] \notin Terminal
    BY <1>2 DEF Fits, Agrees, Terminal
  <1> QED
    BY <1>1, <1>2

(* The records, and the one the flusher has read, go on to fit.             *)
LEMMA RecordsFitKept ==
  ASSUME Shape, OnePlace, Truthful(Pipeline), RecordsFit, [Next]_vars
  PROVE  RecordsFit'
  <1>0. \A t \in Tasks : Agrees(outcome'[t], store[t])
    BY FitsStays DEF RecordsFit
  <1>1. l2Seen # Unread => Agrees(outcome'[Head(l2Out).task], l2Seen)
    BY FitsStays DEF RecordsFit
  <1>2. CASE WriteMerged
    <2> DEFINE u == Head(l2Out)
               m == Merge(l2Seen, u)
    <2>1. /\ u \in Update /\ u.task \in Tasks /\ Pipeline[1] = u /\ 1 \in 1 .. Len(Pipeline)
          /\ l2Seen \in Record \cup {None} /\ store' = [store EXCEPT ![u.task] = m]
          /\ store \in [Tasks -> Record \cup {None}] /\ l2Seen # Unread /\ l2Seen' = Unread
          /\ outcome' = outcome
      BY <1>2, WrittenFirst DEF WriteMerged, workerVars
    <2>2. u.status \in Terminal => outcome[u.task] = u.status
      BY <2>1 DEF Truthful
    <2>3. Fits(u.task, l2Seen)
      BY <2>1 DEF RecordsFit
    <2>4. Fits(u.task, m)
      BY <2>1, <2>2, <2>3, MergeFits
    <2> HIDE DEF u, m
    <2>5. \A t \in Tasks : Agrees(outcome'[t], store'[t])
      BY <1>0, <2>1, <2>4 DEF Fits
    <2> QED
      BY <2>1, <2>5 DEF RecordsFit, Fits
  <1>3. CASE ReadCurrent /\ UNCHANGED <<store, dropped, l2Out>>
    <2>1. l2Out # <<>> /\ l2Out \in Seq(Update) /\ l2Seen' = store[Head(l2Out).task]
      BY <1>3 DEF ReadCurrent, Shape, Locks, TypeOK
    <2>2. Head(l2Out).task \in Tasks
      BY <2>1, OutcomeInTail DEF Update
    <2> QED
      BY <1>0, <1>3, <2>1, <2>2 DEF RecordsFit, Fits
  <1>4. ASSUME NEW gone \in SUBSET Tasks, RemoveRecords(gone) PROVE RecordsFit'
    <2>1. /\ \A t \in Tasks : store'[t] = None \/ store'[t] = store[t]
          /\ UNCHANGED <<l2Out, l2Seen>>
      BY <1>4 DEF RemoveRecords, l2Vars
    <2>2. \A t : Agrees(outcome'[t], None)
      BY DEF Agrees
    <2> QED
      BY <1>0, <1>1, <2>1, <2>2 DEF RecordsFit, Fits
  <1>5. CASE UNCHANGED <<store, dropped, l2Seen>> /\ (l2Seen # Unread => l2Out' = l2Out)
    BY <1>0, <1>1, <1>5 DEF RecordsFit, Fits
  <1> QED
    BY <1>2, <1>3, <1>4, <1>5, StoreMoves

(* A task still to be set to running has not ended: its outcome, if any, is  *)
(* behind that update.                                                      *)
LEMMA NoneTooLateKept ==
  ASSUME Shape, OnePlace, Reports, [Next]_vars
  PROVE  NoneTooLate(Pipeline)'
  <1> SUFFICES ASSUME NEW k \in 1 .. Len(Pipeline'), Pipeline'[k].status = "running",
                      Pipeline'[k].task \notin dropped'
               PROVE  ~(store'[Pipeline'[k].task] # None
                        /\ "end" \in store'[Pipeline'[k].task].fields)
    BY DEF NoneTooLate, Ended
  <1> DEFINE t == Pipeline'[k].task
  <1>0. t \in Tasks /\ t \notin dropped
    <2>1. Pipeline' \in Seq(Update)
      BY ShapeStep, TwoHalvesNext
    <2>2. Pipeline'[k] \in Update
      BY <2>1, ElementOfSeq
    <2> QED
      BY <2>2, DroppedGrows DEF Update
  <1>1. CASE WriteMerged
    <2> DEFINE u == Head(l2Out)
    <2>1. /\ Pipeline'[k] = Pipeline[k + 1] /\ k + 1 \in 1 .. Len(Pipeline)
          /\ Pipeline[1] = u /\ 1 \in 1 .. Len(Pipeline) /\ u.status \in Statuses
          /\ store' = [store EXCEPT ![u.task] = Merge(l2Seen, u)]
          /\ store \in [Tasks -> Record \cup {None}] /\ l2Seen # Unread
          /\ u.task \in Tasks /\ k \in Nat /\ k >= 1
      BY <1>1, WrittenFirst DEF WriteMerged
    <2>2. ~Ended(t)
      BY <1>0, <2>1 DEF Reports, NoneTooLate
    <2>3. CASE u.task # t
      BY <2>1, <2>2, <2>3 DEF Ended
    <2>4. CASE u.task = t
      <3>1. u.status \notin Terminal
        <4>1. u.status \in Terminal => k + 1 < 1
          BY <2>1, <2>4 DEF Reports, InOrder
        <4> QED
          BY <2>1, <4>1
      <3>2. "end" \notin Given(u)
        BY <2>1, <3>1 DEF Given, Statuses, Terminal
      <3>3. l2Seen = store[t]
        BY <1>0, <2>1, <2>4 DEF Shape, Locks
      <3>4. store'[t].fields = Given(u) \cup (IF l2Seen = None THEN {} ELSE l2Seen.fields)
        BY <1>0, <2>1, <2>4 DEF Merge
      <3> HIDE DEF t, u
      <3>5. "end" \notin store'[t].fields
        BY <2>2, <3>2, <3>3, <3>4 DEF Ended
      <3> QED
        BY <3>5 DEF t
    <2> QED
      BY <2>3, <2>4
  <1>2. CASE ~WriteMerged
    <2>1. store'[t] = None \/ store'[t] = store[t]
      BY <1>0, <1>2, StoreMoves DEF RemoveRecords
    <2>2. ~Ended(t)
      <3>1. CASE Drawn(Pipeline', Pipeline)
        <4>1. PICK f : KeepsOrder(f, Pipeline', Pipeline)
          BY <3>1 DEF Drawn
        <4>2. f[k] \in 1 .. Len(Pipeline) /\ Pipeline[f[k]] = Pipeline'[k]
          BY <4>1 DEF KeepsOrder
        <4> QED
          BY <1>0, <4>2 DEF Reports, NoneTooLate
      <3>2. ASSUME NEW w \in Workers, NEW status \in Statuses, Reported(w, status)
            PROVE  ~Ended(t)
        <4> DEFINE n == Len(Pipeline)
        <4>1. /\ n \in Nat /\ Len(Pipeline') = n + 1
              /\ \A i \in 1 .. n : Pipeline'[i] = Pipeline[i]
              /\ Pipeline'[n + 1].task = job[w] /\ outcome[job[w]] = "none"
          BY <3>2, AfterReport
        <4>2. CASE k \in 1 .. n
          BY <1>0, <4>1, <4>2 DEF Reports, NoneTooLate
        <4>3. CASE k = n + 1
          BY <1>0, <4>1, <4>3 DEF Reports, RecordsFit, Fits, Agrees, Ended, Terminal
        <4> HIDE DEF n
        <4>4. k \in 1 .. n \/ k = n + 1
          BY <4>1
        <4> QED
          BY <4>2, <4>3, <4>4
      <3> QED
        BY <3>1, <3>2, PipelineMoves
    <2> QED
      BY <2>1, <2>2 DEF Ended
  <1> QED
    BY <1>1, <1>2

LEMMA ReportsInit == Init => OnePlace /\ Reports
  <1> SUFFICES ASSUME Init PROVE OnePlace /\ Reports
    OBVIOUS
  <1>1. Pipeline = <<>>
    BY DEF Init, Pipeline
  <1>2. OnePlace
    BY DEF Init, OnePlace, InQueue, HasInHand
  <1>3. Truthful(<<>>) /\ InOrder(<<>>) /\ NoneTooLate(<<>>)
    BY DEF Truthful, InOrder, NoneTooLate
  <1>4. RecordsFit
    BY DEF Init, RecordsFit, Fits, Agrees
  <1> QED
    BY <1>1, <1>2, <1>3, <1>4 DEF Reports

LEMMA ReportsStep == Shape /\ OnePlace /\ Reports /\ [Next]_vars => OnePlace' /\ Reports'
  <1> SUFFICES ASSUME Shape, OnePlace, Reports, [Next]_vars PROVE OnePlace' /\ Reports'
    OBVIOUS
  <1>1. Truthful(Pipeline) /\ InOrder(Pipeline) /\ RecordsFit
    BY DEF Reports
  <1> QED
    BY <1>1, OnePlaceKept, OrderKept, NoneTooLateKept, RecordsFitKept DEF Reports

(* A worker's two reports of a task stay in the order they were made, from  *)
(* the first batch to the store.                                            *)
THEOREM ReportsInOrder == Spec => []ReportsStayOrdered
  <1>1. Shape /\ Reports => ReportsStayOrdered
    <2> SUFFICES ASSUME Shape, Reports, NEW t \in Tasks, NEW s \in Terminal,
                        InSeq(Upd(t, "running"), Pipeline)
                 PROVE  /\ InSeq(Upd(t, s), Pipeline) =>
                             Pos(Upd(t, "running"), Pipeline) < Pos(Upd(t, s), Pipeline)
                        /\ t \notin dropped => ~Ended(t)
      BY DEF ReportsStayOrdered
    <2> DEFINE P == Pipeline
               u == Upd(t, "running")
               v == Upd(t, s)
    <2>0. u.task = t /\ u.status = "running" /\ v.task = t /\ v.status \in Terminal
      BY DEF Upd
    <2> HIDE DEF u, v, P
    <2>1. Pos(u, P) \in 1 .. Len(P) /\ P[Pos(u, P)] = u
      BY DEF InSeq, Pos, P, u
    <2>2. ASSUME InSeq(v, P) PROVE Pos(u, P) < Pos(v, P)
      <3>1. Pos(v, P) \in 1 .. Len(P) /\ P[Pos(v, P)] = v
        BY <2>2 DEF InSeq, Pos
      <3> QED
        BY <2>0, <2>1, <3>1 DEF Reports, InOrder, P
    <2>3. t \notin dropped => ~Ended(t)
      BY <2>0, <2>1 DEF Reports, NoneTooLate, P
    <2> QED
      BY <2>2, <2>3 DEF P, u, v
  <1> QED
    BY <1>1, ShapeInit, ShapeStep, ReportsInit, ReportsStep, PTL DEF Spec

(* No record ever has both a result and an error.                           *)
THEOREM RecordsHaveOneOutcome == Spec => []ResultOrError
  <1>1. Reports => ResultOrError
    BY DEF Reports, RecordsFit, Fits, Agrees, ResultOrError
  <1> QED
    BY <1>1, ShapeInit, ShapeStep, ReportsInit, ReportsStep, PTL DEF Spec
-----------------------------------------------------------------------------
(* The pending update of a task is written before anyone returns a record   *)
(* of it.                                                                   *)

LEMMA NotPendingFacts ==
  ASSUME NEW s \in Seq(Update), NEW t
  PROVE  /\ NotPending(t, <<>>)
         /\ \A u \in Update : NotPending(t, s) /\ (u.task = t => u.status # "pending") =>
              NotPending(t, Append(s, u))
         /\ s # <<>> /\ NotPending(t, s) =>
              NotPending(t, Tail(s)) /\ (Head(s).task = t => Head(s).status # "pending")
  <1>1. NotPending(t, <<>>)
    BY DEF NotPending
  <1>2. ASSUME NEW u \in Update, NotPending(t, s), u.task = t => u.status # "pending"
        PROVE  NotPending(t, Append(s, u))
    <2> DEFINE a == Append(s, u)
    <2>1. /\ Len(s) \in Nat /\ Len(a) = Len(s) + 1 /\ a[Len(s) + 1] = u
          /\ \A i \in 1 .. Len(s) : a[i] = s[i]
      OBVIOUS
    <2> HIDE DEF a
    <2>2. \A i \in 1 .. Len(a) : i \in 1 .. Len(s) \/ i = Len(s) + 1
      BY <2>1
    <2>3. NotPending(t, a)
      BY <1>2, <2>1, <2>2 DEF NotPending
    <2> QED
      BY <2>3 DEF a
  <1>3. ASSUME s # <<>>, NotPending(t, s)
        PROVE  NotPending(t, Tail(s)) /\ (Head(s).task = t => Head(s).status # "pending")
    <2> DEFINE r == Tail(s)
    <2>1. /\ Len(s) \in Nat /\ Len(s) >= 1 /\ Len(r) = Len(s) - 1 /\ Head(s) = s[1]
          /\ \A i \in 1 .. Len(r) : r[i] = s[i + 1]
      BY <1>3, EmptySeq, HeadTailProperties
    <2> HIDE DEF r
    <2>2. \A i \in 1 .. Len(r) : i + 1 \in 1 .. Len(s)
      BY <2>1
    <2>3. NotPending(t, r) /\ (Head(s).task = t => Head(s).status # "pending")
      BY <1>3, <2>1, <2>2 DEF NotPending
    <2> QED
      BY <2>3 DEF r
  <1> QED
    BY <1>1, <1>2, <1>3

(* The workers' updates are not pending, and a flush only moves them.       *)
LEMMA FirstKept ==
  ASSUME Shape, FirstHasNoPending,
         \/ \E a \in Actors, t \in Tasks, status \in Statuses \ {"pending"} :
              QueueL1(a, Upd(t, status))
         \/ \E a \in Actors : FlushL1(a)
         \/ HandOn
         \/ UNCHANGED <<l1, l1Out>>
  PROVE  FirstHasNoPending'
  <1>0. l1 \in Seq(Update) /\ l1Out \in Seq(Update)
    BY DEF Shape, TypeOK
  <1>1. ASSUME NEW a \in Actors, NEW t \in Tasks, NEW status \in Statuses \ {"pending"},
               QueueL1(a, Upd(t, status))
        PROVE  FirstHasNoPending'
    <2> DEFINE u == Upd(t, status)
    <2>1. u \in Update /\ u.status # "pending"
      BY UpdIsUpdate
    <2>2. QueueL1(a, u) /\ l1Out = <<>>
      BY <1>1 DEF QueueL1, Shape, Locks
    <2> HIDE DEF u
    <2> QED
      BY <1>0, <2>1, <2>2, NotPendingFacts DEF QueueL1, FirstHasNoPending
  <1>2. ASSUME NEW a \in Actors, FlushL1(a) PROVE FirstHasNoPending'
    BY <1>0, <1>2, NotPendingFacts DEF FlushL1, FirstHasNoPending, l1Vars
  <1>3. CASE HandOn
    BY <1>0, <1>3, NotPendingFacts DEF HandOn, FirstHasNoPending
  <1>4. CASE UNCHANGED <<l1, l1Out>>
    BY <1>4 DEF FirstHasNoPending
  <1> QED
    BY <1>1, <1>2, <1>3, <1>4

(* What the second batch says of a task that is no longer pending there.    *)
LEMMA SecondKept ==
  ASSUME Shape, NEW a \in Actors, NEW u \in Update, QueueL2(a, u), NEW t,
         NotPending(t, l2), u.task = t => u.status # "pending"
  PROVE  NotPending(t, l2') /\ NotPending(t, l2Out')
  <1>1. l2 \in Seq(Update) /\ l2Out = <<>>
    BY DEF Shape, TypeOK, Locks, QueueL2
  <1> QED
    BY <1>1, NotPendingFacts DEF QueueL2

(* Writing takes the oldest update out; a reader's flush takes all.         *)
LEMMA SecondShrinks ==
  ASSUME Shape, NEW t, NotPending(t, l2),
         WriteMerged \/ \E a \in Actors : ForceFlushL2(a)
  PROVE  /\ NotPending(t, l2')
         /\ NotPending(t, l2Out) => NotPending(t, l2Out')
         /\ l2By' = None => NotPending(t, l2Out')
  <1>0. l2 \in Seq(Update) /\ l2Out \in Seq(Update) /\ NotPending(t, <<>>)
    BY NotPendingFacts DEF Shape, TypeOK
  <1>1. CASE WriteMerged
    <2>1. l2Out # <<>> /\ l2Out' = Tail(l2Out) /\ l2' = l2
      BY <1>1 DEF WriteMerged, Shape, Locks
    <2>2. l2By' = None => l2Out' = <<>>
      BY <1>1, ShapeFlushing DEF Flushing, Shape, Locks
    <2> QED
      BY <1>0, <2>1, <2>2, NotPendingFacts
  <1>2. ASSUME NEW a \in Actors, ForceFlushL2(a)
        PROVE  NotPending(t, l2') /\ NotPending(t, l2Out')
    BY <1>0, <1>2, ForceFlushL2Facts DEF ForceFlushL2, Shape
  <1> QED
    BY <1>1, <1>2

(* While no call moves, only the second batch matters.                      *)
LEMMA PendingWhileStill ==
  ASSUME Shape, PendingFirst, FirstHasNoPending', UNCHANGED <<readPc, readTask, seen>>,
         \A t \in Tasks : submitPc[t] = "submitted" => submitPc'[t] = "submitted",
         \A t \in Tasks : submitPc[t] = "submitted" /\ NotPending(t, l2) =>
           /\ NotPending(t, l2') /\ (NotPending(t, l2Out) => NotPending(t, l2Out'))
           /\ l2By' = l2By \/ NotPending(t, l2Out')
  PROVE  PendingFirst'
  <1>1. \A r \in Readers : readPc[r] # "idle" => readTask[r] \in Tasks
    BY DEF Shape, InHand
  <1>2. ASSUME NEW r \in Readers, readPc[r] = "get"
        PROVE  NotPending(readTask[r], l2') /\ (l2By' # r => NotPending(readTask[r], l2Out'))
    <2>1. readTask[r] \in Tasks /\ submitPc[readTask[r]] = "submitted"
          /\ NotPending(readTask[r], l2) /\ (l2By # r => NotPending(readTask[r], l2Out))
      BY <1>1, <1>2 DEF PendingFirst
    <2> QED
      BY <2>1
  <1> QED
    BY <1>1, <1>2 DEF PendingFirst

(* One get_task_status call moves on.                                       *)
LEMMA PendingInGet ==
  ASSUME Shape, PendingFirst, NEW r \in Readers, Getting(r)
  PROVE  PendingFirst'
  <1> USE DEF stopVars, submitVars, workerVars, l1Vars, l2Vars, storeVars, readVars
  <1>0. /\ r \in Actors /\ FirstHasNoPending /\ r # None
        /\ readPc \in [Readers -> ReadPcs] /\ readTask \in [Readers -> Tasks \cup {None}]
        /\ seen \in [Tasks -> Record \cup {None}]
        /\ \A q \in Readers : readPc[q] # "idle" => readTask[q] \in Tasks
    BY PipelineAssumption DEF Actors, PendingFirst, Shape, TypeOK, InHand
  <1>1. ASSUME NEW t \in Tasks, BeginGet(r, t) PROVE PendingFirst'
    <2>1. /\ UNCHANGED <<l1, l1Out, l2, l2Out, l2By, seen, submitPc>> /\ submitPc[t] = "submitted"
          /\ readPc' = [readPc EXCEPT ![r] = "flushL1"] /\ readTask' = [readTask EXCEPT ![r] = t]
      BY <1>1 DEF BeginGet, Submitted
    <2>2. FirstHasNoPending'
      BY <1>0, <2>1, FirstKept
    <2>3. /\ readPc'[r] = "flushL1" /\ readTask'[r] = t
          /\ \A q \in Readers \ {r} : readPc'[q] = readPc[q] /\ readTask'[q] = readTask[q]
      BY <1>0, <2>1
    <2>4. \A q \in Readers : readPc'[q] # "idle" => submitPc[readTask'[q]] = "submitted"
      BY <2>1, <2>3 DEF PendingFirst
    <2>5. \A q \in Readers : readPc'[q] = "get" =>
            readPc[q] = "get" /\ readTask'[q] = readTask[q]
      BY <2>3
    <2> QED
      BY <2>1, <2>2, <2>4, <2>5 DEF PendingFirst
  <1>2. CASE GetFlushL1(r)
    <2>1. /\ UNCHANGED <<l2, l2Out, l2By, seen, submitPc, readTask>> /\ FlushL1(r)
          /\ readPc[r] = "flushL1" /\ readPc' = [readPc EXCEPT ![r] = "flushL2"]
      BY <1>2 DEF GetFlushL1
    <2>2. FirstHasNoPending'
      BY <1>0, <2>1, FirstKept
    <2>3. \A q \in Readers : /\ readPc'[q] # "idle" => readPc[q] # "idle"
                             /\ readPc'[q] = "get" => readPc[q] = "get"
      BY <1>0, <2>1
    <2> QED
      BY <2>1, <2>2, <2>3 DEF PendingFirst
  <1>3. CASE GetFlushL2(r)
    <2>1. /\ UNCHANGED <<l1, l1Out, seen, submitPc, readTask>> /\ ForceFlushL2(r)
          /\ readPc[r] = "flushL2" /\ readPc' = [readPc EXCEPT ![r] = "get"]
      BY <1>3 DEF GetFlushL2
    <2>2. FirstHasNoPending'
      BY <1>0, <2>1, FirstKept
    <2>3. \A q \in Readers : /\ readPc'[q] # "idle" => readPc[q] # "idle"
                             /\ readPc'[q] = "get" => q = r \/ readPc[q] = "get"
      BY <1>0, <2>1
    <2>4. /\ l2By = None /\ l2Out = <<>>
          /\ \/ l2 = <<>> /\ UNCHANGED <<l2, l2Out, l2By>>
             \/ l2Out' = l2 /\ l2' = <<>> /\ l2By' = r
      BY <2>1 DEF ForceFlushL2, Shape, Locks
    <2>5. \A t : NotPending(t, <<>>)
      BY DEF NotPending
    <2>6. ASSUME NEW q \in Readers, readPc'[q] = "get"
          PROVE  NotPending(readTask[q], l2') /\ (l2By' # q => NotPending(readTask[q], l2Out'))
      <3>1. CASE q = r
        BY <2>4, <2>5, <3>1
      <3>2. CASE q # r
        <4>1. NotPending(readTask[q], l2)
          BY <2>3, <2>6, <3>2 DEF PendingFirst
        <4> QED
          BY <2>4, <2>5, <4>1
      <3> QED
        BY <3>1, <3>2
    <2>7. \A t \in Tasks : seen[t] # None => NotPending(t, l2') /\ NotPending(t, l2Out')
      BY <2>4, <2>5 DEF PendingFirst
    <2> QED
      BY <2>1, <2>2, <2>3, <2>6, <2>7 DEF PendingFirst
  <1>4. CASE ReturnRecord(r)
    <2>1. /\ UNCHANGED <<l1, l1Out, l2, l2Out, l2By, submitPc>> /\ readPc[r] = "get" /\ l2By # r
          /\ readPc' = [readPc EXCEPT ![r] = "idle"] /\ readTask' = [readTask EXCEPT ![r] = None]
          /\ seen' = [seen EXCEPT ![readTask[r]] = store[readTask[r]]]
      BY <1>4 DEF ReturnRecord, Unoccupied
    <2>2. FirstHasNoPending'
      BY <1>0, <2>1, FirstKept
    <2>3. \A q \in Readers : readPc'[q] # "idle" =>
            readPc[q] = readPc'[q] /\ readTask'[q] = readTask[q]
      BY <1>0, <2>1
    <2>4. ASSUME NEW t \in Tasks, seen'[t] # None
          PROVE  submitPc[t] = "submitted" /\ NotPending(t, l2) /\ NotPending(t, l2Out)
      <3>1. CASE t = readTask[r]
        BY <2>1, <3>1 DEF PendingFirst
      <3>2. CASE t # readTask[r]
        <4>1. seen[t] # None
          BY <1>0, <2>1, <2>4, <3>2
        <4> QED
          BY <4>1 DEF PendingFirst
      <3> QED
        BY <3>1, <3>2
    <2> QED
      BY <2>1, <2>2, <2>3, <2>4 DEF PendingFirst
  <1> QED
    BY <1>1, <1>2, <1>3, <1>4 DEF Getting

LEMMA PendingFirstKept ==
  ASSUME Shape, PendingFirst, [Next]_vars
  PROVE  PendingFirst'
  <1> USE DEF stopVars, submitVars, workerVars, l1Vars, l2Vars, storeVars, readVars
  <1>0. /\ Workers \cup Readers \cup Tasks \subseteq Actors /\ FirstHasNoPending
        /\ submitPc \in [Tasks -> SubmitPcs]
    BY DEF Actors, PendingFirst, Shape, TypeOK
  <1>1. CASE UNCHANGED <<l1, l1Out, l2, l2Out, l2By, readPc, readTask, seen, submitPc>>
    BY <1>1 DEF PendingFirst, FirstHasNoPending
  <1>2. CASE Flushing
    <2>1. CASE ReadCurrent \/ ReleaseL1
      BY <1>1, <2>1 DEF ReadCurrent, ReleaseL1
    <2>2. CASE WriteMerged
      <3>1. l2By' = l2By \/ l2By' = None
        BY <2>2 DEF WriteMerged
      <3>2. UNCHANGED <<l1, l1Out, readPc, readTask, seen, submitPc>>
        BY <2>2 DEF WriteMerged
      <3>3. FirstHasNoPending'
        BY <1>0, <3>2, FirstKept
      <3> QED
        BY <2>2, <3>1, <3>2, <3>3, SecondShrinks, PendingWhileStill
    <2>3. CASE HandOn
      <3>1. /\ Head(l1Out) \in Update /\ l1By \in Actors /\ QueueL2(l1By, Head(l1Out))
            /\ l1Out \in Seq(Update) /\ l1Out # <<>>
        BY <2>3, OutcomeInTail DEF HandOn, Shape, TypeOK, Locks
      <3>2. UNCHANGED <<readPc, readTask, seen, submitPc>>
        BY <2>3 DEF HandOn
      <3>3. FirstHasNoPending'
        BY <1>0, <2>3, FirstKept
      <3>4. \A t \in Tasks : Head(l1Out).task = t => Head(l1Out).status # "pending"
        BY <1>0, <3>1, NotPendingFacts DEF FirstHasNoPending
      <3> QED
        BY <3>1, <3>2, <3>3, <3>4, SecondKept, PendingWhileStill
    <2> QED
      BY <1>2, <2>1, <2>2, <2>3 DEF Flushing
  <1>3. ASSUME NEW t \in Tasks, Submitting(t) PROVE PendingFirst'
    <2>1. /\ UNCHANGED <<l1, l1Out, readPc, readTask, seen>>
          /\ submitPc[t] # "submitted"
          /\ \A s \in Tasks : submitPc[s] = "submitted" => submitPc'[s] = "submitted"
      BY <1>0, <1>3 DEF Submitting, Enqueue, Refuse, ReportPending
    <2>2. FirstHasNoPending'
      BY <1>0, <2>1, FirstKept
    <2>3. CASE UNCHANGED l2Vars
      BY <2>1, <2>2, <2>3, PendingWhileStill
    <2>4. CASE ReportPending(t)
      <3>1. Upd(t, "pending") \in Update /\ Upd(t, "pending").task = t
        BY UpdIsUpdate DEF Statuses
      <3>2. \A s \in Tasks : submitPc[s] = "submitted" /\ NotPending(s, l2) =>
              NotPending(s, l2') /\ NotPending(s, l2Out')
        BY <1>0, <2>1, <2>4, <3>1, SecondKept DEF ReportPending
      <3> QED
        BY <2>1, <2>2, <3>2, PendingWhileStill
    <2> QED
      BY <1>3, <2>3, <2>4 DEF Submitting, Enqueue, Refuse
  <1>4. ASSUME NEW w \in Workers, Working(w) PROVE PendingFirst'
    <2>1. UNCHANGED <<l2, l2Out, l2By, readPc, readTask, seen, submitPc>>
      BY <1>4 DEF Working, Take, Leave, ReportRunning, ReportOutcome, FinishTask, ExitSilently
    <2>2. job[w] \in Tasks \/ Take(w) \/ Leave(w)
      BY <1>4 DEF Working, ReportRunning, ReportOutcome, FinishTask, ExitSilently, Shape, InHand
    <2>3. \/ \E a \in Actors, t \in Tasks, status \in Statuses \ {"pending"} :
               QueueL1(a, Upd(t, status))
          \/ \E a \in Actors : FlushL1(a)
          \/ UNCHANGED <<l1, l1Out>>
      BY <1>0, <1>4, <2>2 DEF Working, Take, Leave, ReportRunning, ReportOutcome, FinishTask,
         ExitSilently, Statuses, Terminal
    <2>4. FirstHasNoPending'
      BY <1>0, <2>3, FirstKept
    <2> QED
      BY <2>1, <2>4, PendingWhileStill
  <1>5. ASSUME NEW r \in Readers, Getting(r) PROVE PendingFirst'
    BY <1>5, PendingInGet
  <1>6. CASE Removing
    BY <1>1, <1>6 DEF Removing, Clear, Evict, RemoveRecords
  <1>7. CASE Stopping \/ UNCHANGED vars
    BY <1>1, <1>7 DEF Stopping, BeginShutdown, SendSignal, WaitForThreads, EndShutdown,
       RemoveRecords, vars
  <1> QED
    BY <1>2, <1>3, <1>4, <1>5, <1>6, <1>7 DEF Next
-----------------------------------------------------------------------------
(* StatusNeverRegresses.                                                    *)

LEMMA RankFacts ==
  /\ Rank("pending") = 1 /\ Rank("running") = 2
  /\ \A s \in Terminal : Rank(s) = 3
  /\ \A s \in Statuses : Rank(s) \in 1 .. 3
  BY DEF Rank, Terminal, Statuses

(* No write sets a record back behind what a client was given: a pending    *)
(* update is written before that, a running one before the outcome.         *)
LEMMA WriteKeepsRank ==
  ASSUME Shape, Reports, PendingFirst, SeenBehindStore, WriteMerged,
         NEW t \in Tasks \ dropped, seen[t] # None
  PROVE  store'[t] # None /\ Rank(seen[t].status) <= Rank(store'[t].status)
  <1> DEFINE u == Head(l2Out)
             m == Merge(l2Seen, u)
  <1>1. /\ Pipeline[1] = u /\ 1 \in 1 .. Len(Pipeline) /\ u.status \in Statuses /\ u \in Update
        /\ l2Seen \in Record \cup {None} /\ l2Seen # Unread
        /\ store' = [store EXCEPT ![u.task] = m]
        /\ store \in [Tasks -> Record \cup {None}] /\ u.task \in Tasks
        /\ seen \in [Tasks -> Record \cup {None}]
    BY WrittenFirst DEF WriteMerged, Shape, TypeOK
  <1>2. /\ store[t] # None /\ Rank(seen[t].status) <= Rank(store[t].status)
        /\ store[t] \in Record /\ seen[t] \in Record
        /\ seen[t].status \in Statuses /\ store[t].status \in Statuses
    BY <1>1 DEF SeenBehindStore, Record
  <1>3. CASE u.task # t
    BY <1>1, <1>2, <1>3
  <1>4. CASE u.task = t
    <2>1. store'[t] = m /\ m # None /\ m.status = u.status
      BY <1>1, <1>4, MergeFacts
    <2>2. u.status # "pending"
      <3>1. NotPending(t, l2Out) /\ l2Out \in Seq(Update) /\ l2Out # <<>>
        BY DEF PendingFirst, Shape, TypeOK, Locks, WriteMerged
      <3> QED
        BY <1>4, <3>1, NotPendingFacts
    <2>3. CASE u.status \in Terminal
      BY <1>2, <2>1, <2>3, RankFacts
    <2>4. CASE u.status = "running"
      <3>1. ~Ended(t)
        BY <1>1, <1>4, <2>4 DEF Reports, NoneTooLate
      <3>2. store[t].status \notin Terminal
        BY <1>2, <3>1 DEF Reports, RecordsFit, Fits, Agrees, Ended
      <3>3. Rank(store[t].status) <= 2
        BY <1>2, <3>2, RankFacts DEF Statuses, Terminal
      <3>4. Rank(seen[t].status) \in 1 .. 3 /\ Rank(store[t].status) \in 1 .. 3
        BY <1>2, RankFacts
      <3>5. Rank(store'[t].status) = 2
        BY <2>1, <2>4, RankFacts
      <3> QED
        BY <1>2, <2>1, <3>3, <3>4, <3>5
    <2> HIDE DEF u, m
    <2> QED
      BY <1>1, <2>2, <2>3, <2>4 DEF Statuses, Terminal
  <1> QED
    BY <1>3, <1>4

(* Only the last step of a get_task_status call gives a record out, the one *)
(* in the store.                                                            *)
LEMMA SeenMoves ==
  ASSUME Shape, [Next]_vars
  PROVE  \/ seen' = seen
         \/ /\ \A t \in Tasks : seen'[t] = seen[t] \/ seen'[t] = store[t]
            /\ UNCHANGED <<store, dropped>>
  <1>1. ASSUME NEW r \in Readers, ReturnRecord(r)
        PROVE  /\ \A t \in Tasks : seen'[t] = seen[t] \/ seen'[t] = store[t]
               /\ UNCHANGED <<store, dropped>>
    BY <1>1 DEF ReturnRecord, storeVars, Shape, TypeOK
  <1> QED
    BY <1>1 DEF Next, vars, Flushing, ReadCurrent, WriteMerged, HandOn, ReleaseL1, Submitting,
       Enqueue, Refuse, ReportPending, Working, Take, Leave, ReportRunning, ReportOutcome,
       FinishTask, ExitSilently, Getting, BeginGet, GetFlushL1, GetFlushL2, Removing, Clear,
       Evict, RemoveRecords, Stopping, BeginShutdown, SendSignal, WaitForThreads, EndShutdown,
       readVars

LEMMA SeenBehindStoreKept ==
  ASSUME Shape, Reports, PendingFirst, SeenBehindStore, [Next]_vars
  PROVE  SeenBehindStore'
  <1> SUFFICES ASSUME NEW t \in Tasks \ dropped', seen'[t] # None
               PROVE  store'[t] # None /\ Rank(seen'[t].status) <= Rank(store'[t].status)
    BY DEF SeenBehindStore
  <1>0. t \in Tasks \ dropped /\ store \in [Tasks -> Record \cup {None}]
    BY DroppedGrows DEF Shape, TypeOK
  <1>1. CASE seen' # seen
    <2>1. seen'[t] = seen[t] \/ seen'[t] = store[t]
      BY <1>1, SeenMoves
    <2>2. store' = store
      BY <1>1, SeenMoves
    <2>3. CASE seen'[t] = seen[t]
      BY <1>0, <2>2, <2>3 DEF SeenBehindStore
    <2>4. CASE seen'[t] = store[t]
      <3>1. store[t] \in Record /\ store[t].status \in Statuses
        BY <1>0, <2>4 DEF Record
      <3> QED
        BY <2>2, <2>4, <3>1, RankFacts
    <2> QED
      BY <2>1, <2>3, <2>4
  <1>2. CASE seen' = seen /\ WriteMerged
    BY <1>0, <1>2, WriteKeepsRank
  <1>3. CASE seen' = seen /\ ~WriteMerged
    <2>1. store'[t] = store[t]
      BY <1>0, <1>3, StoreMoves DEF RemoveRecords
    <2> QED
      BY <1>0, <1>3, <2>1 DEF SeenBehindStore
  <1> QED
    BY <1>1, <1>2, <1>3

LEMMA RegressInit == Init => PendingFirst /\ SeenBehindStore
  BY DEF Init, PendingFirst, FirstHasNoPending, NotPending, SeenBehindStore

(* What clients see of a task they have not removed never goes back: from   *)
(* an outcome to running, or to pending again.                              *)
THEOREM NoRegress == Spec => StatusNeverRegresses
  <1> DEFINE Behind == PendingFirst /\ SeenBehindStore
             NoStepBack == \A t \in Tasks \ dropped' :
                             seen[t] # None /\ seen'[t] # None =>
                               Rank(seen[t].status) <= Rank(seen'[t].status)
  <1>1. Shape /\ Reports /\ Behind /\ [Next]_vars => Behind'
    BY PendingFirstKept, SeenBehindStoreKept
  <1>2. Shape /\ Behind /\ [Next]_vars => NoStepBack
    <2> SUFFICES ASSUME Shape, Behind, [Next]_vars, NEW t \in Tasks \ dropped',
                        seen[t] # None, seen'[t] # None
                 PROVE  Rank(seen[t].status) <= Rank(seen'[t].status)
      OBVIOUS
    <2>1. t \in Tasks \ dropped /\ seen[t] \in Record
      BY DroppedGrows DEF Shape, TypeOK
    <2>2. Rank(seen[t].status) <= Rank(store[t].status)
      BY <2>1 DEF SeenBehindStore
    <2>3. Rank(seen[t].status) \in 1 .. 3
      BY <2>1, RankFacts DEF Record
    <2>4. seen'[t] = seen[t] \/ seen'[t] = store[t]
      BY SeenMoves
    <2> QED
      BY <2>2, <2>3, <2>4
  <1> QED
    BY <1>1, <1>2, ShapeInit, ShapeStep, ReportsInit, ReportsStep, RegressInit, PTL
       DEF Spec, StatusNeverRegresses
-----------------------------------------------------------------------------
(* ImplementsBoard: a submitted task is found.  Its pending update is in    *)
(* the second batch before submit_task returns, and the second batch is     *)
(* drained before get_task_status looks.                                    *)

HasUpdate(t, s) == \E i \in 1 .. Len(s) : s[i].task = t

Listed(t) == store[t] # None

OnItsWay(t) == HasUpdate(t, l2) \/ HasUpdate(t, l2Out) \/ Listed(t)

InOwnHands(r, t) == l2By = r /\ HasUpdate(t, l2Out)

Found ==
  /\ \A t \in Tasks \ dropped : submitPc[t] = "submitted" => OnItsWay(t)
  /\ \A r \in Readers : readPc[r] = "get" /\ readTask[r] \notin dropped =>
       InOwnHands(r, readTask[r]) \/ Listed(readTask[r])

(* An empty batch has no update of anyone.                                  *)
LEMMA NoUpdateInEmpty == \A t : ~HasUpdate(t, <<>>)
  BY DEF HasUpdate

(* Queueing keeps the updates there are and adds one of the task.           *)
LEMMA UpdateInAppend ==
  ASSUME NEW s \in Seq(Update), NEW u \in Update
  PROVE  /\ \A t : HasUpdate(t, s) => HasUpdate(t, Append(s, u))
         /\ HasUpdate(u.task, Append(s, u))
  <1> DEFINE a == Append(s, u)
  <1>1. /\ Len(a) = Len(s) + 1 /\ a[Len(s) + 1] = u /\ Len(s) \in Nat
        /\ \A i \in 1 .. Len(s) : a[i] = s[i]
    OBVIOUS
  <1> HIDE DEF a
  <1>2. 1 .. Len(s) \subseteq 1 .. Len(a) /\ Len(s) + 1 \in 1 .. Len(a)
    BY <1>1
  <1>3. (\A t : HasUpdate(t, s) => HasUpdate(t, a)) /\ HasUpdate(u.task, a)
    BY <1>1, <1>2 DEF HasUpdate
  <1> QED
    BY <1>3 DEF a

(* Taking the oldest update leaves those of other tasks.                    *)
LEMMA UpdateInTail ==
  ASSUME NEW s \in Seq(Update), s # <<>>, NEW t, HasUpdate(t, s), Head(s).task # t
  PROVE  HasUpdate(t, Tail(s))
  <1> DEFINE r == Tail(s)
  <1>1. /\ Len(s) \in Nat /\ Len(r) = Len(s) - 1 /\ Head(s) = s[1]
        /\ \A i \in 1 .. Len(r) : r[i] = s[i + 1]
    BY HeadTailProperties, EmptySeq
  <1> HIDE DEF r
  <1>2. PICK i \in 1 .. Len(s) : s[i].task = t
    BY DEF HasUpdate
  <1>3. i - 1 \in 1 .. Len(r) /\ r[i - 1] = s[i]
    <2>1. i # 1
      BY <1>1, <1>2
    <2>2. i - 1 \in 1 .. Len(r) /\ (i - 1) + 1 = i
      BY <1>1, <2>1
    <2> QED
      BY <1>1, <2>2
  <1>4. HasUpdate(t, r)
    BY <1>2, <1>3 DEF HasUpdate
  <1> QED
    BY <1>4 DEF r

(* What a step does to the records, and to the updates that will make one,  *)
(* of the tasks that are kept: none is lost.                                *)
Onward ==
  \A t \in Tasks \ dropped' :
    /\ OnItsWay(t) => OnItsWay(t)'
    /\ Listed(t) => Listed(t)'
    /\ \A r \in Readers : InOwnHands(r, t) => (l2By' = r /\ HasUpdate(t, l2Out')) \/ Listed(t)'

LEMMA OnwardIdle == UNCHANGED <<l2Vars, storeVars>> => Onward
  BY DEF Onward, OnItsWay, InOwnHands, Listed, l2Vars, storeVars

(* An update enters the second batch, or its flush begins.                  *)
LEMMA OnwardL2 ==
  ASSUME Shape, NEW a \in Actors,
         (\E u \in Update : QueueL2(a, u)) \/ ForceFlushL2(a),
         UNCHANGED storeVars
  PROVE  Onward
  <1>1. l2By = None /\ l2Out = <<>> /\ l2 \in Seq(Update)
    BY QueueL2Facts, ForceFlushL2Facts DEF Shape, TypeOK
  <1>2. \A t : HasUpdate(t, l2) => HasUpdate(t, l2') \/ HasUpdate(t, l2Out')
    <2>1. ASSUME NEW u \in Update, QueueL2(a, u)
          PROVE  \A t : HasUpdate(t, l2) => HasUpdate(t, l2') \/ HasUpdate(t, l2Out')
      BY <1>1, <2>1, UpdateInAppend DEF QueueL2
    <2>2. CASE ForceFlushL2(a)
      BY <2>2 DEF ForceFlushL2
    <2> QED
      BY <2>1, <2>2
  <1> QED
    BY <1>1, <1>2, NoUpdateInEmpty DEF Onward, OnItsWay, InOwnHands, Listed, storeVars

LEMMA OnwardWriteMerged == Shape /\ WriteMerged => Onward
  <1> SUFFICES ASSUME Shape, WriteMerged PROVE Onward
    OBVIOUS
  <1> DEFINE u == Head(l2Out)
             m == Merge(l2Seen, u)
  <1>1. /\ l2Out # <<>> /\ l2Out \in Seq(Update) /\ l2' = l2 /\ l2Out' = Tail(l2Out)
        /\ l2By' = IF Len(l2Out) = 1 THEN None ELSE l2By
    BY DEF Shape, WriteMerged, Locks, TypeOK
  <1>2. /\ u.task \in Tasks /\ store' = [store EXCEPT ![u.task] = m] /\ m # None
        /\ store \in [Tasks -> Record \cup {None}]
    BY WrittenFirst, MergeFacts
  <1>3. Len(l2Out) = 1 <=> Tail(l2Out) = <<>>
    BY <1>1, OutcomeInTail
  <1> HIDE DEF m
  <1>4. \A t \in Tasks : /\ Listed(t) => Listed(t)'
                         /\ t = u.task => Listed(t)'
    BY <1>2 DEF Listed
  <1>5. \A t \in Tasks : HasUpdate(t, l2Out) => Listed(t)' \/ HasUpdate(t, l2Out')
    BY <1>1, <1>4, UpdateInTail
  <1>6. \A t \in Tasks : HasUpdate(t, l2Out') => l2By' = l2By
    BY <1>1, <1>3, NoUpdateInEmpty
  <1> QED
    BY <1>1, <1>4, <1>5, <1>6 DEF Onward, OnItsWay, InOwnHands

LEMMA OnwardRemoval ==
  ASSUME Shape, NEW gone \in SUBSET Tasks, RemoveRecords(gone)
  PROVE  Onward
  <1>1. \A t \in Tasks \ dropped' : store'[t] = store[t]
    BY DEF RemoveRecords
  <1> QED
    BY <1>1 DEF RemoveRecords, Onward, OnItsWay, InOwnHands, Listed, l2Vars

(* No step of the program loses a record, or an update on its way.          *)
LEMMA OnwardStep == Shape /\ [Next]_vars => Onward
  <1> SUFFICES ASSUME Shape, [Next]_vars PROVE Onward
    OBVIOUS
  <1>0. Readers \cup Tasks \subseteq Actors
    BY DEF Actors
  <1>1. CASE Flushing
    <2>1. CASE ReadCurrent
      BY <2>1 DEF ReadCurrent, Onward, OnItsWay, InOwnHands, Listed, storeVars
    <2>2. CASE ReleaseL1
      BY <2>2, OnwardIdle DEF ReleaseL1
    <2>3. CASE HandOn
      <3>1. Head(l1Out) \in Update /\ l1By \in Actors
        BY <2>3, OutcomeInTail DEF Shape, HandOn, TypeOK, Locks
      <3> QED
        BY <2>3, <3>1, OnwardL2 DEF HandOn
    <2> QED
      BY <1>1, <2>1, <2>2, <2>3, OnwardWriteMerged DEF Flushing
  <1>2. ASSUME NEW t \in Tasks, Submitting(t) PROVE Onward
    <2>1. CASE ReportPending(t)
      BY <1>0, <2>1, OnwardL2, UpdIsUpdate DEF ReportPending, Statuses
    <2> QED
      BY <1>2, <2>1, OnwardIdle DEF Submitting, Enqueue, Refuse
  <1>3. ASSUME NEW w \in Workers, Working(w) PROVE Onward
    BY <1>3, OnwardIdle DEF Working, Take, Leave, ReportRunning, ReportOutcome, FinishTask,
       ExitSilently
  <1>4. ASSUME NEW r \in Readers, Getting(r) PROVE Onward
    <2>1. CASE GetFlushL2(r)
      BY <1>0, <2>1, OnwardL2 DEF GetFlushL2
    <2>2. CASE (\E t \in Tasks : BeginGet(r, t)) \/ GetFlushL1(r) \/ ReturnRecord(r)
      BY <2>2, OnwardIdle DEF BeginGet, GetFlushL1, ReturnRecord
    <2> QED
      BY <1>4, <2>1, <2>2 DEF Getting
  <1>5. CASE Removing
    <2>1. PICK t \in Tasks : RemoveRecords({t})
      BY <1>5 DEF Removing, Clear, Evict
    <2> QED
      BY <2>1, OnwardRemoval
  <1>6. CASE Stopping
    BY <1>6, OnwardIdle, OnwardRemoval DEF Stopping, BeginShutdown, SendSignal,
       WaitForThreads, EndShutdown
  <1>7. CASE UNCHANGED vars
    BY <1>7, OnwardIdle DEF vars
  <1> QED
    BY <1>1, <1>2, <1>3, <1>4, <1>5, <1>6, <1>7 DEF Next

(* What a step does to the calls of submit_task: one may have reported.     *)
LEMMA SubmitMoves ==
  ASSUME Shape, [Next]_vars
  PROVE  \/ \E t \in Tasks : /\ ReportPending(t)
                             /\ submitPc' = [submitPc EXCEPT ![t] = "submitted"]
         \/ \A t \in Tasks : submitPc'[t] = "submitted" <=> submitPc[t] = "submitted"
  BY DEF Next, vars, Flushing, ReadCurrent, WriteMerged, HandOn, ReleaseL1, Submitting, Enqueue,
     Refuse, ReportPending, Working, Take, Leave, ReportRunning, ReportOutcome, FinishTask,
     ExitSilently, Getting, BeginGet, GetFlushL1, GetFlushL2, ReturnRecord, Removing, Clear,
     Evict, RemoveRecords, Stopping, BeginShutdown, SendSignal, WaitForThreads, EndShutdown,
     submitVars, Shape, TypeOK

(* The pending update of a task that has just been submitted is in the      *)
(* second batch, or in the submitter's hands.                               *)
LEMMA JustSubmitted ==
  ASSUME Shape, NEW t \in Tasks, ReportPending(t)
  PROVE  OnItsWay(t)'
  <1>1. Upd(t, "pending") \in Update /\ Upd(t, "pending").task = t /\ l2 \in Seq(Update)
    BY UpdIsUpdate DEF Statuses, Shape, TypeOK
  <1>2. HasUpdate(t, Append(l2, Upd(t, "pending")))
    BY <1>1, UpdateInAppend
  <1> QED
    BY <1>2 DEF ReportPending, QueueL2, OnItsWay

LEMMA FoundInit == Init => Found
  BY DEF Init, Found

(* Every step keeps every submitted task findable.                          *)
LEMMA FoundStep ==
  ASSUME Shape, PendingFirst, Found, [Next]_vars
  PROVE  Found'
  <1>1. Onward /\ dropped \subseteq dropped'
    BY OnwardStep, DroppedGrows
  <1>2. ASSUME NEW t \in Tasks \ dropped', submitPc'[t] = "submitted"
        PROVE  OnItsWay(t)'
    <2>1. CASE submitPc[t] = "submitted"
      BY <1>1, <2>1 DEF Found, Onward
    <2>2. CASE submitPc[t] # "submitted"
      <3>1. PICK s \in Tasks : /\ ReportPending(s)
                               /\ submitPc' = [submitPc EXCEPT ![s] = "submitted"]
        BY <1>2, <2>2, SubmitMoves
      <3>2. s = t
        BY <1>2, <2>2, <3>1 DEF Shape, TypeOK
      <3> QED
        BY <3>1, <3>2, JustSubmitted
    <2> QED
      BY <2>1, <2>2
  <1>3. ASSUME NEW r \in Readers, readPc'[r] = "get", readTask'[r] \notin dropped'
        PROVE  InOwnHands(r, readTask[r])' \/ Listed(readTask[r])'
    <2>1. CASE GetFlushL2(r)
      <3>1. PICK t \in Tasks \ dropped' : t = readTask[r] /\ readTask' = readTask
        BY <1>3, <2>1 DEF GetFlushL2, Shape, InHand
      <3>2. submitPc[t] = "submitted" /\ t \notin dropped
        BY <1>1, <2>1, <3>1 DEF GetFlushL2, PendingFirst
      <3>3. OnItsWay(t) /\ l2Out = <<>>
        BY <2>1, <3>2, ForceFlushL2Facts DEF GetFlushL2, Shape, Found, Actors
      <3>4. HasUpdate(t, l2) \/ Listed(t)
        BY <3>3, NoUpdateInEmpty DEF OnItsWay
      <3>5. HasUpdate(t, l2) => l2By' = r /\ HasUpdate(t, l2Out')
        BY <2>1, NoUpdateInEmpty DEF GetFlushL2, ForceFlushL2
      <3>6. Listed(t) => Listed(t)'
        BY <1>1, <3>1 DEF Onward
      <3> QED
        BY <3>1, <3>4, <3>5, <3>6 DEF InOwnHands, Listed
    <2>2. CASE ~GetFlushL2(r)
      <3>1. readPc[r] = "get" /\ readTask'[r] = readTask[r]
        <4>1. CASE Getting(r)
          BY <1>3, <2>2, <4>1 DEF Getting, BeginGet, GetFlushL1, ReturnRecord, Shape, TypeOK
        <4>2. CASE ~Getting(r)
          BY <1>3, <4>2, OtherReaders
        <4> QED
          BY <4>1, <4>2
      <3>2. PICK t \in Tasks \ dropped' : t = readTask[r] /\ t = readTask'[r]
        BY <1>3, <3>1 DEF Shape, InHand
      <3>3. InOwnHands(r, t) \/ Listed(t)
        BY <1>1, <3>1, <3>2 DEF Found
      <3>4. (l2By' = r /\ HasUpdate(t, l2Out')) \/ Listed(t)'
        BY <1>1, <3>3 DEF Onward
      <3> QED
        BY <3>2, <3>4 DEF InOwnHands, Listed
    <2> QED
      BY <2>1, <2>2
  <1> QED
    BY <1>2, <1>3 DEF Found
-----------------------------------------------------------------------------
(* ImplementsBoard: the steps.                                              *)

Submitters == {t \in Tasks : submitPc[t] = "submitted"}

OnBoard == [t \in Tasks |-> Shows(store[t])]

Asking == [r \in Readers |-> IF readPc[r] = "idle" THEN None ELSE readTask[r]]

Shown == [t \in Tasks |-> Shows(seen[t])]

(* What a record that fits shows: that there is one, and at most the outcome *)
(* the task has; if the record has an end, that outcome.                    *)
LEMMA ShowsFits ==
  ASSUME NEW o, NEW record, record # None, Agrees(o, record)
  PROVE  /\ \/ Shows(record) = {"listed"}
            \/ o \in Terminal /\ Shows(record) = {"listed", o}
         /\ "end" \in record.fields => o \in Terminal /\ o \in Shows(record)
  <1>1. Shows(record) = {"listed"} \cup
          {s \in Terminal : /\ "end" \in record.fields
                            /\ s = "failed" <=> "error" \in record.fields}
    BY DEF Shows
  <1>2. /\ "completed" \in Shows(record) <=> "end" \in record.fields /\ "error" \notin record.fields
        /\ "failed" \in Shows(record) <=> "end" \in record.fields /\ "error" \in record.fields
        /\ "listed" \in Shows(record) /\ Shows(record) \subseteq {"listed", "completed", "failed"}
    BY <1>1 DEF Terminal
  <1>3. "end" \in record.fields => /\ o = "completed" \/ o = "failed"
                                   /\ o = "failed" <=> "error" \in record.fields
    BY DEF Agrees, Terminal
  <1> HIDE DEF Shows
  <1>4. Shows(record) = {"listed"} \/ (o \in Terminal /\ Shows(record) = {"listed", o})
    <2>1. CASE "end" \notin record.fields
      BY <1>2, <2>1
    <2>2. CASE o = "completed" /\ "end" \in record.fields /\ "error" \notin record.fields
      BY <1>2, <2>2 DEF Terminal
    <2>3. CASE o = "failed" /\ "end" \in record.fields /\ "error" \in record.fields
      BY <1>2, <2>3 DEF Terminal
    <2> QED
      BY <1>3, <2>1, <2>2, <2>3
  <1>5. ASSUME "end" \in record.fields PROVE o \in Terminal /\ o \in Shows(record)
    BY <1>2, <1>3, <1>5 DEF Terminal
  <1> QED
    BY <1>4, <1>5

(* A record shows an outcome only at its end.                               *)
LEMMA ShowsAtEnd ==
  ASSUME NEW record, Shows(record) \cap Terminal # {}
  PROVE  record # None /\ "end" \in record.fields
  BY DEF Shows, Terminal

(* A step that changes nothing a client can see.                            *)
LEMMA BoardStill ==
  ASSUME UNCHANGED <<Submitters, outcome, OnBoard, dropped, Asking, owed, Shown>>
  PROVE  UNCHANGED Board!boardVars
  BY DEF Board!boardVars, Submitters, OnBoard, Asking, Shown

LEMMA BoardSubmit ==
  ASSUME NEW t \in Tasks \ Submitters, Submitters' = Submitters \cup {t},
         UNCHANGED <<outcome, OnBoard, dropped, Asking, owed, Shown>>
  PROVE  Board!Next
  <1>1. Board!Submit(t)
    BY DEF Board!Submit, Submitters, OnBoard, Asking, Shown
  <1> QED
    BY <1>1 DEF Board!Next

LEMMA BoardTell ==
  ASSUME NEW t \in Tasks, NEW status \in Terminal, outcome[t] = "none",
         outcome' = [outcome EXCEPT ![t] = status],
         UNCHANGED <<Submitters, OnBoard, dropped, Asking, owed, Shown>>
  PROVE  Board!Next
  <1>1. Board!Tell(t, status)
    BY DEF Board!Tell, Submitters, OnBoard, Asking, Shown
  <1>2. status \in Board!Outcomes
    BY DEF Board!Outcomes, Terminal
  <1> QED
    BY <1>1, <1>2 DEF Board!Next

LEMMA BoardPost ==
  ASSUME NEW t \in Tasks, NEW shows, OnBoard' = [OnBoard EXCEPT ![t] = shows],
         \/ shows = {"listed"} /\ (t \in dropped \/ OnBoard[t] \cap Terminal = {})
         \/ outcome[t] \in Terminal /\ shows = {"listed", outcome[t]},
         UNCHANGED <<Submitters, outcome, dropped, Asking, owed, Shown>>
  PROVE  Board!Next
  <1>1. Board!Outcomes = Terminal
    BY DEF Board!Outcomes, Terminal
  <1>2. Board!Post(t)
    BY <1>1 DEF Board!Post, Submitters, OnBoard, Asking, Shown
  <1> QED
    BY <1>2 DEF Board!Next

LEMMA BoardRemove ==
  ASSUME NEW gone \in SUBSET Tasks, RemoveRecords(gone)
  PROVE  Board!Next
  <1>1. /\ dropped' = dropped \cup gone
        /\ UNCHANGED <<Submitters, outcome, Asking, owed, Shown>>
    BY DEF RemoveRecords, submitVars, workerVars, readVars, Submitters, Asking, Shown
  <1>2. \A t \in Tasks : Shows(store'[t]) = IF t \in gone THEN {} ELSE Shows(store[t])
    BY DEF RemoveRecords, Shows
  <1>3. Board!Remove(gone)
    BY <1>1, <1>2 DEF Board!Remove, Submitters, Asking, Shown
  <1> QED
    BY <1>3 DEF Board!Next

LEMMA BoardAsk ==
  ASSUME NEW r \in Readers, NEW t \in Submitters, Asking[r] = None,
         Asking' = [Asking EXCEPT ![r] = t],
         owed' = [owed EXCEPT ![r] = (outcome[t] \in Terminal)],
         UNCHANGED <<Submitters, outcome, OnBoard, dropped, Shown>>
  PROVE  Board!Next
  <1>1. Board!Outcomes = Terminal
    BY DEF Board!Outcomes, Terminal
  <1>2. Board!Ask(r, t)
    BY <1>1 DEF Board!Ask, Submitters, OnBoard, Asking, Shown
  <1> QED
    BY <1>2 DEF Board!Next, Submitters

LEMMA BoardAnswer ==
  ASSUME NEW r \in Readers, NEW t \in Tasks, Asking[r] = t,
         t \notin dropped => /\ OnBoard[t] # {}
                             /\ owed[r] => outcome[t] \in OnBoard[t],
         Shown' = [Shown EXCEPT ![t] = OnBoard[t]],
         Asking' = [Asking EXCEPT ![r] = None],
         owed' = [owed EXCEPT ![r] = FALSE],
         UNCHANGED <<Submitters, outcome, OnBoard, dropped>>
  PROVE  Board!Next
  <1>1. t # None
    BY PipelineAssumption
  <1>2. Board!Answer(r)
    BY <1>1 DEF Board!Answer, Submitters, OnBoard, Asking, Shown
  <1> QED
    BY <1>2 DEF Board!Next

(* Writing a merged record is posting it: it shows the outcome the task has *)
(* or none, and unless the record was removed it is merged into the one     *)
(* that is there, so it shows the outcome if that one did.                  *)
LEMMA WriteIsPost ==
  ASSUME Shape, RecordsFit, RecordsFit', WriteMerged
  PROVE  Board!Next
  <1> DEFINE u == Head(l2Out)
             m == Merge(l2Seen, u)
  <1>1. /\ u.task \in Tasks /\ store' = [store EXCEPT ![u.task] = m] /\ m # None
        /\ store \in [Tasks -> Record \cup {None}] /\ l2Seen # Unread
        /\ l2Seen # None => l2Seen.fields \subseteq m.fields
    BY WrittenFirst, MergeFacts DEF WriteMerged
  <1>2. PICK t \in Tasks : t = u.task
    BY <1>1
  <1>3. t \in dropped \/ l2Seen = store[t]
    BY <1>1, <1>2 DEF Shape, Locks
  <1>4. UNCHANGED <<Submitters, outcome, dropped, Asking, owed, Shown>>
    BY DEF WriteMerged, submitVars, workerVars, readVars, Submitters, Asking, Shown
  <1> HIDE DEF u, m
  <1>5. store'[t] = m
    BY <1>1, <1>2
  <1>6. Agrees(outcome[t], m)
    BY <1>4, <1>5 DEF RecordsFit, Fits
  <1>7. OnBoard' = [OnBoard EXCEPT ![t] = Shows(m)]
    BY <1>1, <1>2 DEF OnBoard
  <1>8. Shows(m) = {"listed"} \/ (outcome[t] \in Terminal /\ Shows(m) = {"listed", outcome[t]})
    BY <1>1, <1>6, ShowsFits
  <1>9. ASSUME t \notin dropped, OnBoard[t] \cap Terminal # {} PROVE Shows(m) # {"listed"}
    <2>1. store[t] # None /\ "end" \in store[t].fields
      BY <1>9, ShowsAtEnd DEF OnBoard
    <2>2. "end" \in m.fields
      BY <1>1, <1>3, <1>9, <2>1
    <2>3. outcome[t] \in Terminal /\ outcome[t] \in Shows(m)
      BY <1>1, <1>6, <2>2, ShowsFits
    <2> QED
      BY <2>3 DEF Terminal
  <1>10. Shows(m) = {"listed"} => t \in dropped \/ OnBoard[t] \cap Terminal = {}
    BY <1>9
  <1> QED
    BY <1>4, <1>7, <1>8, <1>10, BoardPost

(* The steps of get_task_status: asking, two flushes that nobody sees, and  *)
(* an answer that has all it is owed.                                       *)
LEMMA GettingOnBoard ==
  ASSUME Shape, RecordsFit, OwedStays, Found, NEW r \in Readers, Getting(r)
  PROVE  Board!Next \/ UNCHANGED Board!boardVars
  <1> USE DEF submitVars, workerVars, storeVars
  <1>0. /\ readPc \in [Readers -> ReadPcs] /\ readTask \in [Readers -> Tasks \cup {None}]
        /\ owed \in [Readers -> BOOLEAN] /\ seen \in [Tasks -> Record \cup {None}]
    BY DEF Shape, TypeOK
  <1>1. ASSUME NEW t \in Tasks, BeginGet(r, t) PROVE Board!Next
    <2>1. /\ readPc[r] = "idle" /\ readPc' = [readPc EXCEPT ![r] = "flushL1"]
          /\ readTask' = [readTask EXCEPT ![r] = t] /\ submitPc[t] = "submitted"
          /\ owed' = [owed EXCEPT ![r] = (outcome[t] \in Terminal)]
          /\ UNCHANGED <<submitPc, outcome, store, dropped, seen>>
      BY <1>1 DEF BeginGet, Submitted
    <2>2. Asking[r] = None /\ Asking' = [Asking EXCEPT ![r] = t]
      BY <1>0, <2>1 DEF Asking
    <2>3. t \in Submitters /\ UNCHANGED <<Submitters, OnBoard, Shown>>
      BY <2>1 DEF Submitters, OnBoard, Shown
    <2> QED
      BY <2>1, <2>2, <2>3, BoardAsk
  <1>2. CASE GetFlushL1(r) \/ GetFlushL2(r)
    <2>1. /\ readPc[r] # "idle" /\ readTask' = readTask
          /\ \E pc \in ReadPcs \ {"idle"} : readPc' = [readPc EXCEPT ![r] = pc]
          /\ UNCHANGED <<submitPc, outcome, store, dropped, seen, owed>>
      BY <1>2 DEF GetFlushL1, GetFlushL2, ReadPcs
    <2>2. \A q \in Readers : readPc'[q] = "idle" <=> readPc[q] = "idle"
      BY <1>0, <2>1
    <2>3. UNCHANGED <<Submitters, OnBoard, Shown, Asking>>
      BY <2>1, <2>2 DEF Submitters, OnBoard, Shown, Asking
    <2> QED
      BY <2>1, <2>3, BoardStill
  <1>3. CASE ReturnRecord(r)
    <2>1. /\ readPc[r] = "get" /\ l2By # r /\ Unoccupied(r)
          /\ seen' = [seen EXCEPT ![readTask[r]] = store[readTask[r]]]
          /\ readPc' = [readPc EXCEPT ![r] = "idle"]
          /\ owed' = [owed EXCEPT ![r] = FALSE]
          /\ readTask' = [readTask EXCEPT ![r] = None]
          /\ UNCHANGED <<submitPc, outcome, store, dropped>>
      BY <1>3 DEF ReturnRecord, Unoccupied
    <2>2. PICK t \in Tasks : t = readTask[r]
      BY <2>1 DEF Shape, InHand
    <2>3. Asking[r] = t /\ Asking' = [Asking EXCEPT ![r] = None]
      BY <1>0, <2>1, <2>2 DEF Asking
    <2>4. Shown' = [Shown EXCEPT ![t] = OnBoard[t]]
      BY <1>0, <2>1, <2>2 DEF Shown, OnBoard
    <2>5. UNCHANGED <<Submitters, OnBoard>>
      BY <2>1 DEF Submitters, OnBoard
    <2>6. ASSUME t \notin dropped
          PROVE  OnBoard[t] # {} /\ (owed[r] => outcome[t] \in OnBoard[t])
      <3>1. store[t] # None /\ Agrees(outcome[t], store[t])
        BY <2>1, <2>2, <2>6 DEF Found, Listed, InOwnHands, RecordsFit, Fits
      <3>2. owed[r] => "end" \in store[t].fields
        BY <2>1, <2>2, <2>6 DEF OwedStays, Owed, Ended
      <3> QED
        BY <3>1, <3>2, ShowsFits DEF OnBoard
    <2> QED
      BY <2>1, <2>3, <2>4, <2>5, <2>6, BoardAnswer
  <1> QED
    BY <1>1, <1>2, <1>3 DEF Getting

(* Every step is one of the board's, or nothing a client can see.           *)
LEMMA BoardStep ==
  ASSUME Shape, OnePlace, RecordsFit, RecordsFit', OwedStays, Found, [Next]_vars
  PROVE  [Board!Next]_(Board!boardVars)
  <1> USE DEF stopVars, submitVars, workerVars, storeVars, readVars
  <1>0. submitPc \in [Tasks -> SubmitPcs] /\ outcome \in [Tasks -> Terminal \cup {"none"}]
    BY DEF Shape, TypeOK
  <1>1. ASSUME UNCHANGED <<outcome, store, dropped, readPc, readTask, owed, seen>>,
               \A t \in Tasks : submitPc'[t] = "submitted" <=> submitPc[t] = "submitted"
        PROVE  UNCHANGED Board!boardVars
    <2>1. UNCHANGED <<Submitters, OnBoard, Asking, Shown>>
      BY <1>1 DEF Submitters, OnBoard, Asking, Shown
    <2> QED
      BY <1>1, <2>1, BoardStill
  <1>2. CASE Flushing
    <2>1. CASE ReadCurrent \/ HandOn \/ ReleaseL1
      BY <1>1, <2>1 DEF ReadCurrent, HandOn, ReleaseL1
    <2> QED
      BY <1>2, <2>1, WriteIsPost DEF Flushing
  <1>3. ASSUME NEW t \in Tasks, Submitting(t) PROVE Board!Next \/ UNCHANGED Board!boardVars
    <2>1. CASE ReportPending(t)
      <3>1. /\ submitPc[t] = "queued" /\ submitPc' = [submitPc EXCEPT ![t] = "submitted"]
            /\ UNCHANGED <<outcome, store, dropped, readPc, readTask, owed, seen>>
        BY <2>1 DEF ReportPending
      <3>2. t \in Tasks \ Submitters /\ Submitters' = Submitters \cup {t}
        BY <1>0, <3>1 DEF Submitters
      <3>3. UNCHANGED <<OnBoard, Asking, Shown>>
        BY <3>1 DEF OnBoard, Asking, Shown
      <3> QED
        BY <3>1, <3>2, <3>3, BoardSubmit
    <2>2. CASE Enqueue(t) \/ Refuse(t)
      <3>1. \A s \in Tasks : submitPc'[s] = "submitted" <=> submitPc[s] = "submitted"
        BY <1>0, <2>2 DEF Enqueue, Refuse
      <3> QED
        BY <1>1, <2>2, <3>1 DEF Enqueue, Refuse
    <2> QED
      BY <1>3, <2>1, <2>2 DEF Submitting
  <1>4. ASSUME NEW w \in Workers, Working(w) PROVE Board!Next \/ UNCHANGED Board!boardVars
    <2>1. ASSUME NEW status \in Terminal, ReportOutcome(w, status) PROVE Board!Next
      <3>1. PICK t \in Tasks : t = job[w]
        BY <2>1 DEF ReportOutcome, Shape, InHand
      <3>2. outcome[t] = "none" /\ outcome' = [outcome EXCEPT ![t] = status]
        BY <2>1, <3>1 DEF ReportOutcome, OnePlace
      <3>3. UNCHANGED <<Submitters, OnBoard, dropped, Asking, owed, Shown>>
        BY <2>1 DEF ReportOutcome, Submitters, OnBoard, Asking, Shown
      <3> QED
        BY <3>2, <3>3, BoardTell
    <2>2. CASE Take(w) \/ Leave(w) \/ ReportRunning(w) \/ FinishTask(w) \/ ExitSilently(w)
      BY <1>1, <2>2 DEF Take, Leave, ReportRunning, FinishTask, ExitSilently
    <2> QED
      BY <1>4, <2>1, <2>2 DEF Working
  <1>5. ASSUME NEW r \in Readers, Getting(r) PROVE Board!Next \/ UNCHANGED Board!boardVars
    BY <1>5, GettingOnBoard
  <1>6. CASE Removing
    <2>1. PICK t \in Tasks : RemoveRecords({t})
      BY <1>6 DEF Removing, Clear, Evict
    <2> QED
      BY <2>1, BoardRemove
  <1>7. CASE Stopping
    <2>1. CASE EndShutdown
      BY <2>1, BoardRemove DEF EndShutdown
    <2> QED
      BY <1>1, <1>7, <2>1 DEF Stopping, BeginShutdown, SendSignal, WaitForThreads
  <1>8. CASE UNCHANGED vars
    BY <1>1, <1>8 DEF vars
  <1> QED
    BY <1>2, <1>3, <1>4, <1>5, <1>6, <1>7, <1>8 DEF Next

LEMMA BoardInit == Init => Board!Init
  BY DEF Init, Board!Init, Shows

(* For its clients the manager is the board: whatever the two batches, their *)
(* locks, other clients, removals and a shutdown do, a task that was         *)
(* submitted is found until it is removed, an outcome that was reported      *)
(* before the question is in the answer, and no record shows another outcome *)
(* than the one reported, or ceases to show it.                              *)
THEOREM ManagerIsBoard == Spec => ImplementsBoard
  <1>1. Reports => RecordsFit
    BY DEF Reports
  <1>2. /\ Shape /\ OnePlace /\ Reports /\ Reports' /\ OwedStays /\ Found /\ [Next]_vars
        => [Board!Next]_(Board!boardVars)
    <2>1. Reports' => RecordsFit'
      BY DEF Reports
    <2> QED
      BY <1>1, <2>1, BoardStep
  <1>3. Shape /\ PendingFirst /\ Found /\ [Next]_vars => PendingFirst' /\ Found'
    BY PendingFirstKept, FoundStep
  <1>4. Init => PendingFirst
    BY RegressInit
  <1> QED
    BY <1>2, <1>3, <1>4, ShapeInit, ShapeStep, OutcomeInit, OutcomeStep, OwedInit, OwedStep,
       ReportsInit, ReportsStep, FoundInit, BoardInit, PTL DEF Spec, ImplementsBoard, Board!Spec
=============================================================================
