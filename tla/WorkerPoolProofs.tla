--------------------------- MODULE WorkerPoolProofs ---------------------------
(***************************************************************************)
(* For every min_workers <= max_workers, any number of clients and threads, *)
(* with or without the adaptive manager, with threads that die and with a   *)
(* shutdown at any time: the list of threads is complete and within both    *)
(* bounds until shutdown clears it.                                         *)
(***************************************************************************)
EXTENDS WorkerPool, FiniteSetTheorems, TLAPS

(* The list is within its bounds; the upper one holds after shutdown, too.  *)
ListWithinMax == Cardinality(listed) <= MaxWorkers

Inv == TypeOK /\ NoUnlistedWorker /\ ListWithinMax /\ ListNeverBelowMin

-----------------------------------------------------------------------------
(* The list is finite, and so has a count.                                  *)
LEMMA ListIsFinite ==
  ASSUME TypeOK
  PROVE  IsFiniteSet(listed) /\ Cardinality(listed) \in Nat
  BY PoolAssumption, FS_Subset, FS_CardinalityType DEF TypeOK

(* Taking a member out of, or putting a new one into, the list.             *)
LEMMA CountFacts ==
  ASSUME NEW S, IsFiniteSet(S), NEW w
  PROVE  /\ w \in S => Cardinality(S \ {w}) = Cardinality(S) - 1
         /\ w \notin S => Cardinality(S \cup {w}) = Cardinality(S) + 1
  BY FS_RemoveElement, FS_AddElement

(* start_initial_workers starts and lists min_workers threads.              *)
LEMMA PoolInit == Init => Inv
  <1> SUFFICES ASSUME Init PROVE Inv
    OBVIOUS
  <1>0. Len(<<>>) = 0 /\ 0 <= QueueSize /\ 0 \in 0 .. Clients
    BY PoolAssumption
  <1>1. TypeOK
    <2>1. pc \in [Threads -> Pcs] /\ idle \in [Threads -> BOOLEAN]
      BY DEF Init, Pcs
    <2>2. queue \in Seq({Task, Pill}) /\ Len(queue) <= QueueSize /\ scheduling \in 0 .. Clients
      BY <1>0 DEF Init
    <2>3. upCooling \in BOOLEAN /\ downCooling \in BOOLEAN /\ pills \in Nat
      BY DEF Init
    <2> QED
      BY <2>1, <2>2, <2>3, PoolAssumption DEF Init, TypeOK, Checks, Phases
  <1>2. Live = listed
    BY PoolAssumption DEF Init, Live
  <1> QED
    BY <1>1, <1>2, PoolAssumption DEF Init, Inv, NoUnlistedWorker, ListWithinMax,
       ListNeverBelowMin

-----------------------------------------------------------------------------
(* A step that leaves the list alone and starts no thread, before or after  *)
(* the list is cleared.                                                     *)
LEMMA ListUntouched ==
  ASSUME Inv, listed' = listed, Live' \subseteq Live,
         phase' = "stopped" \/ phase # "stopped"
  PROVE  NoUnlistedWorker' /\ ListWithinMax' /\ ListNeverBelowMin'
  BY DEF Inv, NoUnlistedWorker, ListWithinMax, ListNeverBelowMin

(* The same when the phase does not change.                                 *)
LEMMA ListAndPhaseUntouched ==
  ASSUME Inv, listed' = listed, Live' \subseteq Live, phase' = phase
  PROVE  NoUnlistedWorker' /\ ListWithinMax' /\ ListNeverBelowMin'
  BY DEF Inv, NoUnlistedWorker, ListWithinMax, ListNeverBelowMin

(* A thread's own move starts no other thread.                              *)
LEMMA GotoStartsNobody ==
  ASSUME TypeOK, NEW w \in Threads, pc[w] # "gone", NEW place, Goto(w, place)
  PROVE  Live' \subseteq Live
  BY DEF TypeOK, Goto, Live

(* _worker_loop: only _try_exit_if_above_min touches the list.              *)
LEMMA WorkingStep ==
  ASSUME Inv, NEW w \in Threads, Working(w)
  PROVE  Inv'
  <1> USE DEF Inv
  <1> USE DEF clientVars, stopVars
  <1>1. CASE Test(w)
    <2>1. TypeOK'
      BY <1>1 DEF Test, Goto, TypeOK, Pcs
    <2>2. Live' \subseteq Live
      BY <1>1, GotoStartsNobody DEF Test
    <2> QED
      BY <1>1, <2>1, <2>2, ListAndPhaseUntouched DEF Test
  <1>2. CASE Take(w)
    <2>1. queue' \in Seq({Task, Pill}) /\ Len(queue') <= QueueSize
      BY <1>2, PoolAssumption DEF Take, TypeOK
    <2>2. TypeOK'
      BY <1>2, <2>1 DEF Take, Goto, TypeOK, Pcs
    <2>3. Live' \subseteq Live
      BY <1>2, GotoStartsNobody DEF Take
    <2> QED
      BY <1>2, <2>2, <2>3, ListAndPhaseUntouched DEF Take
  <1>3. CASE Finish(w) \/ Die(w)
    <2>1. TypeOK'
      BY <1>3 DEF Finish, Die, Goto, TypeOK, Pcs
    <2>2. Live' \subseteq Live
      BY <1>3, GotoStartsNobody DEF Finish, Die
    <2> QED
      BY <1>3, <2>1, <2>2, ListAndPhaseUntouched DEF Finish, Die
  <1>4. CASE GetTimeout(w)
    <2>1. TypeOK'
      BY <1>4 DEF GetTimeout, Goto, TypeOK, Pcs
    <2>2. Live' \subseteq Live
      BY <1>4, GotoStartsNobody DEF GetTimeout
    <2> QED
      BY <1>4, <2>1, <2>2, ListAndPhaseUntouched DEF GetTimeout
  <1>5. CASE CountWorkers(w) \/ ReadCooldown(w) \/ StampCooldown(w)
    <2>1. TypeOK'
      BY <1>5 DEF CountWorkers, ReadCooldown, StampCooldown, Goto, TypeOK, Pcs
    <2>2. Live' \subseteq Live
      BY <1>5, GotoStartsNobody DEF CountWorkers, ReadCooldown, StampCooldown
    <2> QED
      BY <1>5, <2>1, <2>2, ListAndPhaseUntouched DEF CountWorkers, ReadCooldown, StampCooldown
  <1>6. CASE TryExitIfAboveMin(w)
    <2>1. TypeOK'
      BY <1>6 DEF TryExitIfAboveMin, Goto, TypeOK, Pcs
    <2>2. Live' \subseteq Live /\ phase' = phase
      BY <1>6, GotoStartsNobody DEF TryExitIfAboveMin
    <2>3. CASE listed' = listed
      BY <2>1, <2>2, <2>3, ListAndPhaseUntouched
    <2>4. CASE /\ ~(Cardinality(listed) <= MinWorkers) /\ w \in listed
               /\ Goto(w, "gone") /\ listed' = listed \ {w}
      <3>1. Cardinality(listed') = Cardinality(listed) - 1 /\ Cardinality(listed) \in Nat
        BY <2>4, ListIsFinite, CountFacts
      <3>2. w \notin Live'
        BY <2>4 DEF Goto, Live, TypeOK
      <3>3. NoUnlistedWorker'
        BY <2>2, <2>4, <3>2 DEF NoUnlistedWorker
      <3>4. ListWithinMax' /\ ListNeverBelowMin'
        BY <2>2, <2>4, <3>1, PoolAssumption DEF ListWithinMax, ListNeverBelowMin
      <3> QED
        BY <2>1, <3>3, <3>4
    <2> QED
      BY <1>6, <2>3, <2>4 DEF TryExitIfAboveMin
  <1> QED
    BY <1>1, <1>2, <1>3, <1>4, <1>5, <1>6 DEF Working

(* submit_task, the scale checks and the passing of time: only a scale      *)
(* check that finds room below max_workers adds a thread, and lists it.     *)
LEMMA ScalingStep ==
  ASSUME Inv, Submit \/ Scaling \/ CooldownsPass
  PROVE  Inv'
  <1> USE DEF Inv
  <1> USE DEF clientVars, stopVars
  <1>1. CASE Submit
    <2>1. queue' \in Seq({Task, Pill}) /\ Len(queue') <= QueueSize
      BY <1>1, PoolAssumption DEF Submit, TypeOK
    <2>2. scheduling' \in 0 .. Clients
      BY <1>1, PoolAssumption DEF Submit, TypeOK
    <2>3. TypeOK'
      BY <1>1, <2>1, <2>2 DEF Submit, TypeOK
    <2> QED
      BY <1>1, <2>3, ListAndPhaseUntouched DEF Submit, Live
  <1>2. CASE ScheduleCheck
    <2>1. scheduling' \in 0 .. Clients
      BY <1>2, PoolAssumption DEF ScheduleCheck, TypeOK
    <2>2. TypeOK'
      BY <1>2, <2>1 DEF ScheduleCheck, TypeOK, Checks
    <2> QED
      BY <1>2, <2>2, ListAndPhaseUntouched DEF ScheduleCheck, Live
  <1>3. CASE ScaleUp
    <2>1. CASE UNCHANGED <<pc, idle, listed, upCooling>>
      <3>1. TypeOK'
        BY <1>3, <2>1 DEF ScaleUp, TypeOK, Checks
      <3> QED
        BY <1>3, <2>1, <3>1, ListAndPhaseUntouched DEF ScaleUp, Live
    <2>2. ASSUME Cardinality(listed) < MaxWorkers,
                 NEW w \in Threads \ (Live \cup listed), StartWorker(w)
          PROVE  Inv'
      <3>1. TypeOK'
        BY <1>3, <2>2, PoolAssumption DEF ScaleUp, StartWorker, TypeOK, Checks, Pcs
      <3>2. Cardinality(listed') = Cardinality(listed) + 1 /\ Cardinality(listed) \in Nat
        BY <2>2, ListIsFinite, CountFacts DEF StartWorker
      <3>3. ListWithinMax' /\ ListNeverBelowMin'
        BY <1>3, <2>2, <3>2, PoolAssumption DEF ScaleUp, ListWithinMax, ListNeverBelowMin
      <3>4. Live' \subseteq Live \cup {w} /\ listed' = listed \cup {w}
        BY <2>2 DEF StartWorker, Live, TypeOK
      <3>5. NoUnlistedWorker'
        BY <1>3, <3>4 DEF ScaleUp, NoUnlistedWorker
      <3> QED
        BY <3>1, <3>3, <3>5
    <2> QED
      BY <1>3, <2>1, <2>2 DEF ScaleUp
  <1>4. CASE EndCheck
    <2>1. TypeOK'
      BY <1>4 DEF EndCheck, TypeOK, Checks
    <2> QED
      BY <1>4, <2>1, ListAndPhaseUntouched DEF EndCheck, Live
  <1>5. CASE CooldownsPass
    <2>1. TypeOK'
      BY <1>5 DEF CooldownsPass, TypeOK
    <2> QED
      BY <1>5, <2>1, ListAndPhaseUntouched DEF CooldownsPass, Live
  <1> QED
    BY <1>1, <1>2, <1>3, <1>4, <1>5 DEF Scaling

(* shutdown: the list is cleared at the end, and with it the promises.      *)
LEMMA StoppingStep ==
  ASSUME Inv, Stopping
  PROVE  Inv'
  <1> USE DEF Inv
  <1> USE DEF clientVars
  <1>1. CASE BeginShutdown
    <2>1. TypeOK'
      BY <1>1 DEF BeginShutdown, TypeOK, Phases
    <2> QED
      BY <1>1, <2>1, ListUntouched DEF BeginShutdown, Live
  <1>2. CASE CancelTimers
    <2>1. TypeOK'
      BY <1>2 DEF CancelTimers, TypeOK, Phases, Checks
    <2> QED
      BY <1>2, <2>1, ListUntouched DEF CancelTimers, Live
  <1>3. CASE CountThreads
    <2>1. TypeOK'
      BY <1>3, ListIsFinite DEF CountThreads, TypeOK, Phases
    <2> QED
      BY <1>3, <2>1, ListUntouched DEF CountThreads, Live
  <1>4. CASE SendSignal
    <2>1. queue' \in Seq({Task, Pill}) /\ Len(queue') <= QueueSize /\ pills' \in Nat
      <3>1. /\ queue \in Seq({Task, Pill}) /\ Len(queue) <= QueueSize /\ QueueSize \in Nat
            /\ pills \in Nat /\ pills > 0
        BY <1>4, PoolAssumption DEF SendSignal, TypeOK
      <3>2. CASE Len(queue) < QueueSize /\ queue' = Append(queue, Pill) /\ pills' = pills - 1
        BY <3>1, <3>2
      <3>3. CASE pills' = 0 /\ queue' = queue
        BY <3>1, <3>3
      <3> QED
        BY <1>4, <3>2, <3>3 DEF SendSignal
    <2>2. TypeOK'
      BY <1>4, <2>1 DEF SendSignal, TypeOK
    <2> QED
      BY <1>4, <2>2, ListAndPhaseUntouched DEF SendSignal, Live
  <1>5. CASE BeginJoin
    <2>1. TypeOK'
      BY <1>5 DEF BeginJoin, TypeOK, Phases
    <2> QED
      BY <1>5, <2>1, ListUntouched DEF BeginJoin, Live
  <1>6. ASSUME NEW w \in Threads, Join(w) PROVE Inv'
    <2>1. TypeOK'
      BY <1>6 DEF Join, TypeOK
    <2> QED
      BY <1>6, <2>1, ListAndPhaseUntouched DEF Join, Live
  <1>7. CASE ClearList
    <2>1. TypeOK'
      BY <1>7 DEF ClearList, TypeOK, Phases
    <2>2. Cardinality(listed') = 0
      BY <1>7, FS_EmptySet DEF ClearList
    <2> QED
      BY <1>7, <2>1, <2>2, PoolAssumption DEF ClearList, NoUnlistedWorker, ListWithinMax,
         ListNeverBelowMin
  <1> QED
    BY <1>1, <1>2, <1>3, <1>4, <1>5, <1>6, <1>7 DEF Stopping

(* Every step keeps the list complete and within its bounds.                *)
LEMMA PoolStep == Inv /\ [Next]_vars => Inv'
  <1> SUFFICES ASSUME Inv, [Next]_vars PROVE Inv'
    OBVIOUS
  <1>1. CASE Next
    BY <1>1, WorkingStep, ScalingStep, StoppingStep DEF Next
  <1>2. CASE UNCHANGED vars
    BY <1>2 DEF vars, clientVars, stopVars, Inv, TypeOK, NoUnlistedWorker, ListWithinMax,
       ListNeverBelowMin, Live
  <1> QED
    BY <1>1, <1>2

(* Inv is an invariant.                                                     *)
LEMMA PoolInvariant == Spec => []Inv
  BY PoolInit, PoolStep, PTL DEF Spec

-----------------------------------------------------------------------------
(* The variables keep their types; the queue never exceeds its maximum.     *)
THEOREM PoolTypeCorrect == Spec => []TypeOK
  BY PoolInvariant, PTL DEF Inv

(* worker_threads names every running thread, so that shutdown signals and  *)
(* joins them all and scaling up counts them all.                           *)
THEOREM NobodyIsLeftOut == Spec => []NoUnlistedWorker
  BY PoolInvariant, PTL DEF Inv

(* _try_exit_if_above_min: threads that leave at the same time never take   *)
(* the list below min_workers.                                              *)
THEOREM ListKeepsMin == Spec => []ListNeverBelowMin
  BY PoolInvariant, PTL DEF Inv

(* scale_up_workers_if_needed never takes the pool above max_workers.       *)
THEOREM PoolKeepsMax == Spec => []NeverAboveMax
  <1>1. Inv => NeverAboveMax
    <2> SUFFICES ASSUME Inv, phase # "stopped" PROVE Cardinality(Live) <= MaxWorkers
      BY DEF NeverAboveMax
    <2>1. Live \subseteq listed /\ IsFiniteSet(listed) /\ Cardinality(listed) \in Nat
      BY ListIsFinite DEF Inv, NoUnlistedWorker
    <2>2. Cardinality(Live) <= Cardinality(listed) /\ Cardinality(Live) \in Nat
      BY <2>1, FS_Subset, FS_CardinalityType
    <2> QED
      BY <2>1, <2>2, PoolAssumption DEF Inv, ListWithinMax
  <1> QED
    BY <1>1, PoolInvariant, PTL
=============================================================================
