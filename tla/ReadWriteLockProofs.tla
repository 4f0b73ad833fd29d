------------------------- MODULE ReadWriteLockProofs -------------------------
(***************************************************************************)
(* For any finite set of threads, any timeouts and any bound on the loss:  *)
(* the lock's books balance, it excludes, no writer sleeps on a free lock, *)
(* and it implements the abstract lock.  Without write timeouts its        *)
(* waiting count is exact and writers are preferred.                       *)
(***************************************************************************)
EXTENDS ReadWriteLock, FiniteSetTheorems, TLAPS

(* Each operation that may move a thread into or out of a counted set moves *)
(* that thread only.                                                        *)
LEMMA CardinalityMoves ==
  ASSUME NEW S, NEW T, NEW t, IsFiniteSet(S)
  PROVE  /\ T = S \cup {t} /\ t \notin S => Cardinality(T) = Cardinality(S) + 1
         /\ T = S \ {t} /\ t \in S => Cardinality(T) = Cardinality(S) - 1
  BY FS_AddElement, FS_RemoveElement

(* The sets of readers and of announced writers stay finite.                *)
LEMMA FiniteThreads ==
  /\ IsFiniteSet(Readers) /\ Cardinality(Readers) \in Nat
  /\ IsFiniteSet(Writers) /\ Cardinality(Writers) \in Nat
  BY LockAssumption, FS_Subset, FS_CardinalityType DEF Readers, Writers

(* What a thread's jump does to the two counted sets.                       *)
LEMMA JumpOfReaders ==
  ASSUME TypeOK, NEW t \in Threads, NEW label \in PCs, Goto(t, label)
  PROVE  /\ pc' \in [Threads -> PCs]
         /\ pc[t] # "reading" /\ label = "reading" =>
              Cardinality(Readers') = Cardinality(Readers) + 1
         /\ pc[t] = "reading" /\ label # "reading" =>
              Cardinality(Readers') = Cardinality(Readers) - 1
         /\ (pc[t] = "reading" <=> label = "reading") => Readers' = Readers
  <1> USE DEF TypeOK, Goto, Readers
  <1>1. pc' \in [Threads -> PCs] /\ pc'[t] = label
        /\ \A u \in Threads \ {t} : pc'[u] = pc[u]
    OBVIOUS
  <1>2. CASE pc[t] # "reading" /\ label = "reading"
    <2>1. Readers' = Readers \cup {t} /\ t \notin Readers
      BY <1>1, <1>2
    <2> QED
      BY <1>1, <1>2, <2>1, CardinalityMoves, FiniteThreads
  <1>3. CASE pc[t] = "reading" /\ label # "reading"
    <2>1. Readers' = Readers \ {t} /\ t \in Readers
      BY <1>1, <1>3
    <2> QED
      BY <1>1, <1>3, <2>1, CardinalityMoves, FiniteThreads
  <1>4. CASE pc[t] = "reading" <=> label = "reading"
    BY <1>1, <1>4
  <1> QED
    BY <1>2, <1>3, <1>4

(* The same for announced writers.                                          *)
LEMMA JumpOfWriters ==
  ASSUME TypeOK, NEW t \in Threads, NEW label \in PCs, Goto(t, label)
  PROVE  /\ pc[t] \notin Announced /\ label \in Announced =>
              Cardinality(Writers') = Cardinality(Writers) + 1
         /\ pc[t] \in Announced /\ label \notin Announced =>
              Cardinality(Writers') = Cardinality(Writers) - 1
         /\ (pc[t] \in Announced <=> label \in Announced) => Writers' = Writers
  <1> USE DEF TypeOK, Goto, Writers
  <1>1. pc'[t] = label /\ \A u \in Threads \ {t} : pc'[u] = pc[u]
    OBVIOUS
  <1>2. CASE pc[t] \notin Announced /\ label \in Announced
    <2>1. Writers' = Writers \cup {t} /\ t \notin Writers
      BY <1>1, <1>2
    <2> QED
      BY <1>2, <2>1, CardinalityMoves, FiniteThreads
  <1>3. CASE pc[t] \in Announced /\ label \notin Announced
    <2>1. Writers' = Writers \ {t} /\ t \in Writers
      BY <1>1, <1>3
    <2> QED
      BY <1>3, <2>1, CardinalityMoves, FiniteThreads
  <1>4. CASE pc[t] \in Announced <=> label \in Announced
    BY <1>1, <1>4
  <1> QED
    BY <1>2, <1>3, <1>4

-----------------------------------------------------------------------------
(* The inductive invariant: types, exact books, exclusion.                  *)
LockInv == TypeOK /\ BooksBalance /\ MutualExclusion

(* In the beginning the lock is free and nobody waits.                      *)
LEMMA LockInit == Init => LockInv
  <1> SUFFICES ASSUME Init PROVE LockInv
    OBVIOUS
  <1>1. Readers = {}
    BY DEF Init, Readers
  <1>2. TypeOK
    BY LockAssumption DEF Init, TypeOK, PCs, Announced
  <1>3. BooksBalance
    BY <1>1, FS_EmptySet, LockAssumption DEF Init, BooksBalance
  <1>4. MutualExclusion
    BY DEF Init, MutualExclusion
  <1> QED
    BY <1>2, <1>3, <1>4 DEF LockInv

(* Passing the read gate with the lock free keeps the invariant: either the *)
(* thread falls asleep, or it enters while nobody writes.                   *)
LEMMA ReadGateKeeps ==
  ASSUME LockInv, NEW t \in Threads, pc[t] \in {"idle", "readWait"}, t \notin waitSet, Free,
         PassReadGate(t), UNCHANGED <<owner, waiting>>
  PROVE  LockInv'
  <1> USE DEF LockInv, TypeOK, BooksBalance, MutualExclusion, Free, Asleep
  <1>0. \A u \in Threads : pc[u] # "writing"
    BY LockAssumption
  <1>1. CASE waiting > 0
    <2>1. Goto(t, "readWait") /\ waitSet' = waitSet \cup {t} /\ readers' = readers
      BY <1>1 DEF PassReadGate
    <2>2. Readers' = Readers /\ pc' \in [Threads -> PCs]
      BY <2>1, JumpOfReaders DEF PCs, Announced
    <2> QED
      BY <1>0, <2>1, <2>2 DEF Goto, PCs, Announced
  <1>2. CASE ~(waiting > 0)
    <2>1. Goto(t, "reading") /\ waitSet' = waitSet /\ readers' = readers + 1
      BY <1>2 DEF PassReadGate
    <2>2. Cardinality(Readers') = Cardinality(Readers) + 1 /\ pc' \in [Threads -> PCs]
      BY <2>1, JumpOfReaders DEF PCs, Announced
    <2> QED
      BY <1>0, <2>1, <2>2 DEF Goto, PCs, Announced
  <1> QED
    BY <1>1, <1>2

(* Passing the write gate with the lock free keeps the invariant: a writer  *)
(* that enters has seen readers = 0, hence no reader at all.                *)
LEMMA WriteGateKeeps ==
  ASSUME LockInv, NEW t \in Threads, pc[t] \in {"announced", "writeWait"},
         t \notin waitSet, Free, PassWriteGate(t), UNCHANGED <<readers, waiting>>
  PROVE  LockInv'
  <1> USE DEF LockInv, TypeOK, BooksBalance, MutualExclusion, Free, Asleep
  <1>0. \A u \in Threads : pc[u] # "writing"
    BY LockAssumption
  <1>1. CASE readers > 0
    <2>1. Goto(t, "writeWait") /\ waitSet' = waitSet \cup {t} /\ owner' = owner
      BY <1>1 DEF PassWriteGate
    <2>2. Readers' = Readers /\ pc' \in [Threads -> PCs]
      BY <2>1, JumpOfReaders DEF PCs, Announced
    <2> QED
      BY <1>0, <2>1, <2>2 DEF Goto, PCs, Announced
  <1>2. CASE ~(readers > 0)
    <2>1. Goto(t, "writing") /\ waitSet' = waitSet /\ owner' = t
      BY <1>2 DEF PassWriteGate
    <2>2. Readers' = Readers /\ pc' \in [Threads -> PCs]
      BY <2>1, JumpOfReaders DEF PCs, Announced
    <2>3. \A u \in Threads : pc[u] # "reading"
      <3>1. Cardinality(Readers) = 0
        BY <1>2, FiniteThreads
      <3> QED
        BY <3>1, FiniteThreads, FS_EmptySet DEF Readers
    <2> QED
      BY <1>0, <2>1, <2>2, <2>3, LockAssumption DEF Goto, PCs, Announced
  <1> QED
    BY <1>1, <1>2

(* Every other step of a thread that stays outside, or leaves, the sections *)
(* and changes neither owner nor readers.                                   *)
LEMMA QuietStepKeeps ==
  ASSUME LockInv, NEW t \in Threads, NEW label \in PCs, Goto(t, label),
         label \notin Asleep \cup {"reading", "writing"},
         pc[t] \notin {"reading", "writing"},
         UNCHANGED <<owner, readers>>, waiting' \in Int,
         waitSet' \subseteq waitSet \ {t}
  PROVE  LockInv'
  <1> USE DEF LockInv, TypeOK, BooksBalance, MutualExclusion, Asleep
  <1>1. Readers' = Readers /\ pc' \in [Threads -> PCs]
    BY JumpOfReaders
  <1> QED
    BY <1>1 DEF Goto

(* Every step of every thread keeps the lock's invariant.                   *)
LEMMA LockStep == LockInv /\ [Next]_vars => LockInv'
  <1> SUFFICES ASSUME LockInv, [Next]_vars PROVE LockInv'
    OBVIOUS
  <1> USE DEF LockInv, TypeOK
  <1>1. CASE UNCHANGED vars
    BY <1>1 DEF vars, BooksBalance, MutualExclusion, Readers
  <1>2. ASSUME NEW t \in Threads, Step(t) PROVE LockInv'
    <2> USE DEF Asleep, PCs, Announced
    <2>1. CASE AcquireRead(t)
      BY <2>1, ReadGateKeeps DEF AcquireRead
    <2>2. CASE ReadWoken(t)
      BY <2>2, ReadGateKeeps DEF ReadWoken
    <2>3. CASE ReadTimeout(t)
      BY <2>3, QuietStepKeeps DEF ReadTimeout
    <2>4. CASE ReleaseRead(t)
      <3>1. Goto(t, "idle") /\ readers' = readers - 1 /\ owner' = owner
            /\ waitSet' \subseteq waitSet /\ waiting' = waiting /\ pc[t] = "reading"
        BY <2>4 DEF ReleaseRead
      <3>2. Cardinality(Readers') = Cardinality(Readers) - 1
            /\ pc' \in [Threads -> PCs]
        BY <3>1, JumpOfReaders
      <3>3. TypeOK'
        BY <3>1, <3>2 DEF Goto
      <3>4. BooksBalance' /\ MutualExclusion'
        BY <3>1, <3>2 DEF BooksBalance, MutualExclusion, Goto
      <3> QED
        BY <3>3, <3>4
    <2>5. CASE AcquireWrite(t)
      BY <2>5, QuietStepKeeps DEF AcquireWrite, Announce
    <2>6. CASE TryWrite(t)
      BY <2>6, QuietStepKeeps DEF TryWrite, Announce
    <2>7. CASE WriteLockTaken(t)
      BY <2>7, WriteGateKeeps DEF WriteLockTaken
    <2>8. CASE WriteWoken(t)
      BY <2>8, WriteGateKeeps DEF WriteWoken
    <2>9. CASE TryWriteTaken(t)
      <3>1. CASE Free /\ ~(readers > 0)
        <4>1. Goto(t, "writing") /\ owner' = t /\ UNCHANGED <<readers, waiting, waitSet>>
              /\ pc[t] = "tryAnnounced"
          BY <2>9, <3>1 DEF TryWriteTaken
        <4>2. Readers' = Readers /\ pc' \in [Threads -> PCs]
          BY <4>1, JumpOfReaders
        <4>3. \A u \in Threads : pc[u] # "reading"
          <5>1. Cardinality(Readers) = 0
            BY <3>1, FiniteThreads DEF BooksBalance
          <5> QED
            BY <5>1, FiniteThreads, FS_EmptySet DEF Readers
        <4>4. TypeOK'
          BY <4>1, <4>2 DEF Goto
        <4>5. \A u \in Threads : pc[u] # "writing"
          BY <3>1, LockAssumption DEF BooksBalance, Free
        <4>6. BooksBalance' /\ MutualExclusion'
          BY <4>1, <4>2, <4>3, <4>5 DEF BooksBalance, MutualExclusion, Goto
        <4> QED
          BY <4>4, <4>6
      <3>2. CASE ~(Free /\ ~(readers > 0))
        BY <2>9, <3>2, QuietStepKeeps DEF TryWriteTaken
      <3> QED
        BY <3>1, <3>2
    <2>10. CASE TryWriteFailed(t)
      BY <2>10, QuietStepKeeps DEF TryWriteFailed
    <2>11. CASE WriteTimeout(t)
      BY <2>11, QuietStepKeeps DEF WriteTimeout
    <2>12. CASE WithdrawWrite(t)
      BY <2>12, QuietStepKeeps DEF WithdrawWrite
    <2>13. CASE WithdrawAgain(t)
      BY <2>13, QuietStepKeeps DEF WithdrawAgain
    <2>14. CASE ReleaseWrite(t)
      <3>1. Goto(t, "released") /\ owner' = NoThread /\ UNCHANGED <<readers, waitSet>>
            /\ waiting' = waiting - 1 /\ pc[t] = "writing" /\ owner = t
        BY <2>14 DEF ReleaseWrite
      <3>2. Readers' = Readers /\ pc' \in [Threads -> PCs]
        BY <3>1, JumpOfReaders
      <3>3. TypeOK'
        BY <3>1, <3>2 DEF Goto
      <3>4. BooksBalance' /\ MutualExclusion'
        BY <3>1, <3>2, LockAssumption DEF BooksBalance, MutualExclusion, Goto
      <3> QED
        BY <3>3, <3>4
    <2>15. CASE NotifyAll(t)
      BY <2>15, QuietStepKeeps DEF NotifyAll
    <2> QED
      BY <1>2, <2>1, <2>2, <2>3, <2>4, <2>5, <2>6, <2>7, <2>8, <2>9, <2>10,
         <2>11, <2>12, <2>13, <2>14, <2>15 DEF Step, Proceed
  <1> QED
    BY <1>1, <1>2 DEF Next

(* Types are preserved and the waiters are threads that fell asleep.        *)
THEOREM LockTypeCorrect == Spec => []TypeOK
  <1>1. LockInv => TypeOK
    BY DEF LockInv
  <1> QED
    BY <1>1, LockInit, LockStep, PTL DEF Spec

(* _readers counts the threads inside and the re-entrant lock belongs to    *)
(* the writer inside, for any timeouts of readers and writers.              *)
THEOREM LockBooksBalance == Spec => []BooksBalance
  <1>1. LockInv => BooksBalance
    BY DEF LockInv
  <1> QED
    BY <1>1, LockInit, LockStep, PTL DEF Spec

(* A writer inside is alone, for any timeouts of readers and writers.       *)
THEOREM LockExcludes == Spec => []MutualExclusion
  <1>1. LockInv => MutualExclusion
    BY DEF LockInv
  <1> QED
    BY <1>1, LockInit, LockStep, PTL DEF Spec

-----------------------------------------------------------------------------
(* No wake-up is lost for writers: whoever makes a writer's wait condition  *)
(* true notifies, or is about to.                                           *)
THEOREM NoWriterSleepsInVain == Spec => []NoSleepingWriterOnFreeLock
  <1> DEFINE Inv == LockInv /\ NoSleepingWriterOnFreeLock
  <1>1. Init => Inv
    BY LockInit DEF Init, NoSleepingWriterOnFreeLock
  <1>2. Inv /\ [Next]_vars => Inv'
    <2> SUFFICES ASSUME Inv, [Next]_vars PROVE NoSleepingWriterOnFreeLock'
      BY LockStep
    <2> USE DEF NoSleepingWriterOnFreeLock, LockInv, TypeOK, Goto, Asleep
    <2>1. CASE UNCHANGED vars
      BY <2>1 DEF vars
    <2>2. ASSUME NEW t \in Threads, Step(t)
          PROVE NoSleepingWriterOnFreeLock'
      <3>1. CASE AcquireRead(t) \/ ReadWoken(t)
        BY <3>1, LockAssumption DEF AcquireRead, ReadWoken, PassReadGate
      <3>2. CASE ReleaseRead(t)
        <4>1. readers \in Nat
          BY FiniteThreads DEF BooksBalance
        <4> QED
          BY <3>2, <4>1 DEF ReleaseRead
      <3>3. CASE WriteLockTaken(t) \/ WriteWoken(t)
        BY <3>3 DEF WriteLockTaken, WriteWoken, PassWriteGate
      <3>4. CASE TryWriteTaken(t)
        BY <3>4 DEF TryWriteTaken
      <3>5. CASE ReleaseWrite(t)
        BY <3>5 DEF ReleaseWrite
      <3>6. CASE NotifyAll(t)
        BY <3>6 DEF NotifyAll
      <3>7. CASE \/ ReadTimeout(t) \/ AcquireWrite(t) \/ TryWrite(t)
                 \/ TryWriteFailed(t) \/ WriteTimeout(t) \/ WithdrawWrite(t)
                 \/ WithdrawAgain(t)
        BY <3>7 DEF ReadTimeout, AcquireWrite, TryWrite, Announce,
                    TryWriteFailed, WriteTimeout, WithdrawWrite, WithdrawAgain
      <3> QED
        BY <2>2, <3>1, <3>2, <3>3, <3>4, <3>5, <3>6, <3>7 DEF Step, Proceed
    <2> QED
      BY <2>1, <2>2 DEF Next
  <1>3. Inv => NoSleepingWriterOnFreeLock
    OBVIOUS
  <1> QED
    BY <1>1, <1>2, <1>3, PTL DEF Spec

-----------------------------------------------------------------------------
(* Without write timeouts nobody is in the two withdrawing states ...       *)
NobodyWithdraws == \A t \in Threads : pc[t] \notin {"timedOut", "raising"}

(* ... and the count stays exact: the only step that can break it is the    *)
(* second withdrawal.                                                       *)
OrderlyInv == LockInv /\ NobodyWithdraws /\ WaitingCountExact

(* Without timeouts every step keeps the waiting count exact.               *)
LEMMA OrderlyStep ==
  ASSUME CanTimeOut = {}
  PROVE  /\ Init => OrderlyInv
         /\ OrderlyInv /\ [Next]_vars => OrderlyInv'
  <1>1. Init => OrderlyInv
    <2> SUFFICES ASSUME Init PROVE OrderlyInv
      OBVIOUS
    <2>1. Writers = {}
      BY DEF Init, Writers, Announced
    <2> QED
      BY <2>1, LockInit, FS_EmptySet
         DEF OrderlyInv, NobodyWithdraws, WaitingCountExact, Init
  <1>2. OrderlyInv /\ [Next]_vars => OrderlyInv'
    <2> SUFFICES ASSUME OrderlyInv, [Next]_vars
                 PROVE  NobodyWithdraws' /\ WaitingCountExact'
      BY LockStep DEF OrderlyInv
    <2> USE DEF OrderlyInv, LockInv, NobodyWithdraws, WaitingCountExact
    <2>1. CASE UNCHANGED vars
      BY <2>1 DEF vars, Writers
    <2>2. ASSUME NEW t \in Threads, Step(t)
          PROVE  NobodyWithdraws' /\ WaitingCountExact'
      <3> USE DEF PCs, Announced
      <3>0. ASSUME NEW label \in PCs \ {"timedOut", "raising"}, Goto(t, label)
            PROVE  NobodyWithdraws'
        BY <3>0 DEF Goto, TypeOK
      <3>1. CASE AcquireRead(t) \/ ReadWoken(t)
        <4>1. PICK label \in {"readWait", "reading"} : Goto(t, label)
          BY <3>1 DEF AcquireRead, ReadWoken, PassReadGate
        <4>2. waiting' = waiting /\ pc[t] \in {"idle", "readWait"}
          BY <3>1 DEF AcquireRead, ReadWoken
        <4> QED
          BY <3>0, <4>1, <4>2, JumpOfWriters
      <3>2. CASE ReleaseRead(t)
        BY <3>0, <3>2, JumpOfWriters DEF ReleaseRead
      <3>3. CASE AcquireWrite(t) \/ TryWrite(t)
        <4>1. PICK label \in {"announced", "tryAnnounced"} : Announce(t, label)
          BY <3>3 DEF AcquireWrite, TryWrite
        <4> QED
          BY <3>0, <4>1, JumpOfWriters DEF Announce
      <3>4. CASE WriteLockTaken(t) \/ WriteWoken(t)
        <4>1. PICK label \in {"writeWait", "writing"} : Goto(t, label)
          BY <3>4 DEF WriteLockTaken, WriteWoken, PassWriteGate
        <4>2. waiting' = waiting /\ pc[t] \in {"announced", "writeWait"}
          BY <3>4 DEF WriteLockTaken, WriteWoken
        <4> QED
          BY <3>0, <4>1, <4>2, JumpOfWriters
      <3>5. CASE TryWriteTaken(t)
        <4>1. PICK label \in {"tryFailed", "writing"} : Goto(t, label)
          BY <3>5 DEF TryWriteTaken
        <4>2. waiting' = waiting /\ pc[t] = "tryAnnounced"
          BY <3>5 DEF TryWriteTaken
        <4> QED
          BY <3>0, <4>1, <4>2, JumpOfWriters
      <3>6. CASE TryWriteFailed(t)
        BY <3>0, <3>6, JumpOfWriters DEF TryWriteFailed
      <3>7. CASE ReleaseWrite(t)
        BY <3>0, <3>7, JumpOfWriters DEF ReleaseWrite
      <3>8. CASE NotifyAll(t)
        BY <3>0, <3>8, JumpOfWriters DEF NotifyAll
      <3>9. ~(ReadTimeout(t) \/ WriteTimeout(t) \/ WithdrawWrite(t) \/ WithdrawAgain(t))
        BY DEF ReadTimeout, WriteTimeout, WithdrawWrite, WithdrawAgain
      <3> QED
        BY <2>2, <3>1, <3>2, <3>3, <3>4, <3>5, <3>6, <3>7, <3>8, <3>9
           DEF Step, Proceed
    <2> QED
      BY <2>1, <2>2 DEF Next
  <1> QED
    BY <1>1, <1>2

(* If no wait outlasts its timeout, _writers_waiting counts the announced   *)
(* writers exactly, non-blocking attempts included.                         *)
THEOREM CountExactWithoutTimeouts ==
  ASSUME CanTimeOut = {}
  PROVE  Spec => []WaitingCountExact
  <1>1. OrderlyInv => WaitingCountExact
    BY DEF OrderlyInv
  <1> QED
    BY <1>1, OrderlyStep, PTL DEF Spec

(* If no wait outlasts its timeout, no reader gets in while a writer is     *)
(* announced.                                                               *)
THEOREM WritersPreferredWithoutTimeouts ==
  ASSUME CanTimeOut = {}
  PROVE  Spec => WriterPreference
  <1> DEFINE Gate == \A t \in Threads :
               (pc[t] # "reading" /\ pc'[t] = "reading") => Writers = {}
  <1>1. OrderlyInv /\ [Next]_vars => [Gate]_vars
    <2> SUFFICES ASSUME OrderlyInv, Next,
                        NEW u \in Threads, pc[u] # "reading", pc'[u] = "reading"
                 PROVE  Writers = {}
      BY DEF vars
    <2> USE DEF OrderlyInv, LockInv, TypeOK, Goto
    <2>1. PICK t \in Threads : Step(t)
      BY DEF Next
    <2>2. ~(waiting > 0)
      <3>1. AcquireRead(t) \/ ReadWoken(t) => ~(waiting > 0)
        BY DEF AcquireRead, ReadWoken, PassReadGate
      <3>2. CASE \/ ReleaseRead(t) \/ AcquireWrite(t) \/ TryWrite(t)
                 \/ WriteLockTaken(t) \/ WriteWoken(t) \/ TryWriteTaken(t)
                 \/ TryWriteFailed(t) \/ ReleaseWrite(t) \/ NotifyAll(t)
                 \/ ReadTimeout(t) \/ WriteTimeout(t) \/ WithdrawWrite(t)
                 \/ WithdrawAgain(t)
        BY <3>2 DEF ReleaseRead, AcquireWrite, TryWrite, Announce, WriteLockTaken,
           WriteWoken, PassWriteGate, TryWriteTaken, TryWriteFailed, ReleaseWrite,
           NotifyAll, ReadTimeout, WriteTimeout, WithdrawWrite, WithdrawAgain
      <3> QED
        BY <2>1, <3>1, <3>2 DEF Step, Proceed
    <2> QED
      BY <2>2, FiniteThreads, FS_EmptySet DEF WaitingCountExact
  <1> QED
    BY <1>1, OrderlyStep, PTL DEF Spec, WriterPreference

-----------------------------------------------------------------------------
(* The abstract lock's state, seen from this one's.                         *)
LEMMA LockStepRefines ==
  LockInv /\ LockInv' /\ [Next]_vars => [Abstract!RWNext]_(Abstract!rwVars)
  <1> SUFFICES ASSUME LockInv, LockInv', [Next]_vars
               PROVE  [Abstract!RWNext]_(Abstract!rwVars)
    OBVIOUS
  <1> USE DEF LockInv, TypeOK, BooksBalance, MutualExclusion, Goto, Free,
              Abstract!rwVars
  <1>1. CASE UNCHANGED vars
    BY <1>1 DEF vars
  <1>2. ASSUME NEW t \in Threads, Step(t)
        PROVE  Abstract!RWNext \/ UNCHANGED Abstract!rwVars
    <2> USE DEF Abstract!RWNext, Abstract!BeginRead, Abstract!EndRead,
                Abstract!BeginWrite, Abstract!EndWrite
    <2>1. CASE AcquireRead(t) \/ ReadWoken(t)
      BY <2>1 DEF AcquireRead, ReadWoken, PassReadGate
    <2>2. CASE ReleaseRead(t)
      BY <2>2 DEF ReleaseRead
    <2>3. CASE WriteLockTaken(t) \/ WriteWoken(t) \/ TryWriteTaken(t)
      <3>1. CASE owner' = owner
        BY <2>3, <3>1, LockAssumption
           DEF WriteLockTaken, WriteWoken, TryWriteTaken, PassWriteGate
      <3>2. CASE owner' # owner
        <4>1. owner = NoThread /\ owner' = t /\ pc' = [pc EXCEPT ![t] = "writing"]
              /\ pc[t] # "reading"
          BY <2>3, <3>2 DEF WriteLockTaken, WriteWoken, TryWriteTaken, PassWriteGate
        <4>2. \A u \in Threads : pc[u] # "reading"
          BY <4>1
        <4> QED
          BY <4>1, <4>2
      <3> QED
        BY <3>1, <3>2
    <2>4. CASE ReleaseWrite(t)
      BY <2>4 DEF ReleaseWrite
    <2>5. CASE \/ ReadTimeout(t) \/ AcquireWrite(t) \/ TryWrite(t)
               \/ TryWriteFailed(t) \/ WriteTimeout(t) \/ WithdrawWrite(t)
               \/ WithdrawAgain(t) \/ NotifyAll(t)
      BY <2>5 DEF ReadTimeout, AcquireWrite, TryWrite, Announce, TryWriteFailed,
                  WriteTimeout, WithdrawWrite, WithdrawAgain, NotifyAll
    <2> QED
      BY <1>2, <2>1, <2>2, <2>3, <2>4, <2>5 DEF Step, Proceed
  <1> QED
    BY <1>1, <1>2 DEF Next

(* The lock implements the abstract lock: many readers or one writer.       *)
THEOREM LockRefines == Spec => ImplementsRWLock
  <1>1. Init => Abstract!RWInit
    BY DEF Init, Abstract!RWInit
  <1> QED
    BY <1>1, LockInit, LockStep, LockStepRefines, PTL
       DEF Spec, ImplementsRWLock, Abstract!RWSpec
=============================================================================
