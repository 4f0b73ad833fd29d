---------------------------- MODULE ReadWriteLock ----------------------------
(***************************************************************************)
(* ReadWriteLock of fish_async_task/task_status.py: a writer-preferring    *)
(* read/write lock built on one Condition over a re-entrant lock.          *)
(*                                                                         *)
(* A `with self._read_ready:' block is one atomic step, enabled while no   *)
(* writer keeps the re-entrant lock (owner = NoThread).  A writer keeps    *)
(* that lock from the end of acquire_write to release_write.  Condition    *)
(* waiters are the threads of waitSet; a thread of pc "readWait" or        *)
(* "writeWait" outside waitSet has been notified and competes for the      *)
(* lock.  Time is abstracted: the threads of CanTimeOut may find their     *)
(* deadline passed whenever they wait.                                     *)
(***************************************************************************)
EXTENDS Integers, FiniteSets

CONSTANTS
  Threads,      (* the threads that use the lock                            *)
  NoThread,     (* the owner of a free lock                                 *)
  CanTimeOut,   (* the threads whose timeout may be shorter than their wait *)
  CanTry,       (* the threads that also try to write with a timeout <= 0   *)
  MaxLost       (* bound: writers the waiting count may have lost           *)

ASSUME LockAssumption ==
  /\ IsFiniteSet(Threads)
  /\ NoThread \notin Threads
  /\ CanTimeOut \subseteq Threads
  /\ CanTry \subseteq Threads
  /\ MaxLost \in Nat

VARIABLES
  pc,        (* where each thread is                                   *)
  owner,     (* the writer that keeps the re-entrant lock              *)
  readers,   (* _readers                                               *)
  waiting,   (* _writers_waiting: announced writers, the active one too *)
  waitSet    (* threads asleep in Condition.wait                       *)

vars == <<pc, owner, readers, waiting, waitSet>>

Free == owner = NoThread

Asleep == {"readWait", "writeWait"}

(* Threads that have announced a write and have not withdrawn it.          *)
Announced == {"announced", "tryAnnounced", "writeWait", "writing",
              "timedOut", "tryFailed"}

PCs == Announced \cup {"idle", "readWait", "reading", "released", "raising"}

Writers == {t \in Threads : pc[t] \in Announced}

Readers == {t \in Threads : pc[t] = "reading"}

TypeOK ==
  /\ pc \in [Threads -> PCs]
  /\ owner \in Threads \cup {NoThread}
  /\ readers \in Int
  /\ waiting \in Int
  /\ waitSet \subseteq {t \in Threads : pc[t] \in Asleep}

Init ==
  /\ pc = [t \in Threads |-> "idle"]
  /\ owner = NoThread
  /\ readers = 0
  /\ waiting = 0
  /\ waitSet = {}

Goto(t, label) == pc' = [pc EXCEPT ![t] = label]

-----------------------------------------------------------------------------
(* acquire_read                                                            *)

(* A timeout <= 0 turns the sleep into a refusal that changes nothing.      *)
(* A reader at the test of its loop, holding the re-entrant lock: it sleeps *)
(* while a writer is announced, otherwise it is counted and enters.         *)
PassReadGate(t) ==
  IF waiting > 0
  THEN /\ Goto(t, "readWait")
       /\ waitSet' = waitSet \cup {t}
       /\ UNCHANGED readers
  ELSE /\ Goto(t, "reading")
       /\ readers' = readers + 1
       /\ UNCHANGED waitSet

AcquireReadAnyway(t) ==
  /\ pc[t] = "idle"
  /\ Free
  /\ Goto(t, "reading")
  /\ readers' = readers + 1
  /\ UNCHANGED <<owner, waiting, waitSet>>

AcquireReadUnlocked(t) ==
  /\ pc[t] = "idle"
  /\ PassReadGate(t)
  /\ UNCHANGED <<owner, waiting>>

AcquireRead(t) ==
  /\ pc[t] = "idle"
  /\ Free
  /\ PassReadGate(t)
  /\ UNCHANGED <<owner, waiting>>

(* Condition.wait returned True: the reader has the lock again and re-tests. *)
ReadWoken(t) ==
  /\ pc[t] = "readWait"
  /\ t \notin waitSet
  /\ Free
  /\ PassReadGate(t)
  /\ UNCHANGED <<owner, waiting>>

ReadTimeoutWithdrawn(t) ==
  /\ t \in CanTimeOut
  /\ pc[t] = "readWait"
  /\ Free
  /\ Goto(t, "idle")
  /\ waitSet' = waitSet \ {t}
  /\ readers' = readers - 1
  /\ UNCHANGED <<owner, waiting>>

ReadTimeoutStillListed(t) ==
  /\ t \in CanTimeOut
  /\ pc[t] = "readWait"
  /\ Free
  /\ Goto(t, "idle")
  /\ UNCHANGED <<owner, readers, waiting, waitSet>>

(* The deadline passed in wait, or before a notified reader re-tested.      *)
ReadTimeout(t) ==
  /\ t \in CanTimeOut
  /\ pc[t] = "readWait"
  /\ Free
  /\ Goto(t, "idle")
  /\ waitSet' = waitSet \ {t}
  /\ UNCHANGED <<owner, readers, waiting>>

ReleaseReadSilent(t) ==
  /\ pc[t] = "reading"
  /\ Free
  /\ Goto(t, "idle")
  /\ readers' = readers - 1
  /\ UNCHANGED <<owner, waiting, waitSet>>

(* release_read: the last reader wakes every waiter.                        *)
ReleaseRead(t) ==
  /\ pc[t] = "reading"
  /\ Free
  /\ Goto(t, "idle")
  /\ readers' = readers - 1
  /\ waitSet' = IF readers = 1 THEN {} ELSE waitSet
  /\ UNCHANGED <<owner, waiting>>

-----------------------------------------------------------------------------
(* acquire_write                                                           *)

AnnounceNothing(t, next) ==
  /\ pc[t] = "idle"
  /\ Free
  /\ Goto(t, next)
  /\ UNCHANGED <<owner, readers, waiting, waitSet>>

(* The first block of acquire_write counts the writer; `next' tells a       *)
(* timed call from one with a timeout <= 0.                                 *)
Announce(t, next) ==
  /\ pc[t] = "idle"
  /\ Free
  /\ Goto(t, next)
  /\ waiting' = waiting + 1
  /\ UNCHANGED <<owner, readers, waitSet>>

AcquireWrite(t) == Announce(t, "announced")

TryWrite(t) == t \in CanTry /\ Announce(t, "tryAnnounced")

EnterPastReaders(t) ==
  /\ Goto(t, "writing")
  /\ owner' = t
  /\ UNCHANGED waitSet

(* A writer at the test of its loop, holding the re-entrant lock: it sleeps *)
(* while readers are inside, otherwise it keeps the lock and enters.        *)
PassWriteGate(t) ==
  IF readers > 0
  THEN /\ Goto(t, "writeWait")
       /\ waitSet' = waitSet \cup {t}
       /\ UNCHANGED owner
  ELSE /\ Goto(t, "writing")
       /\ owner' = t
       /\ UNCHANGED waitSet

WriteLockTaken(t) ==
  /\ pc[t] = "announced"
  /\ Free
  /\ PassWriteGate(t)
  /\ UNCHANGED <<readers, waiting>>

WriteWoken(t) ==
  /\ pc[t] = "writeWait"
  /\ t \notin waitSet
  /\ Free
  /\ PassWriteGate(t)
  /\ UNCHANGED <<readers, waiting>>

(* With a timeout <= 0 both refusals lead to one decrement and False.       *)
TryWriteTaken(t) ==
  /\ pc[t] = "tryAnnounced"
  /\ IF Free /\ ~(readers > 0)
     THEN Goto(t, "writing") /\ owner' = t
     ELSE Goto(t, "tryFailed") /\ UNCHANGED owner
  /\ UNCHANGED <<readers, waiting, waitSet>>

TryWriteFailed(t) ==
  /\ pc[t] = "tryFailed"
  /\ Free
  /\ Goto(t, "idle")
  /\ waiting' = waiting - 1
  /\ UNCHANGED <<owner, readers, waitSet>>

(* Announced writers the count no longer accounts for.                      *)
Lost == Cardinality(Writers) - waiting

(* The deadline passes while waiting for the lock, or for the readers; a    *)
(* thread leaves Condition.wait only with the lock in its hands.            *)
WriteTimeout(t) ==
  /\ t \in CanTimeOut
  /\ Lost < MaxLost
  /\ \/ pc[t] = "announced"
     \/ pc[t] = "writeWait" /\ Free
  /\ Goto(t, "timedOut")
  /\ waitSet' = waitSet \ {t}
  /\ UNCHANGED <<owner, readers, waiting>>

(* The failing branch withdraws the announcement and raises TimeoutError... *)
WithdrawWrite(t) ==
  /\ pc[t] = "timedOut"
  /\ Free
  /\ Goto(t, "raising")
  /\ waiting' = waiting - 1
  /\ UNCHANGED <<owner, readers, waitSet>>

(* ... which acquire_write's own `except Exception' catches: it withdraws   *)
(* an announcement again, whosever it is, before it re-raises.              *)
WithdrawAgain(t) ==
  /\ pc[t] = "raising"
  /\ Free
  /\ Goto(t, "idle")
  /\ waiting' = IF waiting > 0 THEN waiting - 1 ELSE waiting
  /\ UNCHANGED <<owner, readers, waitSet>>

-----------------------------------------------------------------------------
(* release_write                                                           *)

(* The decrement happens with the lock still held: nobody sees it apart.    *)
ReleaseWrite(t) ==
  /\ pc[t] = "writing"
  /\ owner = t
  /\ Goto(t, "released")
  /\ waiting' = waiting - 1
  /\ owner' = NoThread
  /\ UNCHANGED <<readers, waitSet>>

NotifyNobody(t) ==
  /\ pc[t] = "released"
  /\ Free
  /\ Goto(t, "idle")
  /\ UNCHANGED <<owner, readers, waiting, waitSet>>

(* The second block of release_write, after the lock was given up.          *)
NotifyAll(t) ==
  /\ pc[t] = "released"
  /\ Free
  /\ Goto(t, "idle")
  /\ waitSet' = {}
  /\ UNCHANGED <<owner, readers, waiting>>

-----------------------------------------------------------------------------
(* Steps a thread inside acquire or release takes without a caller's help.  *)
Proceed(t) ==
  \/ ReadWoken(t) \/ WriteLockTaken(t) \/ WriteWoken(t) \/ TryWriteTaken(t)
  \/ TryWriteFailed(t) \/ WithdrawWrite(t) \/ WithdrawAgain(t) \/ NotifyAll(t)

Step(t) ==
  \/ AcquireRead(t) \/ AcquireWrite(t) \/ TryWrite(t)
  \/ ReleaseRead(t) \/ ReleaseWrite(t)
  \/ ReadTimeout(t) \/ WriteTimeout(t)
  \/ Proceed(t)

Next == \E t \in Threads : Step(t)

Spec == Init /\ [][Next]_vars

(* A runnable thread runs, and a section under the lock ends.  Nobody is    *)
(* obliged to call the lock, nor to time out.                               *)
Fairness ==
  \A t \in Threads :
    /\ WF_vars(Proceed(t))
    /\ WF_vars(ReleaseRead(t))
    /\ WF_vars(ReleaseWrite(t))

FairSpec == Spec /\ Fairness

-----------------------------------------------------------------------------
(* The lock excludes: readers inside exclude a writer, and a second writer  *)
(* is excluded, whatever timeouts did to the waiting count.                 *)
MutualExclusion ==
  \A t \in Threads :
    pc[t] = "writing" => \A u \in Threads \ {t} : pc[u] \notin {"reading", "writing"}

(* _readers is the number of threads inside, and the lock belongs to the    *)
(* writer inside: the two facts acquire_write's test `_readers > 0' needs.  *)
BooksBalance ==
  /\ readers = Cardinality(Readers)
  /\ \A t \in Threads : pc[t] = "writing" <=> owner = t

(* No thread sleeps with the lock's condition true for it unless a wake-up  *)
(* is on its way: a sleeping writer sees a reader that will notify.         *)
NoSleepingWriterOnFreeLock ==
  (\E t \in waitSet : pc[t] = "writeWait")
    => \/ readers > 0
       \/ \E u \in Threads : pc[u] \in {"writing", "released"}

(* _writers_waiting counts exactly the writers that have announced          *)
(* themselves; "after any exception the waiting count is decreased".        *)
WaitingCountExact == waiting = Cardinality(Writers)

(* Writer preference: no reader gets in while a writer is announced.        *)
WriterPreference ==
  [][\A t \in Threads :
       (pc[t] # "reading" /\ pc'[t] = "reading") => Writers = {}]_vars

(* The lock never hangs: while some thread waits to write, some thread gets *)
(* to write.                                                                *)
WritersProgress ==
  (\E t \in Threads : pc[t] \in {"announced", "writeWait"})
    ~> (\E t \in Threads : pc[t] = "writing")

(* Once no more writer comes, every sleeping reader gets in (or gives up).  *)
ReadersProgress ==
  \A t \in Threads :
    <>[](Writers = {}) => (pc[t] = "readWait" ~> pc[t] # "readWait")

(* Every state change of the lock is one of the abstract lock's.            *)
Abstract == INSTANCE RWLockSpec WITH
              readerSet <- {t \in Threads : pc[t] = "reading"},
              writer <- owner

ImplementsRWLock == Abstract!RWSpec
=============================================================================
