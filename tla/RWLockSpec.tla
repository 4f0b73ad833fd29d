----------------------------- MODULE RWLockSpec -----------------------------
(***************************************************************************)
(* What ReadWriteLock (fish_async_task/task_status.py) promises to the     *)
(* store that uses it: any number of readers at once, or one writer alone. *)
(***************************************************************************)
CONSTANTS
  Threads,   (* the threads that use the lock *)
  NoThread   (* "nobody writes"               *)

VARIABLES
  readerSet,   (* the threads inside a read section               *)
  writer       (* the thread inside a write section, or NoThread  *)

rwVars == <<readerSet, writer>>

RWInit ==
  /\ readerSet = {}
  /\ writer = NoThread

BeginRead(t) ==
  /\ writer = NoThread
  /\ t \notin readerSet
  /\ readerSet' = readerSet \cup {t}
  /\ UNCHANGED writer

EndRead(t) ==
  /\ t \in readerSet
  /\ readerSet' = readerSet \ {t}
  /\ UNCHANGED writer

BeginWrite(t) ==
  /\ writer = NoThread
  /\ readerSet = {}
  /\ writer' = t
  /\ UNCHANGED readerSet

EndWrite(t) ==
  /\ writer = t
  /\ writer' = NoThread
  /\ UNCHANGED readerSet

RWNext ==
  \E t \in Threads : BeginRead(t) \/ EndRead(t) \/ BeginWrite(t) \/ EndWrite(t)

RWSpec == RWInit /\ [][RWNext]_rwVars
=============================================================================
