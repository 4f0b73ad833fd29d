----------------------------- MODULE UpdateBuffer ------------------------------
(***************************************************************************)
(* performance.BatchedStatusUpdater: updates are kept by task until the     *)
(* buffer is full or old, or somebody flushes or closes it.  Whether it is  *)
(* closed is looked at before the lock is taken; the rest of each call is   *)
(* one step.  The updates are numbered in the order they take the lock.     *)
(***************************************************************************)
EXTENDS Naturals, FiniteSets

CONSTANTS
  Keys,        (* the task ids                                              *)
  Producers,   (* the threads that update                                   *)
  BufferSize,  (* buffer_size                                               *)
  MaxUpdates   (* bound on the number of updates                            *)

ASSUME BufferAssumption == BufferSize \in Nat \ {0} /\ MaxUpdates \in Nat

VARIABLES
  buffer,      (* _buffer: the update of each key, 0 if none                *)
  underlying,  (* _underlying_store, likewise                               *)
  closed,      (* _closed                                                   *)
  producer,    (* idle, or past the look at _closed in queue_update (queue)
                  or update_sync (sync)                                     *)
  updates,     (* how many updates there were                               *)
  newest,      (* the last update of each key                               *)
  overtaken,   (* keys written directly while an older update was buffered  *)
  tardy        (* keys buffered by a call that close overtook               *)

bufferVars == <<buffer, underlying, closed, producer, updates, newest, overtaken, tardy>>

Numbers == 0 .. MaxUpdates

BufferTypeOK ==
  /\ buffer \in [Keys -> Numbers] /\ underlying \in [Keys -> Numbers] /\ closed \in BOOLEAN
  /\ producer \in [Producers -> {"idle", "queue", "sync"}] /\ updates \in Numbers
  /\ newest \in [Keys -> Numbers] /\ overtaken \subseteq Keys /\ tardy \subseteq Keys
  /\ Cardinality({k \in Keys : buffer[k] # 0}) < BufferSize

Empty == [k \in Keys |-> 0]

BufferInit ==
  /\ buffer = Empty /\ underlying = Empty /\ closed = FALSE
  /\ producer = [p \in Producers |-> "idle"]
  /\ updates = 0 /\ newest = Empty /\ overtaken = {} /\ tardy = {}

(* A closed updater refuses with a RuntimeError.                            *)
BeginUpdate(p, call) ==
  /\ ~closed /\ updates < MaxUpdates
  /\ producer[p] = "idle" /\ producer' = [producer EXCEPT ![p] = call]
  /\ UNCHANGED <<buffer, underlying, closed, updates, newest, overtaken, tardy>>

Flushed(buf) == [k \in Keys |-> IF buf[k] # 0 THEN buf[k] ELSE underlying[k]]
FlushAll(buf) == buffer' = Empty /\ underlying' = Flushed(buf)

Full(buf) == Cardinality({k \in Keys : buf[k] # 0}) >= BufferSize

EndUpdate(p, call, k) ==
  /\ updates < MaxUpdates /\ updates' = updates + 1
  /\ producer[p] = call /\ producer' = [producer EXCEPT ![p] = "idle"]
  /\ newest' = [newest EXCEPT ![k] = updates + 1]

(* A buffer older than flush_interval is flushed before the new update is   *)
(* added, a full one after.                                                 *)
QueueUpdate(p, k) ==
  \E old \in BOOLEAN :
    LET buf == [(IF old THEN Empty ELSE buffer) EXCEPT ![k] = updates + 1]
        base == IF old THEN Flushed(buffer) ELSE underlying
    IN
    /\ old => buffer # Empty
    /\ EndUpdate(p, "queue", k)
    /\ IF Full(buf)
         THEN /\ buffer' = Empty /\ underlying' = [j \in Keys |-> IF buf[j] # 0 THEN buf[j] ELSE base[j]]
              /\ UNCHANGED tardy
         ELSE /\ buffer' = buf /\ underlying' = base
              /\ tardy' = IF closed THEN tardy \cup {k} ELSE tardy
    /\ overtaken' = overtaken \ {k} /\ UNCHANGED closed

(* What is buffered for the key stays, and a later flush writes it back.    *)
UpdateSync(p, k) ==
  /\ EndUpdate(p, "sync", k)
  /\ underlying' = [underlying EXCEPT ![k] = updates + 1]
  /\ overtaken' = IF buffer[k] # 0 THEN overtaken \cup {k} ELSE overtaken
  /\ UNCHANGED <<buffer, closed, tardy>>

Flush ==
  /\ buffer # Empty /\ FlushAll(buffer)
  /\ UNCHANGED <<closed, producer, updates, newest, overtaken, tardy>>

(* Mutant: closed without a last flush.                                     *)
CloseUnflushed ==
  /\ ~closed /\ closed' = TRUE
  /\ UNCHANGED <<buffer, underlying, producer, updates, newest, overtaken, tardy>>

Close ==
  /\ ~closed /\ closed' = TRUE /\ FlushAll(buffer)
  /\ UNCHANGED <<producer, updates, newest, overtaken, tardy>>

BufferNext ==
  \/ \E p \in Producers :
       \/ \E call \in {"queue", "sync"} : BeginUpdate(p, call)
       \/ \E k \in Keys : QueueUpdate(p, k) \/ UpdateSync(p, k)
  \/ Flush \/ Close

BufferSpec == BufferInit /\ [][BufferNext]_bufferVars

-----------------------------------------------------------------------------
(* The newest update of a task is in the buffer or, if none is there, in    *)
(* the store, unless update_sync overtook a buffered one; after close the   *)
(* buffer ("all queued updates are flushed") holds nothing but the updates  *)
(* of calls that had seen it open.                                          *)
UpdatesLand ==
  \A k \in Keys :
    /\ k \notin overtaken => Flushed(buffer)[k] = newest[k]
    /\ closed /\ buffer[k] # 0 => k \in tardy
=============================================================================
