----------------------------- MODULE StatusBoard -----------------------------
(***************************************************************************)
(* What TaskManager (fish_async_task/task_manager.py) promises to those who *)
(* ask for the status of their tasks: one board, without batches, flushes   *)
(* or locks.  Whether a task is on the board, and how it ended, is all that *)
(* is promised; a task whose record was removed is promised nothing more.   *)
(***************************************************************************)
CONSTANTS
  Tasks,     (* the task ids                                               *)
  Clients,   (* the get_task_status calls                                  *)
  Nothing    (* the task of a client that is not asking                    *)

Outcomes == {"completed", "failed"}

VARIABLES
  known,     (* the tasks whose submit_task has reported them              *)
  told,      (* how each task ended, as its worker reported it, or "none"  *)
  board,     (* what the record of a task shows: {} if there is none, else
                "listed" and the outcomes it names                         *)
  removed,   (* the tasks whose record was ever taken off                  *)
  asking,    (* the task each client is asking for                         *)
  due,       (* whether that task's outcome was told before                *)
  shown      (* what the last answer about each task showed                *)

boardVars == <<known, told, board, removed, asking, due, shown>>

Init ==
  /\ known = {}
  /\ told = [t \in Tasks |-> "none"]
  /\ board = [t \in Tasks |-> {}]
  /\ removed = {}
  /\ asking = [c \in Clients |-> Nothing]
  /\ due = [c \in Clients |-> FALSE]
  /\ shown = [t \in Tasks |-> {}]

Submit(t) ==
  /\ t \notin known
  /\ known' = known \cup {t}
  /\ UNCHANGED <<told, board, removed, asking, due, shown>>

(* A task ends once.                                                        *)
Tell(t, outcome) ==
  /\ told[t] = "none"
  /\ told' = [told EXCEPT ![t] = outcome]
  /\ UNCHANGED <<known, board, removed, asking, due, shown>>

(* Some time later the board follows.  It never takes an outcome back.      *)
Post(t) ==
  /\ \/ /\ t \in removed \/ board[t] \cap Outcomes = {}
        /\ board' = [board EXCEPT ![t] = {"listed"}]
     \/ /\ told[t] \in Outcomes
        /\ board' = [board EXCEPT ![t] = {"listed", told[t]}]
  /\ UNCHANGED <<known, told, removed, asking, due, shown>>

Remove(gone) ==
  /\ removed' = removed \cup gone
  /\ board' = [t \in Tasks |-> IF t \in gone THEN {} ELSE board[t]]
  /\ UNCHANGED <<known, told, asking, due, shown>>

Ask(c, t) ==
  /\ asking[c] = Nothing
  /\ t \in known
  /\ asking' = [asking EXCEPT ![c] = t]
  /\ due' = [due EXCEPT ![c] = told[t] \in Outcomes]
  /\ UNCHANGED <<known, told, board, removed, shown>>

(* The answer is what the board shows.  It is not given before the task is  *)
(* listed, nor before an outcome that was told by the time of the question. *)
Answer(c) ==
  /\ asking[c] # Nothing
  /\ asking[c] \notin removed =>
       /\ board[asking[c]] # {}
       /\ due[c] => told[asking[c]] \in board[asking[c]]
  /\ shown' = [shown EXCEPT ![asking[c]] = board[asking[c]]]
  /\ asking' = [asking EXCEPT ![c] = Nothing]
  /\ due' = [due EXCEPT ![c] = FALSE]
  /\ UNCHANGED <<known, told, board, removed>>

Next ==
  \/ \E gone \in SUBSET Tasks : Remove(gone)
  \/ \E t \in Tasks : Submit(t) \/ Post(t) \/ \E outcome \in Outcomes : Tell(t, outcome)
  \/ \E c \in Clients : Answer(c) \/ \E t \in Tasks : Ask(c, t)

Spec == Init /\ [][Next]_boardVars
=============================================================================
