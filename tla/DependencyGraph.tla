---------------------------- MODULE DependencyGraph ----------------------------
(***************************************************************************)
(* The dependency managers: Python's TaskDependencyManager, whose calls     *)
(* hold its lock, and Rust's PyTaskDependencyManager, whose calls keep the  *)
(* interpreter lock: each call is one step.  Two calls may never return,    *)
(* and then no other call does: hung.                                       *)
(***************************************************************************)
EXTENDS Naturals, FiniteSets

CONSTANTS
  Names,     (* task ids                                                    *)
  Failing,   (* those that may be marked failed                             *)
  MaxEdges   (* bound on the dependencies added                             *)

ASSUME GraphAssumption == Failing \subseteq Names /\ MaxEdges \in Nat

VARIABLES
  graphImpl,     (* python or rust                                          *)
  listed,        (* the keys of _dependencies                               *)
  dependencies,  (* what each task still has in _dependencies               *)
  dependents,    (* _dependents, the other way round                        *)
  completed, failed,
  hung,
  wanted,        (* the dependencies added and not removed                  *)
  finished       (* the tasks marked completed and not reset                *)

graphVars == <<graphImpl, listed, dependencies, dependents, completed, failed, hung, wanted, finished>>

NoEdges == [n \in Names |-> {}]

GraphTypeOK ==
  /\ graphImpl \in {"python", "rust"} /\ listed \subseteq Names
  /\ dependencies \in [Names -> SUBSET Names] /\ dependents \in [Names -> SUBSET Names]
  /\ completed \subseteq Names /\ failed \subseteq Failing /\ hung \in BOOLEAN
  /\ \A n \in Names : dependencies[n] # {} => n \in listed
  /\ \A n, d \in Names : d \in dependencies[n] => n \in dependents[d]

GraphInit ==
  /\ graphImpl \in {"python", "rust"} /\ listed = {}
  /\ dependencies = NoEdges /\ dependents = NoEdges
  /\ completed = {} /\ failed = {} /\ hung = FALSE
  /\ wanted = NoEdges /\ finished = {}

Edges(f) == Cardinality({p \in Names \X Names : p[2] \in f[p[1]]})

With(f, n, S) == [f EXCEPT ![n] = @ \cup S]

(* Rust takes the dependencies one at a time, and none is no call.          *)
AddDependency(n, D) ==
  /\ ~hung /\ (graphImpl = "rust" => Cardinality(D) = 1)
  /\ Edges(With(wanted, n, D)) <= MaxEdges
  /\ listed' = listed \cup {n}
  /\ dependencies' = With(dependencies, n, D)
  /\ dependents' = [d \in Names |-> IF d \in D THEN dependents[d] \cup {n} ELSE dependents[d]]
  /\ wanted' = With(wanted, n, D)
  /\ UNCHANGED <<graphImpl, completed, failed, hung, finished>>

(* Mutant: the dependents are freed, the completion is not noted.           *)
MarkUnnoted(n) ==
  /\ ~hung /\ graphImpl = "python" /\ finished' = finished \cup {n}
  /\ dependencies' = [t \in Names |-> IF t \in dependents[n] THEN dependencies[t] \ {n}
                                                             ELSE dependencies[t]]
  /\ UNCHANGED <<graphImpl, listed, dependents, completed, failed, hung, wanted>>

(* Python takes the task out of its dependents' sets as well.               *)
MarkCompleted(n) ==
  /\ ~hung /\ completed' = completed \cup {n} /\ finished' = finished \cup {n}
  /\ dependencies' = [t \in Names |->
       IF graphImpl = "python" /\ t \in dependents[n] THEN dependencies[t] \ {n} ELSE dependencies[t]]
  /\ UNCHANGED <<graphImpl, listed, dependents, failed, hung, wanted>>

MarkFailed(n) ==
  /\ ~hung /\ graphImpl = "python" /\ n \in Failing /\ failed' = failed \cup {n}
  /\ UNCHANGED <<graphImpl, listed, dependencies, dependents, completed, hung, wanted, finished>>

ClearGraph ==
  /\ ~hung /\ listed' = {} /\ dependencies' = NoEdges /\ dependents' = NoEdges
  /\ completed' = {} /\ failed' = {} /\ wanted' = NoEdges /\ finished' = {}
  /\ UNCHANGED <<graphImpl, hung>>

ResetCompleted ==
  /\ ~hung /\ graphImpl = "rust" /\ completed' = {} /\ finished' = {}
  /\ UNCHANGED <<graphImpl, listed, dependencies, dependents, failed, hung, wanted>>

(* To remove the entry that is left empty, the call takes the lock it has.  *)
RemoveDependency(n, d) ==
  LET last == dependencies[n] = {d} \/ dependents[d] = {n} IN
  /\ ~hung /\ graphImpl = "rust" /\ n \in listed
  /\ dependencies' = [dependencies EXCEPT ![n] = @ \ {d}]
  /\ dependents' = [dependents EXCEPT ![d] = @ \ {n}]
  /\ wanted' = [wanted EXCEPT ![n] = @ \ {d}]
  /\ hung' = last
  /\ UNCHANGED <<graphImpl, listed, completed, failed, finished>>

(* get_ready_tasks calls is_ready, which takes the lock once more.          *)
GetReadyTasks ==
  /\ ~hung /\ graphImpl = "python" /\ listed # {} /\ hung' = TRUE
  /\ UNCHANGED <<graphImpl, listed, dependencies, dependents, completed, failed, wanted, finished>>

GraphNext ==
  \/ \E n \in Names :
       \/ MarkCompleted(n) \/ MarkFailed(n)
       \/ \E D \in SUBSET Names : AddDependency(n, D)
       \/ \E d \in Names : RemoveDependency(n, d)
  \/ ClearGraph \/ ResetCompleted \/ GetReadyTasks

GraphSpec == GraphInit /\ [][GraphNext]_graphVars

-----------------------------------------------------------------------------
IsReady(n) == dependencies[n] \subseteq completed

(* is_ready ("all dependencies are satisfied") answers from what was added  *)
(* and completed since the last clear, whichever of the two was first.      *)
ReadyAnswers == ~hung => \A n \in Names : IsReady(n) <=> wanted[n] \subseteq finished
=============================================================================
