--------------------------- MODULE DependencySearch ---------------------------
(***************************************************************************)
(* has_circular_dependency of TaskDependencyManager: a depth-first search   *)
(* that takes no lock.  Each step reads the shared dict or one of its sets  *)
(* once, and between two steps the calls that hold the lock change them:    *)
(* they appear as the search may see them, one link at a time.              *)
(***************************************************************************)
EXTENDS Naturals, Sequences, FiniteSets

CONSTANTS
  Nodes,      (* task ids                                                   *)
  Asked,      (* those a search is made for                                 *)
  MaxLinks,   (* bound on the dependencies at one time                      *)
  MaxChanges  (* bound on the changes made during one search                *)

ASSUME SearchAssumption ==
  IsFiniteSet(Nodes) /\ Asked \subseteq Nodes /\ MaxLinks \in Nat /\ MaxChanges \in Nat

VARIABLES
  keys, sets,  (* the keys of _dependencies, and the set of each            *)
  stage,       (* idle, of the innermost call (entering: before it looks    *)
               (* for its task, found, looping), or the answer              *)
  path,        (* the tasks of the calls in progress, which are rec_stack   *)
  visited,
  left,        (* what the loop of each call still has to give; once its    *)
               (* set has changed, what is in the set now                   *)
  size,        (* of the set when the loop began                            *)
  held,        (* the loops over a set that is still in the dict            *)
  touched,     (* the loops whose set has changed since they began          *)
  ever,        (* the links that were there at some time of the search      *)
  always,      (* those that were there all the time                        *)
  blurred,     (* a loop went on over a set that had changed                *)
  changes      (* how many changes were made during the search              *)

callVars == <<stage, path, visited, left, size, held, touched>>
searchVars == <<keys, sets, callVars, ever, always, blurred, changes>>

NoLinks == [n \in Nodes |-> {}]
Answers == {"yes", "no", "raised"}
OnPath == {path[i] : i \in DOMAIN path}
Top == path[Len(path)]
Links == {l \in Nodes \X Nodes : l[2] \in sets[l[1]]}

SearchTypeOK ==
  /\ keys \subseteq Nodes /\ sets \in [Nodes -> SUBSET Nodes]
  /\ \A n \in Nodes : sets[n] # {} => n \in keys
  /\ stage \in {"idle", "entering", "found", "looping"} \cup Answers
  /\ path \in Seq(Nodes) /\ (stage = "idle" <=> path = <<>>)
  /\ visited \subseteq Nodes /\ OnPath \subseteq visited
  /\ left \in [Nodes -> SUBSET Nodes] /\ size \in [Nodes -> Nat]
  /\ held \subseteq OnPath /\ touched \subseteq OnPath
  /\ ever \in [Nodes -> SUBSET Nodes] /\ always \in [Nodes -> SUBSET Nodes]
  /\ blurred \in BOOLEAN /\ changes \in 0 .. MaxChanges

SearchInit ==
  /\ keys = {} /\ sets = NoLinks
  /\ stage = "idle" /\ path = <<>> /\ visited = {}
  /\ left = NoLinks /\ size = [n \in Nodes |-> 0] /\ held = {} /\ touched = {}
  /\ ever = NoLinks /\ always = NoLinks /\ blurred = FALSE /\ changes = 0

-----------------------------------------------------------------------------
(* The calls that hold the lock.                                            *)

(* What the search will have seen, when the sets become S.                  *)
Noted(S) ==
  IF stage = "idle" THEN UNCHANGED <<ever, always, changes>>
  ELSE /\ changes < MaxChanges /\ changes' = changes + 1
       /\ ever' = [n \in Nodes |-> ever[n] \cup S[n]]
       /\ always' = [n \in Nodes |-> always[n] \cap S[n]]

(* The set of n becomes D, while a loop may be over it.                     *)
SetChanges(n, D) ==
  /\ sets' = [sets EXCEPT ![n] = D] /\ Noted(sets')
  /\ left' = IF n \in held THEN [left EXCEPT ![n] = D] ELSE left
  /\ touched' = touched \cup (held \cap {n})
  /\ UNCHANGED <<keys, stage, path, visited, size, held, blurred>>

(* add_dependency enters an empty set, and then adds to it.                 *)
EnterTask(n) ==
  /\ n \notin keys /\ keys' = keys \cup {n} /\ Noted(sets)
  /\ UNCHANGED <<sets, callVars, blurred>>

AddLink(n, d) ==
  /\ n \in keys /\ d \notin sets[n] /\ Cardinality(Links) < MaxLinks
  /\ SetChanges(n, sets[n] \cup {d})

(* mark_completed takes the task out of each dependent's set.               *)
DiscardLink(n, d) == d \in sets[n] /\ SetChanges(n, sets[n] \ {d})

(* clear empties the dict; a loop goes on over the set that was in it.      *)
ClearAll ==
  /\ keys # {} /\ keys' = {} /\ sets' = NoLinks /\ Noted(NoLinks) /\ held' = {}
  /\ UNCHANGED <<stage, path, visited, left, size, touched, blurred>>

-----------------------------------------------------------------------------
(* The search.                                                              *)

BeginSearch(n) ==
  /\ stage = "idle" /\ stage' = "entering" /\ path' = <<n>> /\ visited' = {n}
  /\ ever' = sets /\ always' = sets
  /\ UNCHANGED <<keys, sets, left, size, held, touched, blurred, changes>>

(* The test whether the task is in the dict: if not, there is no loop.      *)
FindTask ==
  /\ stage = "entering" /\ stage' = IF Top \in keys THEN "found" ELSE "looping"
  /\ UNCHANGED <<keys, sets, path, visited, left, size, held, touched, ever, always, blurred, changes>>

(* The set is fetched and the loop begins; a clear before it: KeyError.     *)
FetchSet ==
  /\ stage = "found"
  /\ IF Top \in keys
     THEN /\ stage' = "looping" /\ held' = held \cup {Top}
          /\ left' = [left EXCEPT ![Top] = sets[Top]]
          /\ size' = [size EXCEPT ![Top] = Cardinality(sets[Top])]
     ELSE stage' = "raised" /\ UNCHANGED <<left, size, held>>
  /\ UNCHANGED <<keys, sets, path, visited, touched, ever, always, blurred, changes>>

(* The loop finds its set of another size: RuntimeError.                    *)
WrongSize == Top \in touched /\ Cardinality(left[Top]) # size[Top]

LoopFails ==
  /\ stage = "looping" /\ WrongSize /\ stage' = "raised"
  /\ UNCHANGED <<keys, sets, path, visited, left, size, held, touched, ever, always, blurred, changes>>

(* Back at its size, the set may give anything it holds, or again, or end.  *)
GoesOn ==
  /\ stage = "looping" /\ ~WrongSize
  /\ blurred' = (blurred \/ Top \in touched)
  /\ UNCHANGED <<keys, sets, ever, always, changes>>

(* Mutant: a task that was left is taken for one on the way.                *)
LookAtUnstacked(d) ==
  /\ GoesOn /\ d \in left[Top]
  /\ left' = IF Top \in touched THEN left ELSE [left EXCEPT ![Top] = @ \ {d}]
  /\ \/ /\ d \notin visited /\ stage' = "entering"
        /\ path' = Append(path, d) /\ visited' = visited \cup {d}
     \/ d \in visited /\ stage' = "yes" /\ UNCHANGED <<path, visited>>
  /\ UNCHANGED <<size, held, touched>>

LookAt(d) ==
  /\ GoesOn /\ d \in left[Top]
  /\ left' = IF Top \in touched THEN left ELSE [left EXCEPT ![Top] = @ \ {d}]
  /\ \/ /\ d \notin visited /\ stage' = "entering"
        /\ path' = Append(path, d) /\ visited' = visited \cup {d}
     \/ d \in OnPath /\ stage' = "yes" /\ UNCHANGED <<path, visited>>
     \/ d \in visited \ OnPath /\ UNCHANGED <<stage, path, visited>>
  /\ UNCHANGED <<size, held, touched>>

(* The call returns False, the first one with the answer.                   *)
Leave ==
  /\ GoesOn /\ (left[Top] = {} \/ Top \in touched)
  /\ IF Len(path) = 1 THEN stage' = "no" /\ UNCHANGED path
                      ELSE path' = SubSeq(path, 1, Len(path) - 1) /\ UNCHANGED stage
  /\ left' = [left EXCEPT ![Top] = {}] /\ size' = [size EXCEPT ![Top] = 0]
  /\ held' = held \ {Top} /\ touched' = touched \ {Top}
  /\ UNCHANGED visited

(* The caller has the answer.                                               *)
EndSearch ==
  /\ stage \in Answers
  /\ stage' = "idle" /\ path' = <<>> /\ visited' = {}
  /\ left' = NoLinks /\ size' = [n \in Nodes |-> 0] /\ held' = {} /\ touched' = {}
  /\ ever' = NoLinks /\ always' = NoLinks /\ blurred' = FALSE /\ changes' = 0
  /\ UNCHANGED <<keys, sets>>

SearchNext ==
  \/ \E n \in Asked : BeginSearch(n)
  \/ \E n \in Nodes : EnterTask(n) \/ LookAt(n)
  \/ \E n, d \in Nodes : AddLink(n, d) \/ DiscardLink(n, d)
  \/ ClearAll \/ FindTask \/ FetchSet \/ LoopFails \/ Leave \/ EndSearch

SearchSpec == SearchInit /\ [][SearchNext]_searchVars

-----------------------------------------------------------------------------
(* m comes after n by one link of E or more: it is in every set that holds  *)
(* what n is linked to and what its own members are linked to.              *)
Closed(E, S) == \A x \in S : E[x] \subseteq S
Reaches(E, n, m) == \A S \in SUBSET Nodes : E[n] \subseteq S /\ Closed(E, S) => m \in S

CycleFrom(E, n) == \E d \in Nodes : (d = n \/ Reaches(E, n, d)) /\ Reaches(E, d, d)

(* The search says yes only for a cycle of links that were there during the *)
(* search, no only where the links that stayed make none, unless a loop     *)
(* went on over a set that had changed, and it raises only when disturbed:  *)
(* "whether there is a circular dependency" of has_circular_dependency.     *)
CycleAnswers ==
  /\ stage = "yes" => CycleFrom(ever, path[1])
  /\ stage = "no" /\ ~blurred => ~CycleFrom(always, path[1])
  /\ stage = "raised" => changes > 0
=============================================================================
