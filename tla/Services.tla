------------------------------- MODULE Services -------------------------------
(***************************************************************************)
(* The components that share no state, in one specification: each behaviour *)
(* is one of the component that `part' names, while the others rest.        *)
(***************************************************************************)
EXTENDS TaskTimeout, ManagerLifecycle, PriorityQueue, DependencyGraph,
        DependencySearch, ResourceManager, UpdateBuffer, Cancellation

VARIABLE part

servicesVars ==
  <<part, timeoutVars, lifecycleVars, queueVars, graphVars, searchVars, resourceVars,
    bufferVars, cancelVars>>

ServicesTypeOK ==
  /\ TimeoutTypeOK /\ LifecycleTypeOK /\ QueueTypeOK /\ GraphTypeOK
  /\ SearchTypeOK /\ ResourceTypeOK /\ BufferTypeOK /\ CancelTypeOK

ServicesInit ==
  /\ part \in {"timeouts", "lifecycle", "queue", "graph", "search", "resources", "buffer",
              "cancellation"}
  /\ TimeoutInit /\ LifecycleInit /\ QueueInit /\ GraphInit
  /\ SearchInit /\ ResourceInit /\ BufferInit /\ CancelInit
  /\ part # "queue" => queueImpl = "python"
  /\ part # "graph" => graphImpl = "python"

Resting(p, rest) == part = p /\ UNCHANGED <<part, rest>>

ServicesNext ==
  \/ TimeoutNext /\ Resting("timeouts",
       <<lifecycleVars, queueVars, graphVars, searchVars, resourceVars, bufferVars, cancelVars>>)
  \/ LifecycleNext /\ Resting("lifecycle",
       <<timeoutVars, queueVars, graphVars, searchVars, resourceVars, bufferVars, cancelVars>>)
  \/ QueueNext /\ Resting("queue",
       <<timeoutVars, lifecycleVars, graphVars, searchVars, resourceVars, bufferVars, cancelVars>>)
  \/ GraphNext /\ Resting("graph",
       <<timeoutVars, lifecycleVars, queueVars, searchVars, resourceVars, bufferVars, cancelVars>>)
  \/ SearchNext /\ Resting("search",
       <<timeoutVars, lifecycleVars, queueVars, graphVars, resourceVars, bufferVars, cancelVars>>)
  \/ ResourceNext /\ Resting("resources",
       <<timeoutVars, lifecycleVars, queueVars, graphVars, searchVars, bufferVars, cancelVars>>)
  \/ BufferNext /\ Resting("buffer",
       <<timeoutVars, lifecycleVars, queueVars, graphVars, searchVars, resourceVars, cancelVars>>)
  \/ CancelNext /\ Resting("cancellation",
       <<timeoutVars, lifecycleVars, queueVars, graphVars, searchVars, resourceVars, bufferVars>>)

(* The fairness of TimeoutSpec and LifecycleSpec, for the part that moves.   *)
ServicesFairness ==
  /\ \A j \in Jobs : WF_timeoutVars(part = "timeouts" /\ WorkerStep(j))
  /\ \A c \in Callers : WF_lifecycleVars(part = "lifecycle" /\ CallerStep(c))
  /\ \A i \in Instances : WF_lifecycleVars(part = "lifecycle" /\ (WaitEnds(i) \/ CleanOnce(i)))

ServicesSpec == ServicesInit /\ [][ServicesNext]_servicesVars /\ ServicesFairness
=============================================================================
