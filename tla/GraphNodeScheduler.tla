------------------------ MODULE GraphNodeScheduler ------------------------
(***************************************************************************)
(* runReadyGraphNodes inside execute(): the nodes of an execution run as   *)
(* soon as what they depend on has completed, in parallel within a limit,  *)
(* and those that generate share the slots of one lane with every other    *)
(* execution of the process.  The first failure, or a cancellation, aborts *)
(* the siblings and waits for them, but only up to the drain timeout.      *)
(*                                                                         *)
(* An action is what runs between two awaits; the handlers of a node's     *)
(* promise (then, finally) are two, as other continuations run between.    *)
(***************************************************************************)
EXTENDS Integers, FiniteSets

CONSTANTS
  Executions,
  NumNodes,     \* nodes of all executions, each execution's in topological order
  ExecutionOf,  \* the execution a node belongs to
  DependsOn,    \* the nodes it takes inputs from
  External,     \* nodes of the lane 'external_generation'
  MaxParallel,  \* CONAI_GRAPH_READY_NODE_CONCURRENCY
  LaneLimit     \* CONAI_GRAPH_EXTERNAL_GENERATION_NODE_CONCURRENCY

Nodes == 1..NumNodes

ASSUME NumNodesAssumption == NumNodes \in Nat
ASSUME ExecutionOfAssumption == ExecutionOf \in [Nodes -> Executions]
\* buildExecutionOrder sorts topologically, and a partial run takes the closure.
ASSUME DependsOnAssumption ==
         /\ DependsOn \in [Nodes -> SUBSET Nodes]
         /\ \A n \in Nodes : \A d \in DependsOn[n] : d < n /\ ExecutionOf[d] = ExecutionOf[n]
ASSUME ExternalAssumption == External \subseteq Nodes
ASSUME LimitsAssumption == MaxParallel \in Nat \ {0} /\ LaneLimit \in Nat \ {0}

VARIABLES
  loop,        \* where runReadyGraphNodes, or what follows it, is suspended
  awaited,     \* the running nodes that the race or the drain looks at
  node,        \* what each node does
  completed,   \* completedNodeIds
  artifacts,   \* nodes whose artifact is stored
  activeCount, \* the lane's occupied slots
  firstError,  \* firstError, as the status it will lead to
  aborted,     \* executions whose abort signal has fired
  flagged,     \* executions whose cancellation the queue was asked for
  row          \* status of the execution's row

nodeVars == <<node, completed, artifacts, activeCount>>
vars == <<loop, awaited, nodeVars, firstError, aborted, flagged, row>>

\* "racing": Promise.race of the running nodes; "throttled": the wait for a slot;
\* "draining": after a break; "closing": compaction of the artifacts.
Suspensions == {"idle", "racing", "throttled", "draining", "closing", "ended"}
\* "saving": between the guard of saveArtifactBuffer and its INSERT; "settling":
\* the then handler has run, the finally has not.
InFlightStates == {"running", "saving", "settling"}
NodeStates == {"pending", "gone"} \union InFlightStates

NodesOf(e) == {n \in Nodes : ExecutionOf[n] = e}
Pending(e) == {n \in NodesOf(e) : node[n] = "pending"}
InFlight(e) == {n \in NodesOf(e) : node[n] \in InFlightStates}  \* runningNodes

Init ==
  /\ loop = [e \in Executions |-> "idle"]
  /\ awaited = [e \in Executions |-> {}]
  /\ node = [n \in Nodes |-> "pending"]
  /\ completed = {} /\ artifacts = {}
  /\ activeCount = 0
  /\ firstError = [e \in Executions |-> "none"]
  /\ aborted = {} /\ flagged = {}
  /\ row = [e \in Executions |-> "running"]

----------------------------------------------------------------------------
(* Turns of the loop.                                                      *)

\* What the loop awaits is over.  The wait for a slot polls, so it is over any time.
Resumes(e) ==
  \/ loop[e] \in {"idle", "throttled"}
  \/ loop[e] = "racing" /\ awaited[e] \ InFlight(e) # {}

\* execute() returns or throws: the row is written, the abort handle unregistered.
End(e, outcome) ==
  /\ loop' = [loop EXCEPT ![e] = "ended"]
  /\ awaited' = [awaited EXCEPT ![e] = {}]
  /\ row' = [row EXCEPT ![e] = outcome]

AllDone(e) == Pending(e) = {} /\ InFlight(e) = {}

\* Mutant: the drain is skipped.
Cut(e, error) == End(e, error)

\* drain(), and the throw of the first error.
Drain(e, error) ==
  IF InFlight(e) = {} THEN End(e, error)
  ELSE /\ loop' = [loop EXCEPT ![e] = "draining"]
       /\ awaited' = [awaited EXCEPT ![e] = InFlight(e)]
       /\ UNCHANGED row

\* The condition of the loop fails.
Leave(e) ==
  /\ Resumes(e) /\ AllDone(e)
  /\ IF firstError[e] # "none" THEN End(e, firstError[e])
     ELSE /\ loop' = [loop EXCEPT ![e] = "closing"]
          /\ awaited' = [awaited EXCEPT ![e] = {}]
          /\ UNCHANGED row
  /\ UNCHANGED <<nodeVars, firstError, aborted, flagged>>

\* Mutant: the cancellation is looked at only before the first nodes start.
MustStopAtFirst(e) ==
  firstError[e] # "none" \/ (loop[e] = "idle" /\ e \in aborted \union flagged)

\* Mutant: only the signal is looked at, which a handle that was not yet there missed.
MustStopBySignal(e) == firstError[e] # "none" \/ e \in aborted

MustStop(e) == firstError[e] # "none" \/ e \in aborted \union flagged

\* The turn finds an error or a cancellation and breaks.
Break(e) ==
  LET error == IF firstError[e] = "none" THEN "cancelled" ELSE firstError[e]
  IN /\ Resumes(e) /\ ~AllDone(e) /\ MustStop(e)
     /\ firstError' = [firstError EXCEPT ![e] = error]
     /\ aborted' = aborted \union {e}
     /\ Drain(e, error)
     /\ UNCHANGED <<nodeVars, flagged>>

\* Mutant: a dependency that has started is enough.
ReadyWhenStarted(e) ==
  {n \in Pending(e) : \A d \in DependsOn[n] : node[d] # "pending"}

Ready(e) == {n \in Pending(e) : DependsOn[n] \subseteq completed}

\* Whether n starts, with the nodes S before it started in this turn.
GetsSlot(n, S) ==
  n \in External => activeCount + Cardinality(S \intersect External) < LaneLimit

\* S is what the turn starts: ready nodes in order, within both limits; a node
\* that finds no slot is passed over.
Starts(e, S) ==
  \A n \in Ready(e) :
    LET before == {k \in S : k < n}
    IN n \in S <=> /\ Cardinality(InFlight(e) \union before) < MaxParallel
                   /\ GetsSlot(n, before)

\* The turn starts nodes and awaits; with nothing to await it waits for a slot, or
\* ends with GraphExecutionNoRunnableNodesError if no slot is what is missing.
StartReady(e) ==
  /\ Resumes(e) /\ ~AllDone(e) /\ ~MustStop(e)
  /\ \E S \in SUBSET Ready(e) :
       /\ Starts(e, S)
       /\ node' = [n \in Nodes |-> IF n \in S THEN "running" ELSE node[n]]
       /\ activeCount' = activeCount + Cardinality(S \intersect External)
       /\ IF InFlight(e) \union S # {}
          THEN /\ loop' = [loop EXCEPT ![e] = "racing"]
               /\ awaited' = [awaited EXCEPT ![e] = InFlight(e) \union S]
               /\ UNCHANGED row
          ELSE IF Ready(e) # {}
          THEN /\ loop' = [loop EXCEPT ![e] = "throttled"]
               /\ awaited' = [awaited EXCEPT ![e] = {}]
               /\ UNCHANGED row
          ELSE End(e, "failed")
  /\ UNCHANGED <<completed, artifacts, firstError, aborted, flagged>>

DrainEnds(e) ==
  /\ loop[e] = "draining" /\ awaited[e] \intersect InFlight(e) = {}
  /\ End(e, firstError[e])
  /\ UNCHANGED <<nodeVars, firstError, aborted, flagged>>

\* CONAI_GRAPH_ABORT_DRAIN_TIMEOUT_MS passes; the nodes run on.
DrainTimesOut(e) ==
  /\ loop[e] = "draining" /\ awaited[e] \intersect InFlight(e) # {}
  /\ End(e, firstError[e])
  /\ UNCHANGED <<nodeVars, firstError, aborted, flagged>>

\* compactCompletedGraphExecutionArtifacts ends or throws.
ClosingEnds(e) ==
  /\ loop[e] = "closing"
  /\ \E outcome \in {"completed", "failed"} : End(e, outcome)
  /\ UNCHANGED <<nodeVars, firstError, aborted, flagged>>

\* The queue is asked to cancel the execution, or stop() aborts it: the flag is
\* set, and the signal fires if the handle is registered.
Cancel(e) ==
  /\ e \notin flagged /\ loop[e] # "ended"
  /\ flagged' = flagged \union {e}
  /\ aborted' = IF loop[e] = "idle" THEN aborted ELSE aborted \union {e}
  /\ UNCHANGED <<loop, awaited, nodeVars, firstError, row>>

----------------------------------------------------------------------------
(* A node.                                                                 *)

\* isGraphExecutionAborted: asked of the registry of handles.
Refused(e) == loop[e] \notin {"idle", "ended"} /\ e \in aborted

\* saveArtifactBuffer up to its first await.
SaveBegins(n) ==
  /\ node[n] = "running" /\ n \notin artifacts /\ ~Refused(ExecutionOf[n])
  /\ node' = [node EXCEPT ![n] = "saving"]
  /\ UNCHANGED <<loop, awaited, completed, artifacts, activeCount, firstError, aborted,
                 flagged, row>>

\* Its INSERT.
SaveEnds(n) ==
  /\ node[n] = "saving"
  /\ node' = [node EXCEPT ![n] = "running"]
  /\ artifacts' = artifacts \union {n}
  /\ UNCHANGED <<loop, awaited, completed, activeCount, firstError, aborted, flagged, row>>

\* executeNode resolves: the node may not have looked at the signal at all.
NodeCompletes(n) ==
  /\ node[n] = "running"
  /\ node' = [node EXCEPT ![n] = "settling"]
  /\ completed' = completed \union {n}
  /\ UNCHANGED <<loop, awaited, artifacts, activeCount, firstError, aborted, flagged, row>>

\* executeNode rejects, and failNode keeps the first error: a failure, or a stop
\* node, a cancelled generation job or the abort of the execution.
NodeFails(n) ==
  LET e == ExecutionOf[n]
  IN /\ node[n] \in {"running", "saving"}
     /\ node' = [node EXCEPT ![n] = "settling"]
     /\ \E error \in {"failed", "cancelled"} :
          firstError' = [firstError EXCEPT ![e] = IF @ = "none" THEN error ELSE @]
     /\ aborted' = aborted \union {e}
     /\ UNCHANGED <<loop, awaited, completed, artifacts, activeCount, flagged, row>>

\* Mutant: a node that failed keeps its slot.
GoneKeepingSlot(n) ==
  /\ node[n] = "settling"
  /\ node' = [node EXCEPT ![n] = "gone"]
  /\ activeCount' = IF n \in External \intersect completed THEN activeCount - 1
                    ELSE activeCount
  /\ UNCHANGED <<loop, awaited, completed, artifacts, firstError, aborted, flagged, row>>

\* The finally handler: the slot is free, the node leaves runningNodes.
Gone(n) ==
  /\ node[n] = "settling"
  /\ node' = [node EXCEPT ![n] = "gone"]
  /\ activeCount' = IF n \in External /\ activeCount > 0 THEN activeCount - 1
                    ELSE activeCount
  /\ UNCHANGED <<loop, awaited, completed, artifacts, firstError, aborted, flagged, row>>

----------------------------------------------------------------------------
Turn(e) == Leave(e) \/ Break(e) \/ StartReady(e)
NodeStep(n) == SaveBegins(n) \/ SaveEnds(n) \/ NodeCompletes(n) \/ NodeFails(n) \/ Gone(n)

Next ==
  \/ \E e \in Executions :
       Turn(e) \/ DrainEnds(e) \/ DrainTimesOut(e) \/ ClosingEnds(e) \/ Cancel(e)
  \/ \E n \in Nodes : NodeStep(n)

Spec == Init /\ [][Next]_vars

\* Continuations run, the drain timer and the poll for a slot fire, a node ends.
Fairness ==
  /\ \A e \in Executions :
       WF_vars(Turn(e)) /\ WF_vars(DrainEnds(e) \/ DrainTimesOut(e)) /\ WF_vars(ClosingEnds(e))
  /\ \A n \in Nodes : WF_vars(NodeStep(n))

FairSpec == Spec /\ Fairness

----------------------------------------------------------------------------
(* Properties.                                                             *)

TypeOK ==
  /\ loop \in [Executions -> Suspensions]
  /\ awaited \in [Executions -> SUBSET Nodes]
  /\ node \in [Nodes -> NodeStates]
  /\ completed \subseteq Nodes /\ artifacts \subseteq Nodes
  /\ activeCount \in Nat
  /\ firstError \in [Executions -> {"none", "failed", "cancelled"}]
  /\ aborted \subseteq Executions /\ flagged \subseteq Executions
  /\ row \in [Executions -> {"running", "completed", "failed", "cancelled"}]

\* The lane's counter is the number of its nodes in flight, over all executions and
\* with those that outlived a drain: no slot is lost, and none is given twice.
SlotsExact ==
  /\ activeCount = Cardinality({n \in External : node[n] \in InFlightStates})
  /\ activeCount <= LaneLimit

\* A node is in flight or done only after everything it depends on.
DependenciesMet ==
  \A n \in Nodes : node[n] # "pending" => DependsOn[n] \subseteq completed

\* A node that is over has completed or left an error; an error aborts.
ErrorsKept ==
  /\ \A n \in Nodes : node[n] \in {"settling", "gone"} =>
       n \in completed \/ firstError[ExecutionOf[n]] # "none"
  /\ \A n \in completed : node[n] \in {"settling", "gone"}
  /\ \A e \in Executions : firstError[e] # "none" => e \in aborted

\* What each suspension of the loop knows of its nodes.
LoopMatchesNodes ==
  \A e \in Executions :
    /\ Cardinality(InFlight(e)) <= MaxParallel
    /\ awaited[e] \subseteq NodesOf(e)
    /\ loop[e] = "idle" => Pending(e) = NodesOf(e) /\ e \notin aborted
    /\ loop[e] = "racing" => InFlight(e) \subseteq awaited[e] /\ awaited[e] # {}
    /\ loop[e] \in {"throttled", "closing"} => InFlight(e) = {} /\ firstError[e] = "none"
    /\ loop[e] = "closing" => NodesOf(e) \subseteq completed
    /\ loop[e] = "draining" => firstError[e] # "none" /\ InFlight(e) \subseteq awaited[e]
    /\ row[e] = "running" <=> loop[e] # "ended"

\* A row says completed only if every node has completed and nothing is in flight,
\* and an execution never ends without an error, or for want of runnable nodes.
EndsForAReason ==
  \A e \in Executions : loop[e] = "ended" =>
    IF firstError[e] = "none"
    THEN NodesOf(e) \subseteq completed /\ InFlight(e) = {} /\ row[e] \in {"completed", "failed"}
    ELSE row[e] = firstError[e]

IInv ==
  TypeOK /\ SlotsExact /\ DependenciesMet /\ ErrorsKept /\ LoopMatchesNodes /\ EndsForAReason

\* No node starts once an error is known or a cancellation was asked for, whichever
\* of the waits the loop came from.
NoStartAfterStop ==
  [][\A n \in Nodes :
       LET e == ExecutionOf[n]
       IN node[n] = "pending" /\ (firstError[e] # "none" \/ e \in aborted \union flagged)
            => node'[n] = "pending"]_vars

\* Unless the drain timed out, a row is decided only when nothing is in flight.
DecidedWhenQuiet ==
  [][\A e \in Executions :
       row[e] = "running" /\ row'[e] # "running" => InFlight(e) = {} \/ DrainTimesOut(e)]_vars

\* The loop, its drains and what follows it take an execution through the phases of
\* ExecutionLifecycle: told before its first node it starts none, told later it stays
\* told, it completes only by way of the compaction, and its row is final.
PhaseOf(e) ==
  CASE loop[e] = "idle" -> IF NodesOf(e) = {} THEN "working" ELSE "preparing"
    [] loop[e] = "closing" -> "closing"
    [] loop[e] = "ended" -> row[e]
    [] OTHER -> "working"
IsTold(e) == e \in flagged /\ loop[e] # "ended"

Lifecycle == INSTANCE ExecutionLifecycle
  WITH phase <- [e \in Executions |-> PhaseOf(e)], told <- [e \in Executions |-> IsTold(e)]
ImplementsLifecycle == Lifecycle!SpecTakenUp

\* Every execution ends, also when others hold all slots of the lane, fail, or leave
\* nodes behind.
EveryExecutionEnds == \A e \in Executions : <>(loop[e] = "ended")

\* "The late-write guard keeps blocking" the nodes that outlived the drain: none
\* passes the guard once the row is decided.
LateWritesRefused ==
  [][\A n \in Nodes : SaveBegins(n) => row[ExecutionOf[n]] = "running"]_vars
============================================================================
