------------------------ MODULE GraphExecutionQueue ------------------------
(***************************************************************************)
(* The queue of graph workflow executions: rows of graph_executions, the   *)
(* dispatch of manual runs and of reservations, the worker of each claimed *)
(* execution, cancellation, stop() and the restart of the server, and the  *)
(* executions an MCP tool runs past the queue ("direct" inside the server, *)
(* "standalone" in a stdio process of its own).                            *)
(*                                                                         *)
(* An action is what one process runs between two awaits; a dispatch pass  *)
(* is synchronous.  The nodes of an execution are in GraphNodeScheduler.   *)
(***************************************************************************)
EXTENDS Integers, FiniteSets

CONSTANTS
  NumExecutions,  \* rows that may ever be created; ids are in order of creation
  Triggers,       \* the ways each of them may be started (one is picked)
  ScheduleOf,     \* the schedule of a reservation
  LanesOf,        \* the generation lanes its workflow occupies
  Lanes,
  LaneLimit,      \* the limit of each lane
  ScheduleLimit,  \* reservations.maxConcurrentJobs
  MaxStops,       \* bound: how often the server may end
  MaxForeground   \* bound: how often user generation work may begin

Executions == 1..NumExecutions

ASSUME NumExecutionsAssumption == NumExecutions \in Nat
ASSUME TriggersAssumption ==
         Triggers \subseteq [Executions -> {"manual", "schedule", "direct", "standalone"}]
ASSUME LanesOfAssumption == LanesOf \in [Executions -> SUBSET Lanes]
ASSUME LimitsAssumption ==
         LaneLimit \in [Lanes -> Nat \ {0}] /\ ScheduleLimit \in Nat \ {0}
ASSUME BoundsAssumption == MaxStops \in Nat /\ MaxForeground \in Nat

VARIABLES
  trigger,          \* how each execution is started
  status,           \* the rows (durable)
  mode,             \* the server: "up" (initialized), "draining" (stop()), "down"
  stage,            \* where the worker of each execution is suspended
  cancelRequested,  \* cancelRequestedExecutionIds
  timer,            \* processRetryTimer is set
  holding,          \* userQueuePolicy is 'hold_until_empty'
  foreground,       \* the generation queue has active jobs of users
  asked,            \* history: running jobs whose cancellation was accepted
  stops, begun      \* how often the server ended and user work began

queueVars == <<cancelRequested, timer>>
settingVars == <<holding, foreground, begun>>
vars == <<trigger, status, mode, stage, queueVars, settingVars, asked, stops>>

Terminal == {"completed", "failed", "cancelled"}
Statuses == {"absent", "queued", "running"} \union Terminal

\* "lookup": execute() awaits findReusableExecution, no abort handle is registered;
\* "nodes": in runReadyGraphNodes; "closing": compaction of the artifacts;
\* "settled": the row is decided, the finally of startJob has still to run.
Stages == {"idle", "lookup", "nodes", "closing", "settled"}

Triggered(t) == {e \in Executions : trigger[e] = t}
OfQueue == Triggered("manual") \union Triggered("schedule")

Init ==
  /\ trigger \in Triggers
  /\ status = [e \in Executions |-> "absent"]
  /\ mode = "down"
  /\ stage = [e \in Executions |-> "idle"]
  /\ cancelRequested = {}
  /\ timer = FALSE
  /\ holding \in BOOLEAN
  /\ foreground = FALSE
  /\ asked = {}
  /\ stops = 0
  /\ begun = 0

----------------------------------------------------------------------------
(* The dispatch pass, over rows st and workers wk.                         *)

QueuedIn(st, t) == {e \in Triggered(t) : st[e] = "queued"}
\* The keys of runningJobs of one trigger type.
RunningIn(wk, t) == {e \in Triggered(t) : wk[e] # "idle"}
Oldest(S) == {e \in S : \A k \in S : e <= k}

InLane(l, S) == {e \in S : l \in LanesOf[e]}

\* Mutant: the policy is not asked.
LimitWithoutPolicy(userWork) == IF ~(userWork \/ foreground) THEN ScheduleLimit ELSE 1

\* resolveScheduleConcurrencyLimit: user work is a manual execution that is queued
\* or running, or a user's generation job.
ReservationLimit(userWork) ==
  IF ~(userWork \/ foreground) THEN ScheduleLimit ELSE IF holding THEN 0 ELSE 1

\* Mutant: lanes are not counted.
FitsAnyLane(e, R, bound) == Cardinality(R) < bound

\* canDispatchScheduleJob, with the reservations R that run already.
Fits(e, R, bound) ==
  /\ Cardinality(R) < bound
  /\ \A l \in LanesOf[e] : Cardinality(InLane(l, R)) < LaneLimit[l]

\* S is what processQueue starts: the oldest manual execution unless one runs,
\* then the reservations, oldest first, as limit and lanes allow.  (What does
\* not fit in one scan of the loop does not fit in a later one.)
IsPass(S, st, wk) ==
  LET manual == QueuedIn(st, "manual")
      first == IF RunningIn(wk, "manual") = {} THEN Oldest(manual) ELSE {}
      userWork == manual # {} \/ RunningIn(wk, "manual") # {}
      running == RunningIn(wk, "schedule")
  IN /\ S \intersect Triggered("manual") = first
     /\ \A e \in QueuedIn(st, "schedule") :
          e \in S <=> Fits(e, running \union {k \in S \ first : k < e},
                           ReservationLimit(userWork))

\* processQueue(): each claimed execution runs to its first await; the timer is
\* set again if nothing was started and something is queued.
ProcessQueue(st, wk) ==
  \E S \in SUBSET (QueuedIn(st, "manual") \union QueuedIn(st, "schedule")) :
    /\ IsPass(S, st, wk)
    /\ status' = [e \in Executions |-> IF e \in S THEN "running" ELSE st[e]]
    /\ stage' = [e \in Executions |-> IF e \in S THEN "lookup" ELSE wk[e]]
    /\ timer' = (S = {} /\ \E e \in OfQueue : st[e] = "queued")

\* The same where the process may not own the queue any more.
ProcessIfOwned(st, wk) ==
  IF mode = "up" THEN ProcessQueue(st, wk)
  ELSE status' = st /\ stage' = wk /\ UNCHANGED timer

----------------------------------------------------------------------------
(* Requests.                                                               *)

SameRun(e, k) ==
  trigger[e] = trigger[k] /\ ScheduleOf[e] = ScheduleOf[k] /\ LanesOf[e] = LanesOf[k]

\* The next rows, up to the row `last`.
NextRows(last) == {e \in OfQueue : e <= last /\ status[e] = "absent"}
WithQueued(S) == [e \in Executions |-> IF e \in S THEN "queued" ELSE status[e]]

\* enqueue and enqueueMany: rows of one workflow and trigger, then one pass.
EnqueueMany(last) ==
  /\ mode # "down"
  /\ last \in NextRows(last) /\ \A e \in NextRows(last) : SameRun(e, last)
  /\ ProcessIfOwned(WithQueued(NextRows(last)), stage)
  /\ UNCHANGED <<trigger, mode, cancelRequested, settingVars, asked, stops>>

\* The process dies after the inserts and before the pass.
TornEnqueue(last) ==
  /\ mode # "down" /\ stops < MaxStops
  /\ last \in NextRows(last) /\ \A e \in NextRows(last) : SameRun(e, last)
  /\ status' = WithQueued(NextRows(last))
  /\ mode' = "down" /\ stops' = stops + 1
  /\ stage' = [e \in Executions |-> IF trigger[e] = "standalone" THEN stage[e] ELSE "idle"]
  /\ cancelRequested' = {} /\ timer' = FALSE /\ asked' = {}
  /\ UNCHANGED <<trigger, settingVars>>

\* An execution of the queue that runs, and whose row is not decided yet.
Working(e) == e \in OfQueue /\ stage[e] \notin {"idle", "settled"}

\* Mutant: the route only aborts the handle, which an execution that still looks
\* for reusable artifacts does not have yet.
CancelByHandle(e) ==
  /\ mode # "down"
  /\ status[e] \in {"queued", "running"}
  /\ status' = [status EXCEPT ![e] = IF @ = "queued" THEN "cancelled"
                                     ELSE IF ~Working(e) /\ mode = "up" THEN "failed" ELSE @]
  /\ cancelRequested' = IF Working(e) /\ stage[e] # "lookup"
                        THEN cancelRequested \union {e} ELSE cancelRequested
  /\ asked' = IF Working(e) THEN asked \union {e} ELSE asked
  /\ UNCHANGED <<trigger, mode, stage, timer, settingVars, stops>>

\* cancel(): a queued row is cancelled, a running job of the queue is asked to
\* stop, and any other running row counts as stranded and is failed.
Cancel(e) ==
  /\ mode # "down"
  /\ status[e] \in {"queued", "running"}
  /\ status' = [status EXCEPT ![e] = IF @ = "queued" THEN "cancelled"
                                     ELSE IF ~Working(e) /\ mode = "up" THEN "failed" ELSE @]
  /\ cancelRequested' = IF Working(e) THEN cancelRequested \union {e} ELSE cancelRequested
  /\ asked' = IF Working(e) THEN asked \union {e} ELSE asked
  /\ UNCHANGED <<trigger, mode, stage, timer, settingVars, stops>>

\* cancelQueuedByScheduleIds: the queued rows of a schedule, then its running jobs.
CancelSchedule(s) ==
  LET mine == {e \in Triggered("schedule") : ScheduleOf[e] = s}
  IN /\ mode # "down"
     /\ status' = [e \in Executions |-> IF e \in mine /\ status[e] = "queued"
                                        THEN "cancelled" ELSE status[e]]
     /\ cancelRequested' = cancelRequested \union {e \in mine : Working(e)}
     /\ asked' = asked \union {e \in mine : Working(e)}
     /\ UNCHANGED <<trigger, mode, stage, timer, settingVars, stops>>

\* The MCP tool execute_graph_workflow: the executor makes its own row, runs its
\* nodes, and tells the queue nothing.
StartDirect(e) ==
  /\ e \notin OfQueue /\ status[e] = "absent"
  /\ trigger[e] = "direct" => mode # "down"
  /\ status' = [status EXCEPT ![e] = "running"]
  /\ stage' = [stage EXCEPT ![e] = "nodes"]
  /\ UNCHANGED <<trigger, mode, queueVars, settingVars, asked, stops>>

\* The settings, and the jobs of users in the generation queue.
SetPolicy ==
  /\ holding' = ~holding
  /\ UNCHANGED <<trigger, status, mode, stage, queueVars, foreground, begun, asked, stops>>

ForegroundBegins ==
  /\ ~foreground /\ begun < MaxForeground
  /\ foreground' = TRUE /\ begun' = begun + 1
  /\ UNCHANGED <<trigger, status, mode, stage, queueVars, holding, asked, stops>>

ForegroundEnds ==
  /\ foreground
  /\ foreground' = FALSE
  /\ UNCHANGED <<trigger, status, mode, stage, queueVars, holding, begun, asked, stops>>

\* processRetryTimer fires.
Retry ==
  /\ timer
  /\ ProcessIfOwned(status, stage)
  /\ UNCHANGED <<trigger, mode, cancelRequested, settingVars, asked, stops>>

----------------------------------------------------------------------------
(* The worker of an execution.                                             *)

\* updateStatusIfActive: a decided row is left as it is.
Decide(e, outcome) ==
  status' = [status EXCEPT ![e] = IF @ \in Terminal THEN @ ELSE outcome]

\* finalizeExecutionStatus, or the backstop of runJob, and the return of execute().
Finalize(e, outcome) ==
  /\ Decide(e, outcome)
  /\ stage' = [stage EXCEPT ![e] = IF e \in OfQueue THEN "settled" ELSE "idle"]
  /\ UNCHANGED <<trigger, mode, queueVars, settingVars, asked, stops>>

\* execute() throws before it registers its abort handle.
LookupFails(e) ==
  /\ stage[e] = "lookup"
  /\ Finalize(e, "failed")

\* The nodes begin, unless the flag is set: the scheduler reads it first.
LookupEnds(e) ==
  /\ stage[e] = "lookup"
  /\ IF e \in cancelRequested
     THEN Finalize(e, "cancelled")
     ELSE /\ stage' = [stage EXCEPT ![e] = "nodes"]
          /\ UNCHANGED <<trigger, status, mode, queueVars, settingVars, asked, stops>>

\* Every node has completed; one may not have noticed an abort.
NodesComplete(e) ==
  /\ stage[e] = "nodes"
  /\ stage' = [stage EXCEPT ![e] = "closing"]
  /\ UNCHANGED <<trigger, status, mode, queueVars, settingVars, asked, stops>>

\* A node fails, or the execution is stopped: by a request, by the shutdown, by a
\* stop node, or by the cancellation of a generation job it waits for.
NodesStop(e) ==
  /\ stage[e] = "nodes"
  /\ \E outcome \in {"failed", "cancelled"} : Finalize(e, outcome)

ClosingEnds(e) ==
  /\ stage[e] = "closing"
  /\ \E outcome \in {"completed", "failed"} : Finalize(e, outcome)

\* Mutant: the end of a job starts no pass.
SettleQuietly(e) ==
  /\ stage[e] = "settled"
  /\ cancelRequested' = cancelRequested \ {e} /\ asked' = asked \ {e}
  /\ stage' = [stage EXCEPT ![e] = "idle"]
  /\ UNCHANGED <<trigger, status, timer, mode, settingVars, stops>>

\* The finally of startJob.
Settle(e) ==
  /\ stage[e] = "settled"
  /\ cancelRequested' = cancelRequested \ {e} /\ asked' = asked \ {e}
  /\ ProcessIfOwned(status, [stage EXCEPT ![e] = "idle"])
  /\ UNCHANGED <<trigger, mode, settingVars, stops>>

\* The stdio process ends while it executes.
StandaloneDies(e) ==
  /\ trigger[e] = "standalone" /\ stage[e] # "idle"
  /\ stage' = [stage EXCEPT ![e] = "idle"]
  /\ UNCHANGED <<trigger, status, mode, queueVars, settingVars, asked, stops>>

----------------------------------------------------------------------------
(* The server process.                                                     *)

\* stop() up to its await of the running jobs.
Stop ==
  /\ mode = "up" /\ stops < MaxStops
  /\ mode' = "draining" /\ timer' = FALSE
  /\ cancelRequested' = cancelRequested \union {e \in OfQueue : stage[e] # "idle"}
  /\ UNCHANGED <<trigger, status, stage, settingVars, asked, stops>>

\* The process ends: after the drain, by the forced exit, or in a crash.
Ends ==
  /\ mode # "down" /\ stops < MaxStops
  /\ mode' = "down" /\ stops' = stops + 1
  /\ stage' = [e \in Executions |-> IF trigger[e] = "standalone" THEN stage[e] ELSE "idle"]
  /\ cancelRequested' = {} /\ timer' = FALSE /\ asked' = {}
  /\ UNCHANGED <<trigger, status, settingVars>>

\* recoverInterruptedExecutions.
Recovered(st) == [e \in Executions |-> IF st[e] = "running" THEN "failed" ELSE st[e]]

\* start() of a new server process, which serves requests only afterwards.
Start ==
  /\ mode = "down"
  /\ mode' = "up"
  /\ ProcessQueue(Recovered(status), stage)
  /\ UNCHANGED <<trigger, cancelRequested, settingVars, asked, stops>>

----------------------------------------------------------------------------
WorkerStep(e) ==
  LookupFails(e) \/ LookupEnds(e) \/ NodesComplete(e) \/ NodesStop(e) \/ ClosingEnds(e)
    \/ Settle(e)

Next ==
  \/ \E last \in Executions : EnqueueMany(last) \/ TornEnqueue(last)
  \/ \E e \in Executions : Cancel(e) \/ StartDirect(e) \/ WorkerStep(e) \/ StandaloneDies(e)
  \/ \E e \in Executions : CancelSchedule(ScheduleOf[e])
  \/ SetPolicy \/ ForegroundBegins \/ ForegroundEnds \/ Retry
  \/ Stop \/ Ends \/ Start

Spec == Init /\ [][Next]_vars

\* Nodes and lookups end (an aborted one within the drain timeout), timers fire,
\* users' generation jobs end, a stopped server is ended and started again.
Fairness ==
  /\ \A e \in Executions : WF_vars(WorkerStep(e))
  /\ WF_vars(Retry) /\ WF_vars(ForegroundEnds)
  /\ WF_vars(mode = "draining" /\ Ends) /\ WF_vars(Start)

FairSpec == Spec /\ Fairness

----------------------------------------------------------------------------
(* Properties.                                                             *)

TypeOK ==
  /\ trigger \in [Executions -> {"manual", "schedule", "direct", "standalone"}]
  /\ status \in [Executions -> Statuses]
  /\ mode \in {"up", "draining", "down"}
  /\ stage \in [Executions -> Stages]
  /\ cancelRequested \subseteq OfQueue
  /\ timer \in BOOLEAN
  /\ holding \in BOOLEAN /\ foreground \in BOOLEAN
  /\ asked \subseteq OfQueue
  /\ stops \in Nat /\ begun \in Nat

\* The row of a job in runningJobs is running until the job decides it, and a
\* running row of the queue has its job while the server runs.
RowsMatchJobs ==
  \A e \in OfQueue :
    /\ stage[e] \in {"lookup", "nodes", "closing"} => status[e] = "running"
    /\ stage[e] = "settled" => status[e] \in Terminal
    /\ mode # "down" /\ status[e] = "running" => stage[e] # "idle"
    /\ mode = "down" => stage[e] = "idle"

\* While the queue is up and something waits, the retry timer is pending or a job
\* runs whose end starts a pass: no execution waits for a pass nobody will make.
QueueIsWatched ==
  mode = "up" /\ (\E e \in OfQueue : status[e] = "queued")
    => timer \/ \E e \in OfQueue : stage[e] # "idle"

\* Every accepted cancellation, and all that stop() asks for, is on the flag set.
FlagsKeep ==
  /\ \A e \in asked : Working(e) => e \in cancelRequested
  /\ mode = "draining" => \A e \in OfQueue : Working(e) => e \in cancelRequested
  /\ \A e \in asked : stage[e] # "idle"

\* A flag is on the set only for a reason, and whatever runs has its row, past the
\* queue too.
FlagsAreMeant == \A e \in cancelRequested : e \in asked \/ mode = "draining"
JobsHaveRows == \A e \in Executions : stage[e] # "idle" => status[e] \notin {"absent", "queued"}

IInv == TypeOK /\ RowsMatchJobs /\ QueueIsWatched /\ FlagsKeep /\ FlagsAreMeant /\ JobsHaveRows

\* One manual run at a time, and reservations within their number and their
\* lanes, although each pass counts what earlier passes started.
LimitsHold ==
  LET running == {e \in Triggered("schedule") : stage[e] # "idle"}
  IN /\ Cardinality({e \in Triggered("manual") : stage[e] # "idle"}) <= 1
     /\ Cardinality(running) <= ScheduleLimit
     /\ \A l \in Lanes : Cardinality(InLane(l, running)) <= LaneLimit[l]

\* A reservation starts only in a step that leaves no manual run waiting with
\* nothing in its way, and under 'hold_until_empty' only if no manual run is
\* there at all.
ForegroundFirst ==
  [][\A e \in Triggered("schedule") :
       stage[e] = "idle" /\ stage'[e] = "lookup" =>
         /\ (\E k \in Triggered("manual") : status'[k] = "queued")
              => \E k \in Triggered("manual") : stage'[k] # "idle"
         /\ holding => \A k \in Triggered("manual") : stage'[k] = "idle"]_vars

\* completed, failed and cancelled are final, whoever decides the row first:
\* the worker, the route, or recovery.
TerminalIsFinal ==
  [][\A e \in Executions : status[e] \in Terminal => status'[e] = status[e]]_vars

\* Rows, workers and the flag set do what ExecutionLifecycle says, whoever decides a
\* row, accepts a cancellation, ends the server or recovers what it left: a running
\* row that nobody works on is an interrupted execution.
PhaseOfStage == [idle |-> "interrupted", lookup |-> "preparing", nodes |-> "working",
                 closing |-> "closing", settled |-> "interrupted"]
PhaseOf(e) ==
  IF status[e] = "running" THEN PhaseOfStage[stage[e]]
  ELSE IF status[e] = "queued" THEN "waiting" ELSE status[e]
IsTold(e) ==
  /\ status[e] = "running" /\ stage[e] \in {"lookup", "nodes", "closing"}
  /\ e \in asked \/ (mode = "draining" /\ e \in OfQueue)

Lifecycle == INSTANCE ExecutionLifecycle
  WITH phase <- [e \in Executions |-> PhaseOf(e)], told <- [e \in Executions |-> IsTold(e)]
ImplementsLifecycle == Lifecycle!Spec

\* A cancellation or a stop that comes before the abort handle exists is not
\* lost: no node of the execution starts.
NoNodesAfterCancel ==
  [][\A e \in OfQueue :
       stage[e] = "lookup" /\ (e \in asked \/ mode = "draining") => stage'[e] # "nodes"]_vars

\* An execution does not stay queued: held reservations are looked at again when
\* nothing else would start a pass, and after a restart.
QueuedStarts == \A e \in Executions : status[e] = "queued" ~> status[e] # "queued"

\* "Execution process is no longer active": what cancel() fails with this message
\* has no worker any more.
StrandedIsInactive ==
  [][\A e \in Executions :
       Cancel(e) /\ status[e] = "running" /\ status'[e] = "failed" => stage[e] = "idle"]_vars
============================================================================
