---------------------------- MODULE RuntimeJobs ----------------------------
(***************************************************************************)
(* Runtime jobs: the rows of runtime_jobs, the server process that starts  *)
(* and sweeps them, the child process of a job of a 'subprocess' kind, and *)
(* the end and restart of the server.                                      *)
(*                                                                         *)
(* The table is the only thing the processes share.  Every statement is    *)
(* atomic and JavaScript interleaves only at an await, so an action is the *)
(* code one process runs between two awaits.                               *)
(***************************************************************************)
EXTENDS Integers, FiniteSets

CONSTANTS
  Jobs,         \* rows that may ever be created
  Kinds,        \* singleton keys
  NoKey,        \* the singleton key null: any number may run
  KeyOf,        \* the singleton key of each job
  Execution,    \* 'inline' or 'subprocess', of each job's kind
  MaxRestarts,  \* bound: how often the server process may end
  MaxLate       \* bound: how many live workers may miss their heartbeats

ASSUME JobsAssumption == IsFiniteSet(Jobs)
ASSUME KeyOfAssumption == KeyOf \in [Jobs -> Kinds \union {NoKey}]
ASSUME ExecutionAssumption == Execution \in [Jobs -> {"inline", "subprocess"}]
ASSUME BoundsAssumption == MaxRestarts \in Nat /\ MaxLate \in Nat

VARIABLES
  \* the rows (durable)
  status,
  cancelRequested,
  stale,        \* jobs whose heartbeat_at is older than the sweep tolerates
  \* the processes
  server,       \* "up", "draining" (shutdownAndDrain waits), "down"
  worker,       \* "spawned": the child has not claimed the row yet; "running":
                \* in the handler; "exited": the exit event is still to come
  listener,     \* jobs whose child was spawned by the server process now alive
  controllers,  \* keys of localControllers of the server process
  aborted,      \* jobs whose handler holds an aborted signal
  awaited,      \* executions the shutdown waits for
  \* history and bounds
  late,         \* jobs whose heartbeat lapsed while their worker was alive
  restarts

rowVars == <<status, cancelRequested, stale>>
serverVars == <<server, controllers, aborted, awaited>>
childVars == <<worker, listener>>
vars == <<rowVars, serverVars, childVars, late, restarts>>

Live == {"queued", "running"}
Final == {"completed", "failed", "cancelled"}
Statuses == {"absent", "deleted"} \union Live \union Final

Inline == {j \in Jobs : Execution[j] = "inline"}
Children == {j \in Jobs : Execution[j] = "subprocess"}

Init ==
  /\ status = [j \in Jobs |-> "absent"]
  /\ cancelRequested = [j \in Jobs |-> FALSE]
  /\ stale = {}
  /\ server = "up"
  /\ worker = [j \in Jobs |-> "none"]
  /\ listener = {}
  /\ controllers = {}
  /\ aborted = {}
  /\ awaited = {}
  /\ late = {}
  /\ restarts = 0

----------------------------------------------------------------------------
(* Statements of the store.                                                *)

\* markCompleted, markFailed, markCancelled: only a live row is closed.
Close(j, outcome) ==
  status' = [status EXCEPT ![j] = IF @ \in Live THEN outcome ELSE @]

\* The partial unique index: no live row has the key.
KeyIsFree(j) ==
  \A k \in Jobs : KeyOf[k] = KeyOf[j] /\ KeyOf[j] # NoKey => status[k] \notin Live

----------------------------------------------------------------------------
(* The server process.                                                     *)

\* start() of an inline kind: the row is created and runJob claims it and
\* enters the handler before the first await.
StartInline(j) ==
  /\ server # "down"
  /\ j \in Inline /\ status[j] = "absent" /\ KeyIsFree(j)
  /\ status' = [status EXCEPT ![j] = "running"]
  /\ worker' = [worker EXCEPT ![j] = "running"]
  /\ controllers' = controllers \union {j}
  /\ UNCHANGED <<cancelRequested, stale, server, listener, aborted, awaited, late, restarts>>

\* start() of a 'subprocess' kind: the row is created and a child is spawned.
StartChild(j) ==
  /\ server # "down"
  /\ j \in Children /\ status[j] = "absent" /\ KeyIsFree(j)
  /\ status' = [status EXCEPT ![j] = "queued"]
  /\ worker' = [worker EXCEPT ![j] = "spawned"]
  /\ listener' = listener \union {j}
  /\ UNCHANGED <<cancelRequested, stale, serverVars, late, restarts>>

\* The same, where spawning throws.
StartChildThrows(j) ==
  /\ server # "down"
  /\ j \in Children /\ status[j] = "absent" /\ KeyIsFree(j)
  /\ status' = [status EXCEPT ![j] = "failed"]
  /\ UNCHANGED <<cancelRequested, stale, serverVars, childVars, late, restarts>>

\* The server dies between the insert and what start() does next.
TornStart(j) ==
  /\ server # "down" /\ restarts < MaxRestarts
  /\ status[j] = "absent" /\ KeyIsFree(j)
  /\ status' = [status EXCEPT ![j] = "queued"]
  /\ worker' = [k \in Jobs |->
                 IF k \in Inline \/ worker[k] = "exited" THEN "none" ELSE worker[k]]
  /\ server' = "down"
  /\ restarts' = restarts + 1
  /\ listener' = {} /\ controllers' = {} /\ aborted' = {} /\ awaited' = {}
  /\ UNCHANGED <<cancelRequested, stale, late>>

\* The 'error' event of spawn: the child never ran.
SpawnError(j) ==
  /\ j \in listener /\ worker[j] = "spawned"
  /\ Close(j, "failed")
  /\ worker' = [worker EXCEPT ![j] = "none"]
  /\ listener' = listener \ {j}
  /\ UNCHANGED <<cancelRequested, stale, serverVars, late, restarts>>

\* Mutant: only a job that was running is failed when its child is gone.
ExitSeenOnlyRunning(j) ==
  /\ worker[j] = "exited"
  /\ status' = [status EXCEPT ![j] = IF @ = "running" THEN "failed" ELSE @]
  /\ worker' = [worker EXCEPT ![j] = "none"]
  /\ listener' = listener \ {j}
  /\ UNCHANGED <<cancelRequested, stale, serverVars, late, restarts>>

\* The 'exit' event with a code other than 0.
ExitSeen(j) ==
  /\ worker[j] = "exited"
  /\ Close(j, "failed")
  /\ worker' = [worker EXCEPT ![j] = "none"]
  /\ listener' = listener \ {j}
  /\ UNCHANGED <<cancelRequested, stale, serverVars, late, restarts>>

\* cancel(): the flag of a live row, then the signal of a local handler.
Cancel(j) ==
  /\ server # "down"
  /\ status[j] \in Live /\ ~cancelRequested[j]
  /\ cancelRequested' = [cancelRequested EXCEPT ![j] = TRUE]
  /\ aborted' = aborted \union (controllers \intersect {j})
  /\ UNCHANGED <<status, stale, server, controllers, awaited, childVars, late, restarts>>

\* Mutant: only inline jobs are swept.
SweepInline ==
  /\ server = "up"
  /\ \E j \in Inline \intersect stale : status[j] = "running"
  /\ status' = [j \in Jobs |-> IF j \in Inline \intersect stale /\ status[j] = "running"
                               THEN "failed" ELSE status[j]]
  /\ UNCHANGED <<cancelRequested, stale, serverVars, childVars, late, restarts>>

\* The maintenance timer: sweepStaleJobs.
Sweep ==
  /\ server = "up"
  /\ \E j \in stale : status[j] = "running"
  /\ status' = [j \in Jobs |-> IF j \in stale /\ status[j] = "running"
                               THEN "failed" ELSE status[j]]
  /\ UNCHANGED <<cancelRequested, stale, serverVars, childVars, late, restarts>>

\* The maintenance timer: pruneExpired.
Prune(j) ==
  /\ server = "up" /\ status[j] \in Final
  /\ status' = [status EXCEPT ![j] = "deleted"]
  /\ UNCHANGED <<cancelRequested, stale, serverVars, childVars, late, restarts>>

----------------------------------------------------------------------------
(* The process that executes a job: the server for an inline job, else its *)
(* child.                                                                  *)

\* Mutant: the claim does not ask whether the row is still queued.
ClaimAnyRow(j) ==
  /\ worker[j] = "spawned"
  /\ status' = [status EXCEPT ![j] = "running"]
  /\ worker' = [worker EXCEPT ![j] = "running"]
  /\ UNCHANGED <<cancelRequested, stale, serverVars, listener, late, restarts>>

\* runExisting: the child claims its row and enters the handler, or leaves a
\* row it cannot claim alone and ends.
Claim(j) ==
  /\ worker[j] = "spawned"
  /\ IF status[j] = "queued"
     THEN /\ status' = [status EXCEPT ![j] = "running"]
          /\ worker' = [worker EXCEPT ![j] = "running"]
          /\ listener' = listener
     ELSE /\ worker' = [worker EXCEPT ![j] = "none"]
          /\ listener' = listener \ {j}
          /\ status' = status
  /\ UNCHANGED <<cancelRequested, stale, serverVars, late, restarts>>

\* A heartbeat or a progress write of a live row.
Heartbeat(j) ==
  /\ worker[j] = "running" /\ status[j] \in Live /\ j \in stale
  /\ stale' = stale \ {j}
  /\ UNCHANGED <<status, cancelRequested, serverVars, childVars, late, restarts>>

\* The heartbeat of a running row grows older than the sweep tolerates: its
\* worker is gone, or is alive and held up (a blocked event loop, a suspended
\* machine).
HeartbeatLapses(j) ==
  /\ status[j] = "running" /\ j \notin stale
  /\ worker[j] = "running" => j \in late \/ Cardinality(late) < MaxLate
  /\ stale' = stale \union {j}
  /\ late' = IF worker[j] = "running" THEN late \union {j} ELSE late
  /\ UNCHANGED <<status, cancelRequested, serverVars, childVars, restarts>>

\* The execution of j ends: the finally block, and for a child its process.
EndExecution(j) ==
  /\ worker' = [worker EXCEPT ![j] = "none"]
  /\ listener' = listener \ {j}
  /\ controllers' = controllers \ {j}
  /\ aborted' = aborted \ {j}
  /\ awaited' = awaited \ {j}

\* The handler returns.
HandlerReturns(j) ==
  /\ worker[j] = "running"
  /\ Close(j, "completed")
  /\ EndExecution(j)
  /\ UNCHANGED <<cancelRequested, stale, server, late, restarts>>

\* How the row of a handler that throws is closed.  isCancelRequested() may
\* answer from a cache that is older than the request.
ThrowOutcomes(j) ==
  IF j \in aborted THEN {"cancelled"}
  ELSE IF cancelRequested[j] THEN {"cancelled", "failed"} ELSE {"failed"}

\* The handler throws: an error of its own, or RuntimeJobCancelledError.
HandlerThrows(j) ==
  /\ worker[j] = "running"
  /\ \E outcome \in ThrowOutcomes(j) : Close(j, outcome)
  /\ EndExecution(j)
  /\ UNCHANGED <<cancelRequested, stale, server, late, restarts>>

\* The child process ends without closing its row (a crash, a kill, a
\* database that does not open); only the process that spawned it is told.
ChildDies(j) ==
  /\ j \in Children /\ worker[j] \in {"spawned", "running"}
  /\ worker' = [worker EXCEPT ![j] = IF j \in listener THEN "exited" ELSE "none"]
  /\ UNCHANGED <<rowVars, serverVars, listener, late, restarts>>

----------------------------------------------------------------------------
(* The end and the restart of the server.                                  *)

\* Mutant: the rows are left to the handlers the shutdown waits for.
ShutdownLeavesRows ==
  /\ server = "up" /\ restarts < MaxRestarts
  /\ server' = "draining"
  /\ aborted' = aborted \union controllers
  /\ controllers' = {}
  /\ status' = status
  /\ awaited' = {j \in Inline : worker[j] = "running"}
  /\ UNCHANGED <<cancelRequested, stale, childVars, late, restarts>>

\* shutdownAndDrain(): the handlers are aborted, their rows are closed, and
\* the shutdown waits for the executions.  Nothing keeps start() from being
\* called by a request that is still served.
Shutdown ==
  /\ server = "up" /\ restarts < MaxRestarts
  /\ server' = "draining"
  /\ aborted' = aborted \union controllers
  /\ controllers' = {}
  /\ status' = [j \in Jobs |-> IF j \in controllers /\ status[j] \in Live
                               THEN "failed" ELSE status[j]]
  /\ awaited' = {j \in Inline : worker[j] = "running"}
  /\ UNCHANGED <<cancelRequested, stale, childVars, late, restarts>>

\* The process ends: everything it held in memory is lost, its children go on.
ServerEnds ==
  /\ server' = "down"
  /\ restarts' = restarts + 1
  /\ worker' = [j \in Jobs |->
                 IF j \in Inline \/ worker[j] = "exited" THEN "none" ELSE worker[j]]
  /\ listener' = {} /\ controllers' = {} /\ aborted' = {} /\ awaited' = {}
  /\ UNCHANGED <<rowVars, late>>

\* The drain is over, the databases are closed and the process exits.
Exit == server = "draining" /\ awaited = {} /\ restarts < MaxRestarts /\ ServerEnds

\* A crash, or the forced exit of a drain that took too long.
Crash == server # "down" /\ restarts < MaxRestarts /\ ServerEnds

LiveSubprocess(j) == j \in Children /\ j \notin stale

\* Mutant: recovery forgets that a child may still be alive.
RecoveredEveryRow(j) ==
  IF status[j] = "queued" /\ cancelRequested[j] THEN "cancelled"
  ELSE IF status[j] \in Live THEN "failed" ELSE status[j]

\* recoverInterruptedJobs of one row.  A queued row has no owner_role yet, so
\* it is never taken for the row of a live child.
RecoveredStatus(j) ==
  IF status[j] = "queued" /\ cancelRequested[j] THEN "cancelled"
  ELSE IF status[j] = "queued" \/ (status[j] = "running" /\ ~LiveSubprocess(j))
       THEN "failed" ELSE status[j]

\* bootstrap() of a new server process.
Boot ==
  /\ server = "down"
  /\ server' = "up"
  /\ status' = [j \in Jobs |-> RecoveredStatus(j)]
  /\ UNCHANGED <<cancelRequested, stale, controllers, aborted, awaited, childVars, late,
                 restarts>>

----------------------------------------------------------------------------
Next ==
  \/ \E j \in Jobs :
       \/ StartInline(j) \/ StartChild(j) \/ StartChildThrows(j) \/ TornStart(j)
       \/ SpawnError(j) \/ ExitSeen(j) \/ Cancel(j) \/ Prune(j)
       \/ Claim(j) \/ Heartbeat(j) \/ HeartbeatLapses(j)
       \/ HandlerReturns(j) \/ HandlerThrows(j) \/ ChildDies(j)
  \/ Sweep \/ Shutdown \/ Exit \/ Crash \/ Boot

\* The timers of a live server fire, its events are delivered, a row nobody
\* stamps grows stale, a drain is cut off by the forced exit, and a server
\* that ended is started again.
Fairness ==
  /\ WF_vars(Boot) /\ WF_vars(Sweep)
  /\ WF_vars(server = "draining" /\ Crash)
  /\ \A j \in Jobs :
       /\ WF_vars(ExitSeen(j)) /\ WF_vars(Claim(j))
       /\ WF_vars(worker[j] = "none" /\ HeartbeatLapses(j))

Spec == Init /\ [][Next]_vars
FairSpec == Spec /\ Fairness

----------------------------------------------------------------------------
(* The inductive invariant and the properties.                             *)

\* The unique index: at most one live row has a key.
UniqueLive ==
  \A j, k \in Jobs :
    j # k /\ KeyOf[j] = KeyOf[k] /\ KeyOf[j] # NoKey
      => ~(status[j] \in Live /\ status[k] \in Live)

\* A worker whose row is not running lost it to a sweep, a recovery or a
\* shutdown; and a worker whose heartbeat is old is known to be late.
WorkerHasRow ==
  \A j \in Jobs :
    worker[j] = "running" =>
      /\ status[j] = "running" \/ j \in late \union awaited
      /\ j \in stale => j \in late

\* What a job without a row, one that waits, or a server that is down cannot have.
Ownership ==
  /\ \A j \in stale : status[j] \notin {"absent", "queued"}
  /\ \A j \in aborted \union controllers : status[j] # "absent"
  /\ \A j \in Jobs : status[j] = "absent" => worker[j] = "none" /\ ~cancelRequested[j]
  /\ \A j \in Jobs : status[j] = "queued" => worker[j] # "running"
  /\ \A j \in Inline : worker[j] \in {"none", "running"}
  /\ server = "down" => \A j \in Inline : worker[j] = "none"

\* The abort of a job whose row is live was asked for by its user.
AbortOfLiveRow == \A j \in aborted : status[j] \in Live => cancelRequested[j]

\* The server that runs spawned the child of every queued row.
QueuedHasListener ==
  server # "down" => \A j \in Jobs : status[j] = "queued" => j \in listener

TypeOK ==
  /\ status \in [Jobs -> Statuses]
  /\ cancelRequested \in [Jobs -> BOOLEAN]
  /\ stale \subseteq Jobs
  /\ server \in {"up", "draining", "down"}
  /\ worker \in [Jobs -> {"none", "spawned", "running", "exited"}]
  /\ listener \subseteq Children
  /\ controllers \subseteq Inline
  /\ aborted \subseteq Inline
  /\ awaited \subseteq Inline
  /\ late \subseteq Jobs
  /\ restarts \in Nat

\* Two handlers of one singleton key are in progress at once only if the row
\* of one of them was closed under its worker, which takes a heartbeat that
\* lapsed or a shutdown that is waiting for it.  The unique index only sees
\* rows, so this rests on recovery, sweep, exit events and cancellation never
\* closing the row of a worker that still runs (start, recoverInterruptedJobs,
\* sweepStaleJobs, the exit listener).
OneHandlerPerKey ==
  \A j, k \in Jobs :
    /\ j # k /\ KeyOf[j] = KeyOf[k] /\ KeyOf[j] # NoKey
    /\ worker[j] = "running" /\ worker[k] = "running"
    => {j, k} \intersect (late \union awaited) # {}

\* While a server runs, every live row has somebody who will close it: its
\* worker, the exit event of its child, or the sweep.  A queued row is not
\* swept, so recovery and the exit listener must not leave one behind.
NoGhostRow ==
  server # "down" => \A j \in Jobs :
    /\ status[j] = "queued" => worker[j] \in {"spawned", "exited"}
    /\ status[j] = "running" /\ j \in Inline => worker[j] = "running"

\* A job is recorded as cancelled only when its cancellation was asked for.
\* The shutdown aborts handlers as well, and their catch blocks then record a
\* cancellation: the rows must be closed as interrupted before they run.
CancelledOnlyOnRequest ==
  \A j \in Jobs : status[j] = "cancelled" => cancelRequested[j]

\* What holds in every reachable state, strong enough to be kept by every step.
IInv ==
  /\ TypeOK
  /\ UniqueLive
  /\ WorkerHasRow
  /\ Ownership
  /\ AbortOfLiveRow
  /\ QueuedHasListener
  /\ NoGhostRow
  /\ CancelledOnlyOnRequest

\* A closed row is never opened or closed differently: a late worker, a late
\* exit event, a child that starts after recovery and a sweep all arrive after
\* the row may have been closed by another process.
ClosedIsFinal ==
  [][\A j \in Jobs : status[j] \in Final => status'[j] \in {status[j], "deleted"}]_vars

\* Whichever processes start, claim, cancel, sweep, recover, shut down, die and come
\* back, the rows and the handlers follow SingletonJobs: one open row for each key, a
\* handler entered once and by the claim of its row, an outcome nobody revises.
IsBusy(j) == worker[j] = "running"

Promise == INSTANCE SingletonJobs
  WITH phase <- status, asked <- cancelRequested, busy <- [j \in Jobs |-> IsBusy(j)]
ImplementsPromise == Promise!Spec

\* A live row without a worker is closed in the end, whichever process dies.
OrphanIsClosed ==
  \A j \in Jobs :
    (status[j] \in Live /\ worker[j] \in {"none", "exited"}) ~> (status[j] \notin Live)
============================================================================
