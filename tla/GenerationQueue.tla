-------------------------- MODULE GenerationQueue --------------------------
(***************************************************************************)
(* The generation queue of the backend: rows of generation_queue_jobs, the *)
(* dispatcher that claims them, the worker of each claimed job, the        *)
(* cancellation route, the sweeper of abandoned cancellations, the orphan  *)
(* reconciler, and the crash and restart of the process.                   *)
(*                                                                         *)
(* Every database statement is atomic (better-sqlite3 is synchronous) and  *)
(* JavaScript interleaves only at an await, so an action is the code       *)
(* between two awaits.  A crash that falls between two statements of one   *)
(* action is the action TornCrash.                                         *)
(*                                                                         *)
(* Modelled: ComfyUI servers (not the Modal backend), NovelAI and Codex.   *)
(* The upstream service is external: it is modelled from how the executors *)
(* use it.                                                                 *)
(***************************************************************************)
EXTENDS Integers, FiniteSets

CONSTANTS
  NumJobs,      \* rows that may ever be created; ids are given in order
  ServiceOf,    \* the service_type of each row
  Priority,     \* the priority of each row; a lower one is served first
  WorkerLimit,  \* concurrent workers per service
  Awaited,      \* jobs some caller (a graph run, a tool) may wait for
  MaxCrashes    \* bound: how often the process may end

Jobs == 1..NumJobs
Services == {"comfyui", "novelai", "codex"}

ASSUME NumJobsAssumption == NumJobs \in Nat
ASSUME ServiceOfAssumption == ServiceOf \in [Jobs -> Services]
ASSUME PriorityAssumption == Priority \in [Jobs -> Int]
ASSUME WorkerLimitAssumption == WorkerLimit \in [Services -> Nat]
ASSUME AwaitedAssumption == Awaited \subseteq Jobs
ASSUME MaxCrashesAssumption == MaxCrashes \in Nat

VARIABLES
  \* the row of each job (durable)
  status,           \* "absent" until the row is created
  cancelRequested,
  submitState,      \* provider_submit_state
  failureCode,
  retryOf,          \* history: the row an unforced retry copied, 0 for none
  \* the process (lost in a crash)
  mode,             \* "up" (started), "draining" (stop() called), "down"
  probing,          \* a ComfyUI dispatch pass is past its check of `started`
  worker,           \* where the worker of each job is suspended
  owned,            \* keys of QueueCancellationRegistry.controllers
  aborted,          \* jobs whose worker holds an aborted signal
  cancelling,       \* jobs with a cancellation route waiting for upstream
  reconciling,      \* candidates the running reconcile pass has still to do
  waiters,          \* jobs some caller waits for in waitForTerminalJob
  \* the upstream service (external) and history
  upstream,         \* what exists upstream for the job
  posts,            \* history: how often the job was handed to the service
  crashes

rowVars == <<status, cancelRequested, submitState, failureCode, retryOf>>
processVars == <<mode, probing>>
signalVars == <<owned, aborted>>
upstreamVars == <<upstream, posts>>
vars == <<rowVars, processVars, worker, signalVars, cancelling, reconciling, waiters,
          upstreamVars, crashes>>

Running == {"dispatching", "running"}
Active == {"queued"} \union Running
Terminal == {"completed", "failed", "cancelled"}
Statuses == {"absent"} \union Active \union Terminal

SubmitStates == {"none", "in_flight", "accepted", "orphan_suspected",
                 "orphan_unresolved", "cancel_confirmed"}
UnresolvedSubmitStates == {"in_flight", "orphan_suspected"}
ReconcileStates == {"orphan_suspected"}
RecoverableSubmitStates == {"in_flight", "accepted", "orphan_suspected"}

FailureCodes == {"none", "execution_failed", "nai_submit_ambiguous",
                 "process_restarted"}

Stages == {"idle", "preparing", "submitting", "posting", "waiting", "saving",
           "compensating", "failing", "failing_ambiguous", "cancelling"}
Unwinding == {"failing", "failing_ambiguous", "cancelling"}

\* "sending": the request has left and may still arrive; "alive": the service
\* holds the work; "stopped": deleted, interrupted or killed.
UpstreamStates == {"none", "sending", "alive", "finished", "stopped"}
Accepted == {"alive", "finished", "stopped"}

Init ==
  /\ status = [j \in Jobs |-> "absent"]
  /\ cancelRequested = [j \in Jobs |-> FALSE]
  /\ submitState = [j \in Jobs |-> "none"]
  /\ failureCode = [j \in Jobs |-> "none"]
  /\ retryOf = [j \in Jobs |-> 0]
  /\ mode = "up"
  /\ probing = FALSE
  /\ worker = [j \in Jobs |-> "idle"]
  /\ owned = {}
  /\ aborted = {}
  /\ cancelling = {}
  /\ reconciling = {}
  /\ waiters = {}
  /\ upstream = [j \in Jobs |-> "none"]
  /\ posts = [j \in Jobs |-> 0]
  /\ crashes = 0

----------------------------------------------------------------------------
(* The transition funnel: the only way a running process moves a job to a  *)
(* terminal status.                                                        *)

AllowedTransitions ==
  ({"queued"} \X {"dispatching", "cancelled", "failed"})
    \union ({"dispatching"} \X {"queued", "running", "cancelled", "failed"})
    \union ({"running"} \X {"completed", "cancelled", "failed"})

\* The submit state a transition leaves, from the one the row has: a cancelled
\* job whose upstream side is open is marked unresolved.
SubmitAfter(next, submit) ==
  IF next = "cancelled" /\ submit \in UnresolvedSubmitStates
  THEN "orphan_unresolved" ELSE submit

\* Mutant: only a completed job wakes its waiters.
TransitionWakingCompleted(j, next, submit, code) ==
  /\ <<status[j], next>> \in AllowedTransitions
  /\ status' = [status EXCEPT ![j] = next]
  /\ submitState' = [submitState EXCEPT ![j] = SubmitAfter(next, submit)]
  /\ cancelRequested' = [cancelRequested EXCEPT ![j] = @ \/ next = "cancelled"]
  /\ failureCode' = [failureCode EXCEPT ![j] = IF next = "failed" THEN code ELSE @]
  /\ waiters' = IF next = "completed" THEN waiters \ {j} ELSE waiters

\* transitionJob(j, next) on a row whose submit state is already `submit`.
TransitionJob(j, next, submit, code) ==
  /\ <<status[j], next>> \in AllowedTransitions
  /\ status' = [status EXCEPT ![j] = next]
  /\ submitState' = [submitState EXCEPT ![j] = SubmitAfter(next, submit)]
  /\ cancelRequested' = [cancelRequested EXCEPT ![j] = @ \/ next = "cancelled"]
  /\ failureCode' = [failureCode EXCEPT ![j] = IF next = "failed" THEN code
                                               ELSE IF next = "completed" THEN "none"
                                               ELSE @]
  /\ waiters' = IF next \in Terminal THEN waiters \ {j} ELSE waiters

MarkSubmit(j, submit) == submitState' = [submitState EXCEPT ![j] = submit]
Goto(j, stage) == worker' = [worker EXCEPT ![j] = stage]

----------------------------------------------------------------------------
(* Creating rows.                                                          *)

NextId(j) == status[j] = "absent" /\ \A k \in 1..(j - 1) : status[k] # "absent"

Enqueue(j) ==
  /\ mode # "down"
  /\ NextId(j)
  /\ status' = [status EXCEPT ![j] = "queued"]
  /\ UNCHANGED <<cancelRequested, submitState, failureCode, retryOf, processVars, worker,
                 signalVars, cancelling, reconciling, waiters, upstreamVars, crashes>>

\* Mutant: a doubtful submission is known by its failure code alone.
AmbiguousByFailureCode(o) == failureCode[o] = "nai_submit_ambiguous"

\* A NovelAI submission that may have been charged.
AmbiguousNaiSubmit(o) ==
  \/ failureCode[o] = "nai_submit_ambiguous"
  \/ ServiceOf[o] = "novelai" /\ submitState[o] = "orphan_unresolved"

RetryJob(o, j, force) ==
  /\ mode # "down"
  /\ status[o] \in {"failed", "cancelled"}
  /\ AmbiguousNaiSubmit(o) => force
  /\ NextId(j) /\ ServiceOf[j] = ServiceOf[o]
  /\ status' = [status EXCEPT ![j] = "queued"]
  /\ retryOf' = [retryOf EXCEPT ![j] = IF force THEN 0 ELSE o]
  /\ UNCHANGED <<cancelRequested, submitState, failureCode, processVars, worker,
                 signalVars, cancelling, reconciling, waiters, upstreamVars, crashes>>

----------------------------------------------------------------------------
(* The dispatcher.                                                         *)

Claimable(j) == status[j] = "queued" /\ ~cancelRequested[j]
ServedBefore(j, k) == \/ Priority[j] < Priority[k]
                      \/ Priority[j] = Priority[k] /\ j < k
BusyWorkers(s) == {j \in Jobs : worker[j] # "idle" /\ ServiceOf[j] = s}

\* A ComfyUI dispatch pass checks that the service is started and has work, then
\* awaits the probes of its servers; it does not check again.
StartProbe ==
  /\ mode = "up" /\ ~probing
  /\ \E j \in Jobs : ServiceOf[j] = "comfyui" /\ status[j] = "queued"
  /\ probing' = TRUE
  /\ UNCHANGED <<rowVars, mode, worker, signalVars, cancelling, reconciling, waiters,
                 upstreamVars, crashes>>

EndProbe ==
  /\ probing
  /\ probing' = FALSE
  /\ UNCHANGED <<rowVars, mode, worker, signalVars, cancelling, reconciling, waiters,
                 upstreamVars, crashes>>

\* The dispatcher of the service of j is at work.
Dispatching(j) == IF ServiceOf[j] = "comfyui" THEN probing ELSE mode = "up"

\* The claim and the registration of the worker's abort controller.  A NovelAI
\* or Codex claim takes the first row of the service; which ComfyUI row is next
\* depends on the routing to servers, so any may be.
ClaimNextJob(j) ==
  /\ Dispatching(j)
  /\ Claimable(j)
  /\ ServiceOf[j] # "comfyui" =>
       \A k \in Jobs \ {j} :
         Claimable(k) /\ ServiceOf[k] = ServiceOf[j] => ServedBefore(j, k)
  /\ Cardinality(BusyWorkers(ServiceOf[j])) < WorkerLimit[ServiceOf[j]]
  /\ status' = [status EXCEPT ![j] = "dispatching"]
  /\ Goto(j, "preparing")
  /\ owned' = owned \union {j}
  /\ aborted' = aborted \ {j}
  /\ UNCHANGED <<cancelRequested, submitState, failureCode, retryOf, processVars,
                 cancelling, reconciling, waiters, upstreamVars, crashes>>

\* No active server matches the target of a queued ComfyUI job.
FailUnroutable(j) ==
  /\ probing
  /\ ServiceOf[j] = "comfyui" /\ status[j] = "queued"
  /\ TransitionJob(j, "failed", submitState[j], "execution_failed")
  /\ UNCHANGED <<retryOf, processVars, worker, signalVars, cancelling, reconciling,
                 upstreamVars, crashes>>

----------------------------------------------------------------------------
(* The worker of a claimed job, up to the answer of the upstream service.  *)

\* What a worker's await leaves alone.
UnchangedByWorker ==
  UNCHANGED <<cancelRequested, failureCode, retryOf, processVars, signalVars,
              cancelling, reconciling, waiters, crashes>>

PrepareFails(j) ==
  /\ worker[j] = "preparing"
  /\ Goto(j, "failing")
  /\ UnchangedByWorker /\ UNCHANGED <<status, submitState, upstreamVars>>

\* The intent to submit is committed before anything is sent; NovelAI and Codex
\* jobs also start running here.
Submit(j) ==
  /\ worker[j] = "preparing"
  /\ ServiceOf[j] = "novelai" => j \notin aborted
  /\ ServiceOf[j] # "comfyui" => status[j] = "dispatching"
  /\ MarkSubmit(j, IF status[j] = "dispatching" THEN "in_flight" ELSE submitState[j])
  /\ status' = [status EXCEPT ![j] = IF ServiceOf[j] = "comfyui" THEN @ ELSE "running"]
  /\ Goto(j, "submitting")
  /\ UnchangedByWorker /\ UNCHANGED upstreamVars

\* The request leaves, unless the worker's signal is already aborted.
Send(j) ==
  /\ worker[j] = "submitting" /\ ServiceOf[j] # "codex" /\ j \notin aborted
  /\ upstream' = [upstream EXCEPT ![j] = "sending"]
  /\ posts' = [posts EXCEPT ![j] = @ + 1]
  /\ Goto(j, "posting")
  /\ UnchangedByWorker /\ UNCHANGED <<status, submitState>>

\* A Codex job is a local process; an aborted signal kills it as it is spawned.
Spawn(j) ==
  /\ worker[j] = "submitting" /\ ServiceOf[j] = "codex"
  /\ upstream' = [upstream EXCEPT ![j] = IF j \in aborted THEN "stopped" ELSE "alive"]
  /\ posts' = [posts EXCEPT ![j] = @ + 1]
  /\ MarkSubmit(j, "accepted")
  /\ Goto(j, "waiting")
  /\ UnchangedByWorker /\ UNCHANGED status

\* Mutant: every failed submission proves that the service has nothing.
CatchAsRejected(j, class) == MarkSubmit(j, "none") /\ Goto(j, "failing")

\* The catch block of an executor whose submission failed: "rejected" stands
\* for both classes that prove the service has nothing.
CatchSubmitFailure(j, class) ==
  LET open == submitState[j] = "in_flight"
      rejected == class = "rejected"
  IN \/ /\ ServiceOf[j] = "codex" \/ (ServiceOf[j] = "comfyui" /\ open /\ rejected)
        /\ MarkSubmit(j, "none") /\ Goto(j, "failing")
     \/ /\ ServiceOf[j] = "novelai" /\ open /\ ~rejected
        /\ MarkSubmit(j, "orphan_unresolved") /\ Goto(j, "failing_ambiguous")
     \/ /\ ServiceOf[j] = "comfyui" /\ open /\ ~rejected
        /\ MarkSubmit(j, "orphan_suspected") /\ Goto(j, "compensating")
     \/ /\ ServiceOf[j] # "codex"
        /\ ~open \/ (ServiceOf[j] = "novelai" /\ rejected)
        /\ UNCHANGED submitState /\ Goto(j, "failing")

\* Nothing left the process: the request was aborted or could not be built.
NotSent(j) ==
  /\ worker[j] = "submitting"
  /\ \E class \in {"rejected", "ambiguous"} :
       /\ j \in aborted => class = "ambiguous"
       /\ CatchSubmitFailure(j, class)
  /\ UnchangedByWorker /\ UNCHANGED <<status, upstreamVars>>

Refused(j) ==
  /\ worker[j] = "posting" /\ upstream[j] = "sending"
  /\ upstream' = [upstream EXCEPT ![j] = "none"]
  /\ CatchSubmitFailure(j, "rejected")
  /\ UnchangedByWorker /\ UNCHANGED <<status, posts>>

\* The answer is lost, late, or cut off by the abort signal.
AnswerLost(j) ==
  /\ worker[j] = "posting"
  /\ CatchSubmitFailure(j, "ambiguous")
  /\ UnchangedByWorker /\ UNCHANGED <<status, upstreamVars>>

\* NovelAI answers with the images, ComfyUI with a prompt id.
Answered(j) ==
  /\ worker[j] = "posting"
  /\ upstream[j] \in IF ServiceOf[j] = "novelai" THEN {"finished"} ELSE Accepted
  /\ IF ServiceOf[j] = "novelai"
     THEN MarkSubmit(j, "accepted") /\ UNCHANGED status
     ELSE IF status[j] = "dispatching"
          THEN MarkSubmit(j, "accepted") /\ status' = [status EXCEPT ![j] = "running"]
          ELSE UNCHANGED <<status, submitState>>
  /\ Goto(j, "waiting")
  /\ UnchangedByWorker /\ UNCHANGED upstreamVars

\* The compensating cancel of an ambiguous submission: it finds the prompt by
\* its marker, or gives up after its last attempt.
CompensateConfirms(j) ==
  /\ worker[j] = "compensating" /\ upstream[j] = "alive"
  /\ upstream' = [upstream EXCEPT ![j] = "stopped"]
  /\ MarkSubmit(j, "cancel_confirmed")
  /\ Goto(j, "failing")
  /\ UnchangedByWorker /\ UNCHANGED <<status, posts>>

CompensateGivesUp(j) ==
  /\ worker[j] = "compensating"
  /\ MarkSubmit(j, "orphan_unresolved")
  /\ Goto(j, "failing")
  /\ UnchangedByWorker /\ UNCHANGED <<status, upstreamVars>>

----------------------------------------------------------------------------
(* The worker from the answer to the end of the job.                       *)

\* The outputs are there and no cancellation is seen, so they may be saved.
Collect(j) ==
  /\ worker[j] = "waiting" /\ upstream[j] = "finished"
  /\ ~cancelRequested[j]
  /\ ServiceOf[j] = "comfyui" => j \notin aborted
  /\ Goto(j, "saving")
  /\ UnchangedByWorker /\ UNCHANGED <<status, submitState, upstreamVars>>

\* A ComfyUI worker sees the cancellation and tries to cancel upstream: the
\* prompt is stopped, the server runs prompts without ids, nothing is found (or,
\* on an abort during a poll, nothing is asked), or the attempt itself fails.
SeesCancelComfy(j) ==
  /\ worker[j] = "waiting" /\ ServiceOf[j] = "comfyui"
  /\ cancelRequested[j] \/ j \in aborted
  /\ \/ /\ upstream[j] = "alive"
        /\ upstream' = [upstream EXCEPT ![j] = "stopped"]
        /\ MarkSubmit(j, "cancel_confirmed") /\ Goto(j, "cancelling")
     \/ MarkSubmit(j, "orphan_suspected") /\ Goto(j, "cancelling") /\ UNCHANGED upstream
     \/ \E stage \in {"cancelling", "failing"} :
          Goto(j, stage) /\ UNCHANGED <<submitState, upstream>>
  /\ UnchangedByWorker /\ UNCHANGED <<status, posts>>

\* NovelAI and Codex have no upstream cancellation: the flag is read once, when
\* the outputs have come.
SeesCancel(j) ==
  /\ worker[j] = "waiting" /\ ServiceOf[j] # "comfyui"
  /\ cancelRequested[j] /\ upstream[j] = "finished"
  /\ IF ServiceOf[j] = "codex" THEN MarkSubmit(j, "none") ELSE UNCHANGED submitState
  /\ Goto(j, "cancelling")
  /\ UnchangedByWorker /\ UNCHANGED <<status, upstreamVars>>

\* The Codex process tree is killed by the abort signal or by its timeout.
CodexKilled(j) ==
  /\ worker[j] = "waiting" /\ ServiceOf[j] = "codex"
  /\ upstream[j] \in {"alive", "stopped"}
  /\ upstream' = [upstream EXCEPT ![j] = "stopped"]
  /\ MarkSubmit(j, "none") /\ Goto(j, "failing")
  /\ UnchangedByWorker /\ UNCHANGED <<status, posts>>

\* The service reports an error, or its outputs cannot be used; a stopped ComfyUI
\* prompt ends in its history as an error, and one that was accepted with errors of
\* some nodes, or whose bookkeeping then throws, is left behind as it is.
ExecutionFails(j) ==
  /\ worker[j] = "waiting"
  /\ upstream[j] \in {"finished", "stopped"} \/ ServiceOf[j] = "comfyui"
  /\ IF ServiceOf[j] = "codex" THEN MarkSubmit(j, "none") ELSE UNCHANGED submitState
  /\ Goto(j, "failing")
  /\ UnchangedByWorker /\ UNCHANGED <<status, upstreamVars>>

\* Polling a ComfyUI prompt is given up: a best-effort cancel of a prompt that
\* may still be alive.
Abandon(j) ==
  /\ worker[j] = "waiting" /\ ServiceOf[j] = "comfyui"
  /\ \/ /\ upstream[j] = "alive"
        /\ upstream' = [upstream EXCEPT ![j] = "stopped"]
        /\ MarkSubmit(j, "cancel_confirmed")
     \/ MarkSubmit(j, "orphan_suspected") /\ UNCHANGED upstream
  /\ Goto(j, "failing")
  /\ UnchangedByWorker /\ UNCHANGED <<status, posts>>

\* Saving ends early: a ComfyUI worker sees a cancellation, or saving throws.
SavingFails(j) ==
  /\ worker[j] = "saving"
  /\ \/ Goto(j, "failing")
     \/ /\ ServiceOf[j] = "comfyui" /\ (cancelRequested[j] \/ j \in aborted)
        /\ Goto(j, "cancelling")
  /\ IF ServiceOf[j] = "codex" THEN MarkSubmit(j, "none") ELSE UNCHANGED submitState
  /\ UnchangedByWorker /\ UNCHANGED <<status, upstreamVars>>

\* runClaimedJob returns: the worker gives up the job.
Release(j) ==
  /\ Goto(j, "idle")
  /\ owned' = owned \ {j}
  /\ UNCHANGED <<retryOf, processVars, aborted, cancelling, reconciling, upstreamVars, crashes>>

Complete(j) ==
  /\ worker[j] = "saving" /\ status[j] = "running"
  /\ TransitionJob(j, "completed", submitState[j], "none")
  /\ Release(j)

\* The catch block of runClaimedJob: cancelJobIfActive or failJobIfActive.
Finish(j) ==
  LET outcome == IF worker[j] = "cancelling" \/ cancelRequested[j]
                 THEN "cancelled" ELSE "failed"
      code == IF worker[j] = "failing_ambiguous"
              THEN "nai_submit_ambiguous" ELSE "execution_failed"
  IN /\ worker[j] \in Unwinding
     /\ IF status[j] \in Active
        THEN TransitionJob(j, outcome, submitState[j], code)
        ELSE UNCHANGED <<status, submitState, cancelRequested, failureCode, waiters>>
     /\ Release(j)

WorkerStep(j) ==
  \/ PrepareFails(j) \/ Submit(j) \/ Send(j) \/ Spawn(j) \/ NotSent(j)
  \/ Refused(j) \/ AnswerLost(j) \/ Answered(j)
  \/ CompensateConfirms(j) \/ CompensateGivesUp(j)
  \/ Collect(j) \/ SeesCancelComfy(j) \/ SeesCancel(j) \/ CodexKilled(j)
  \/ ExecutionFails(j) \/ Abandon(j) \/ SavingFails(j)
  \/ Complete(j) \/ Finish(j)

----------------------------------------------------------------------------
(* Cancellation: the route, the sweeper and the orphan reconciler.         *)

\* Mutant: the worker's signal is not aborted.
RequestWithoutAbort(j) ==
  /\ mode # "down" /\ status[j] \in Active
  /\ j \notin cancelling
  /\ IF status[j] = "queued"
     THEN TransitionJob(j, "cancelled", submitState[j], "none")
     ELSE /\ cancelRequested' = [cancelRequested EXCEPT ![j] = TRUE]
          /\ UNCHANGED <<status, submitState, failureCode, waiters>>
  /\ UNCHANGED <<retryOf, processVars, worker, signalVars, cancelling, reconciling,
                 upstreamVars, crashes>>

\* requestCancellation up to its await.  A queued job is cancelled on the spot;
\* for a ComfyUI job with a worker the route goes on to cancel upstream.
RequestCancellation(j) ==
  /\ mode # "down" /\ status[j] \in Active
  /\ j \notin cancelling
  /\ aborted' = aborted \union ({j} \intersect owned)
  /\ IF status[j] = "queued"
     THEN TransitionJob(j, "cancelled", submitState[j], "none") /\ UNCHANGED cancelling
     ELSE /\ cancelRequested' = [cancelRequested EXCEPT ![j] = TRUE]
          /\ cancelling' = IF ServiceOf[j] = "comfyui" THEN cancelling \union {j} ELSE cancelling
          /\ UNCHANGED <<status, submitState, failureCode, waiters>>
  /\ UNCHANGED <<retryOf, processVars, worker, owned, reconciling, upstreamVars, crashes>>

\* The answer to the route's own upstream cancellation, whatever became of the
\* job in the meantime.
CancellationAnswered(j) ==
  /\ j \in cancelling
  /\ cancelling' = cancelling \ {j}
  /\ \/ /\ upstream[j] = "alive"
        /\ upstream' = [upstream EXCEPT ![j] = "stopped"]
        /\ MarkSubmit(j, "cancel_confirmed")
     \/ MarkSubmit(j, "orphan_suspected") /\ UNCHANGED upstream
     \/ UNCHANGED <<submitState, upstream>>
  /\ UNCHANGED <<status, cancelRequested, failureCode, retryOf, processVars, worker, signalVars,
                 reconciling, waiters, posts, crashes>>

\* Mutant: the sweeper takes jobs that have a worker too.
FinalizeOwnedToo(j) ==
  /\ mode = "up"
  /\ cancelRequested[j] /\ status[j] \in Running
  /\ TransitionJob(j, "cancelled",
                   IF submitState[j] = "none" THEN "none" ELSE "orphan_suspected", "none")
  /\ UNCHANGED <<retryOf, processVars, worker, signalVars, cancelling, reconciling,
                 upstreamVars, crashes>>

\* Mutant: the sweeper leaves submitted jobs to others.
FinalizeUnsubmitted(j) ==
  /\ mode = "up"
  /\ cancelRequested[j] /\ status[j] \in Running
  /\ j \notin owned /\ submitState[j] = "none"
  /\ TransitionJob(j, "cancelled", "none", "none")
  /\ UNCHANGED <<retryOf, processVars, worker, signalVars, cancelling, reconciling,
                 upstreamVars, crashes>>

\* finalizeAbandonedCancellations for one candidate.  Its 30 second grace is left
\* out: a candidate may be old enough at any time.
FinalizeAbandoned(j) ==
  /\ mode = "up"
  /\ cancelRequested[j] /\ status[j] \in Running
  /\ j \notin owned
  /\ TransitionJob(j, "cancelled",
                   IF submitState[j] = "none" THEN "none" ELSE "orphan_suspected", "none")
  /\ UNCHANGED <<retryOf, processVars, worker, signalVars, cancelling, reconciling,
                 upstreamVars, crashes>>

\* A reconcile pass reads its candidates once and works through them in order.
StartReconcile ==
  /\ mode = "up" /\ reconciling = {}
  /\ reconciling' = {j \in Jobs : submitState[j] \in ReconcileStates}
  /\ UNCHANGED <<rowVars, processVars, worker, signalVars, cancelling, waiters,
                 upstreamVars, crashes>>

\* Mutant: a candidate that is not found stays as it is.
ReconcileLeavesNotFound(j) ==
  /\ j \in reconciling /\ \A k \in reconciling : j <= k
  /\ reconciling' = reconciling \ {j}
  /\ \/ /\ ServiceOf[j] = "comfyui" /\ upstream[j] = "alive"
        /\ upstream' = [upstream EXCEPT ![j] = "stopped"]
        /\ MarkSubmit(j, "cancel_confirmed")
     \/ upstream[j] # "alive" /\ UNCHANGED <<submitState, upstream>>
  /\ UNCHANGED <<status, cancelRequested, failureCode, retryOf, processVars, worker, signalVars,
                 cancelling, waiters, posts, crashes>>

ReconcileOneCandidate(j) ==
  /\ j \in reconciling /\ \A k \in reconciling : j <= k
  /\ reconciling' = reconciling \ {j}
  /\ \/ /\ ServiceOf[j] = "comfyui" /\ upstream[j] = "alive"
        /\ upstream' = [upstream EXCEPT ![j] = "stopped"]
        /\ MarkSubmit(j, "cancel_confirmed")
     \/ MarkSubmit(j, "orphan_unresolved") /\ UNCHANGED upstream
  /\ UNCHANGED <<status, cancelRequested, failureCode, retryOf, processVars, worker, signalVars,
                 cancelling, waiters, posts, crashes>>

----------------------------------------------------------------------------
(* Callers that wait for a job.                                            *)

WaitForTerminalJob(j) ==
  /\ j \in Awaited
  /\ mode # "down" /\ status[j] \in Active
  /\ waiters' = waiters \union {j}
  /\ UNCHANGED <<rowVars, processVars, worker, signalVars, cancelling, reconciling,
                 upstreamVars, crashes>>

WaiterTimesOut(j) ==
  /\ j \in waiters
  /\ waiters' = waiters \ {j}
  /\ UNCHANGED <<rowVars, processVars, worker, signalVars, cancelling, reconciling,
                 upstreamVars, crashes>>

----------------------------------------------------------------------------
(* The process: stop, crash and restart.                                   *)

\* stop(): every worker is aborted and forgotten, every waiter released; a dispatch
\* pass that awaits its probes goes on.
Stop ==
  /\ mode = "up" /\ crashes < MaxCrashes
  /\ mode' = "draining" /\ UNCHANGED probing
  /\ aborted' = aborted \union owned
  /\ owned' = {}
  /\ waiters' = {}
  /\ UNCHANGED <<rowVars, worker, cancelling, reconciling, upstreamVars, crashes>>

ProcessEnds ==
  /\ mode # "down" /\ crashes < MaxCrashes
  /\ crashes' = crashes + 1
  /\ mode' = "down" /\ probing' = FALSE
  /\ worker' = [j \in Jobs |-> "idle"]
  /\ owned' = {} /\ aborted' = {} /\ cancelling' = {} /\ reconciling' = {} /\ waiters' = {}
  /\ UNCHANGED <<failureCode, retryOf, upstreamVars>>

\* The process dies (in any mode), or exits once stopAndDrain is through or cut off.
Crash == ProcessEnds /\ UNCHANGED <<status, cancelRequested, submitState>>

\* It dies between two database statements of one step: between the flag and the
\* transition of a cancelled queued job, between the mark and the transition of a
\* swept job, or between the two statements of a NovelAI or Codex Submit.
TornCrash(j) ==
  /\ ProcessEnds
  /\ \/ /\ status[j] = "queued"
        /\ cancelRequested' = [cancelRequested EXCEPT ![j] = TRUE]
        /\ UNCHANGED <<status, submitState>>
     \/ /\ mode = "up" /\ cancelRequested[j] /\ status[j] \in Running /\ j \notin owned
        /\ submitState[j] # "none" /\ MarkSubmit(j, "orphan_suspected")
        /\ UNCHANGED <<status, cancelRequested>>
     \/ /\ worker[j] = "preparing" /\ status[j] = "dispatching"
        /\ \/ /\ ServiceOf[j] = "novelai" /\ j \notin aborted
              /\ MarkSubmit(j, "in_flight") /\ UNCHANGED status
           \/ /\ ServiceOf[j] = "codex"
              /\ status' = [status EXCEPT ![j] = "running"] /\ UNCHANGED submitState
        /\ UNCHANGED cancelRequested

\* Mutant: an interrupted job is queued again.
RequeueInterrupted(j, expired) ==
  IF status[j] \in Running THEN "queued" ELSE status[j]

\* recoverInterruptedJobs, one transaction.  `expired` are the submitted jobs that
\* are older than 24 hours.
RecoveredStatus(j, expired) ==
  IF status[j] = "queued" /\ cancelRequested[j] THEN "cancelled"
  ELSE IF j \in expired \/ (status[j] \in Running /\ submitState[j] = "none") THEN "failed"
  ELSE status[j]

Suspected(j, expired) ==
  status[j] \in Running /\ j \notin expired /\ submitState[j] \in RecoverableSubmitStates

RecoveredSubmitState(j, expired) ==
  IF j \in expired THEN "orphan_unresolved"
  ELSE IF Suspected(j, expired) THEN "orphan_suspected"
  ELSE submitState[j]

RecoveredFailureCode(j, expired) ==
  IF RecoveredStatus(j, expired) = "failed" /\ status[j] # "failed" /\ failureCode[j] = "none"
  THEN "process_restarted" ELSE failureCode[j]

\* start(): recovery, then the first reconcile pass reads its candidates.
Restart ==
  /\ mode = "down"
  /\ mode' = "up" /\ UNCHANGED probing
  /\ \E expired \in SUBSET {j \in Jobs : status[j] \in Running /\ submitState[j] # "none"} :
       /\ status' = [j \in Jobs |-> RecoveredStatus(j, expired)]
       /\ submitState' = [j \in Jobs |-> RecoveredSubmitState(j, expired)]
       /\ cancelRequested' = [j \in Jobs |-> cancelRequested[j] \/ Suspected(j, expired)]
       /\ failureCode' = [j \in Jobs |-> RecoveredFailureCode(j, expired)]
       /\ reconciling' = {j \in Jobs : RecoveredSubmitState(j, expired) \in ReconcileStates}
  /\ UNCHANGED <<retryOf, worker, signalVars, cancelling, waiters, upstreamVars, crashes>>

----------------------------------------------------------------------------
(* The upstream service: external, and it outlives the process.            *)

UpstreamStep(j) ==
  /\ \/ upstream[j] = "sending" /\ upstream' = [upstream EXCEPT ![j] = "alive"]
     \/ upstream[j] = "alive" /\ upstream' = [upstream EXCEPT ![j] = "finished"]
  /\ UNCHANGED <<rowVars, processVars, worker, signalVars, cancelling, reconciling, waiters,
                 posts, crashes>>

----------------------------------------------------------------------------

JobStep(j) ==
  \/ Enqueue(j) \/ ClaimNextJob(j) \/ FailUnroutable(j) \/ WorkerStep(j)
  \/ RequestCancellation(j) \/ CancellationAnswered(j) \/ FinalizeAbandoned(j)
  \/ ReconcileOneCandidate(j) \/ WaitForTerminalJob(j) \/ WaiterTimesOut(j)
  \/ TornCrash(j) \/ UpstreamStep(j)
  \/ \E o \in Jobs, force \in BOOLEAN : RetryJob(o, j, force)

Next == \/ \E j \in Jobs : JobStep(j)
        \/ StartProbe \/ EndProbe \/ StartReconcile \/ Stop \/ Crash \/ Restart

Spec == Init /\ [][Next]_vars

\* Every await of a worker settles (each upstream call has a timeout, a poll loop
\* a last attempt), the dispatcher and the reconciler run on timers, a stopped
\* process is ended, and a process that is down is started again.
Fairness ==
  /\ \A j \in Jobs : /\ WF_vars(WorkerStep(j))
                     /\ WF_vars(CancellationAnswered(j))
                     /\ WF_vars(FinalizeAbandoned(j))
                     /\ WF_vars(ReconcileOneCandidate(j))
  /\ WF_vars(StartReconcile)
  /\ WF_vars(mode = "draining" /\ Crash)
  /\ WF_vars(Restart)

FairSpec == Spec /\ Fairness

----------------------------------------------------------------------------
(* What the queue promises.                                                *)

TypeOK ==
  /\ status \in [Jobs -> Statuses]
  /\ cancelRequested \in [Jobs -> BOOLEAN]
  /\ submitState \in [Jobs -> SubmitStates]
  /\ failureCode \in [Jobs -> FailureCodes]
  /\ retryOf \in [Jobs -> {0} \union Jobs]
  /\ mode \in {"up", "draining", "down"}
  /\ probing \in BOOLEAN
  /\ worker \in [Jobs -> Stages]
  /\ owned \in SUBSET Jobs
  /\ aborted \in SUBSET Jobs
  /\ cancelling \in SUBSET Jobs
  /\ reconciling \in SUBSET Jobs
  /\ waiters \in SUBSET Jobs
  /\ upstream \in [Jobs -> UpstreamStates]
  /\ posts \in [Jobs -> Nat]
  /\ crashes \in Nat

\* A live worker is the only one that ends its job: while it is suspended, no
\* route, sweep, reconcile pass or recovery makes the row terminal, so its
\* outputs are never saved for a job that was already decided.
WorkerHasActiveJob ==
  \A j \in Jobs : worker[j] # "idle" => status[j] \in Running

\* A row is handed to the upstream service at most once, over every crash,
\* restart, cancellation and retry: an interrupted job is never run again
\* silently.
SubmittedAtMostOnce == \A j \in Jobs : posts[j] <= 1

\* Work that exists, or may still come to exist, upstream is always on record:
\* a row whose submit state is "none" (which recovery fails outright) has none.
EvidenceBeforeUpstream ==
  \A j \in Jobs : upstream[j] \in {"sending", "alive"} => submitState[j] # "none"

\* No caller is left waiting for a job that has ended: every path to a terminal
\* status of a running process wakes the waiters of the job.
NoWaiterOnTerminalJob ==
  \A j \in waiters : status[j] \in Active

\* A NovelAI job is never submitted twice behind the user's back: an unforced
\* retry copies a job that was never charged, or one whose charge was answered.
NoUnforcedDoubleCharge ==
  \A j \in Jobs :
    LET o == retryOf[j]
    IN o # 0 /\ ServiceOf[j] = "novelai" =>
         upstream[o] = "none" \/ submitState[o] = "accepted"

\* completed, failed and cancelled are final, over crashes and restarts too.
TerminalIsFinal ==
  [][\A j \in Jobs : status[j] \in Terminal => status'[j] = status[j]]_vars

\* Once a cancellation was requested no request leaves and no process is left alive
\* (one that is spawned is killed at once), although the worker is never interrupted
\* between its awaits.
NoSubmitAfterCancel ==
  [][\A j \in Jobs :
       upstream[j] = "none" /\ upstream'[j] \in {"sending", "alive"}
         => ~cancelRequested[j]]_vars

\* A requested cancellation ends the job, whoever was holding it and however
\* often the process dies.
CancelledJobEnds ==
  \A j \in Jobs : cancelRequested[j] ~> status[j] \in Terminal

\* A suspected orphan does not stay suspected.
OrphanIsSettled ==
  \A j \in Jobs : submitState[j] = "orphan_suspected"
                    ~> submitState[j] # "orphan_suspected"

----------------------------------------------------------------------------
(* What the comments of the code say and the code does not do.             *)

\* "The orphan reconciler takes over": a cancelled job whose work may be running
\* upstream is a candidate of the reconciler, or of a pass under way.
CancelledOrphanIsChased ==
  \A j \in Jobs :
    status[j] = "cancelled" /\ upstream[j] = "alive" /\ mode = "up"
      /\ worker[j] = "idle" /\ j \notin cancelling
      => submitState[j] \in ReconcileStates \/ j \in reconciling

============================================================================
