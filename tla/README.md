# Verification of the CoNAI backend

CoNAI is a self-hosted server that keeps an image library, generates images through ComfyUI,
NovelAI and Codex, runs workflows of such generations, and chats with language models. Its
backend (`src/backend/src`, TypeScript on one Node process with SQLite) is where the concurrency
is; the frontend only shows its state. This directory holds TLA+ models of the backend's
concurrent core, the TLC runs that check them on small instances, and proofs, checked by TLAPS,
of what matters most for every value of the constants.

Paths below are relative to the repository's `src/backend/src`.

## 1. How the code executes, and what an action is

- `better-sqlite3` is synchronous: a statement is atomic, and so is everything between two
  `await`s of one process. An action of a model is what one process does between two awaits.
- A process can die anywhere. Where two statements that belong together are not in a
  transaction, the death between them is an action of its own (`TornCrash` of GenerationQueue,
  `TornStart` of RuntimeJobs, `TornEnqueue` of GraphExecutionQueue) or the sequence is split into
  its statements (`InputStores`).
- A second process shares only the database: the child of a runtime job, an MCP stdio process.
- A state is durable (a row) or in memory (maps of abort controllers, flags, timers, promises);
  a crash keeps the first and loses the second.

## 2. Inventory

| Component (source) | State | Operations | Works with |
|---|---|---|---|
| Generation queue service (`services/generationQueueService.ts`, `generation-queue/queueTransitions.ts`, `queueCancellation.ts`, `queueTerminalWaiters.ts`) | row of a job: status, cancel flag, submit state, failure code; `started`, worker promises, waiters | enqueue, retry, dispatch, cancel, sweep of abandoned cancellations, wait, stop and drain, recovery | executors, reconciler, SQL model, graph executor |
| Job executors (`generation-queue/queueJobExecutors.ts`, `comfyGenerationExecutor.ts`, `codexGenerationExecutor.ts`) | where a worker is suspended | prepare, submit, wait, collect, classify a failure, compensate | upstream services |
| Orphan reconciler (`generation-queue/queueOrphanReconciler.ts`) | candidates of a pass | settle rows whose work may be running upstream | SQL model, ComfyUI |
| Runtime jobs (`services/runtimeJobs/`) | row: status, cancel flag, heartbeat; local controllers; child processes | start inline or as a child, claim, heartbeat, finish, cancel, sweep, recover, prune, shut down | maintenance tasks |
| LLM request scheduler (`services/llmRequestScheduler.ts`) | a pool per connection: active count, waiters | acquire, abort, release | chat, characters, background summaries |
| Graph execution queue (`services/graphWorkflowExecutionQueue.ts`, `models/GraphExecution.ts`) | rows, running jobs, requested cancellations, retry timer | enqueue runs and reservations, dispatch, cancel, stop, recover | schedules, executor, generation queue |
| Graph node scheduler (`graph-workflow-executor/node-scheduler.ts`, `execution-abort.ts`, `graphWorkflowExecutor.ts`) | nodes, first error, abort signals, slots of the lane | start ready nodes, wait, abort, drain, store artifacts | generation queue, artifacts |
| Queue input store (`generation-queue/queueInputStore.ts`) | files by content, claims of jobs | publish, claim, release, sweep | generation queue |
| Workflow input assets (`services/workflowInputAssetStore.ts`) | files with markers beside them, claims of jobs | upload, mark, copy for a node, claim, release, collect | routes, graph nodes, generation queue |
| Background queue (`services/backgroundQueue.ts`, `background-media/mediaPostprocessCoordinator.ts`, `mediaPostprocessVisibilityService.ts`, `autoTagScheduler.ts`, `runtimeJobs/handlers/metadataReextractHandler.ts`) | buckets of tasks, the map of extractions, timers; status and visibility of each row | add, run a batch, retry, answer, recover, re-extract the library | imports, runtime jobs, maintenance lock |
| Maintenance lock and hash rematch (`systemMaintenanceLockService.ts`, `dataRematchService.ts`) | owner of the lock | take, rename rows, release | background queue |
| Group chat room (`codex-chat/groupChatService.ts`, `chatOrderRuns.ts`, `chatOrderRunner.ts`) | the run of a room: who answers, who is queued, wakes used and promised; an order that holds it | send, route, answer, wake, ask the judge, stop, order | LLM scheduler, reactions |
| Generation reactions (`codex-chat/chatGenerationReactions.ts`, `chatReplyRegistry.ts`, part of `llmChatService.ts`) | a row per reply whose generations ended; the reaction that is being written | schedule, try, claim, react, skip, stop, recover | generation queue, chat room |
| ComfyUI client, Codex runner, routing and capacity, throttle | HTTP and process handles, counters | submit, cancel, choose a server, pace starts | generation queue |
| Graceful shutdown (`startup/gracefulShutdown.ts`) | order of the drains | stop every service | all services |
| Graph schedules | next run of each schedule | start reservations | graph queue |
| AI runtimes, watchers, routes, media, private chats, frontend | files, sessions, records | I/O and transformations | all of the above |

How they interact: a route or a schedule enqueues a graph execution; the graph queue claims it
and its executor starts nodes as their inputs complete; a generating node enqueues a job in the
generation queue and waits in `queueTerminalWaiters` for it to end; the generation queue's
worker hands the job to an upstream service, with inputs from the two stores, which the job
claims in the transaction that creates it. Cancellation goes down the same chain: the graph
queue sets a flag and fires an abort signal, the node's waiter cancels its job, the queue aborts
the worker. A shutdown stops them from the top. A member of a chat room may order generations too;
their end comes back to the room as a reaction. The runtime jobs, the LLM scheduler and the
background queue are independent of this chain; a runtime job re-extracts the library through the
background queue and waits for its answers.

What makes it hard: rows moved by workers, routes, sweeps and recovery between each other's
awaits; values read before an await and used after it (cancel flags, `started`, the abort
registry); answers that are lost after the service accepted the work (and charged for it); the
process dying with work alive upstream; drains with timeouts, after which abandoned work goes on;
limits that change while requests wait; and wake-ups, as almost nothing here polls. `PROJECT.json`
lists each hazard at its line with the properties that cover it.

What makes each component correct:

- **Generation queue**: a job has one owner, is handed to its service at most once, ends once;
  work that may exist upstream is on record; NovelAI is not charged twice unasked; a requested
  cancellation sends nothing more and ends the job; nobody waits for an ended job.
- **Runtime jobs**: one handler per singleton key; every live row has somebody who will close it;
  a closed row stays; cancelled means that somebody asked.
- **LLM scheduler**: no slot too many under changing limits, service in order, no waiter left
  beside a slot it could have.
- **Graph queue**: reservations within number and lanes and behind manual runs; no accepted
  cancellation lost; nothing stays queued; decided rows stay.
- **Input stores**: a job that may run or be retried finds its files; a copy waits for its node; a
  removed draft stays while an execution may read it.
- **Background queue**: one task per file and hash; queued work has somebody who will look at it; a
  failed extraction stays private; a pending row is decided and whoever waits is answered.
- **Chat room**: one writer at a time; the members' wakes and the connections' slots within their
  limits; nobody is woken after a stop; the room comes free; a reaction yields to the user, is tried
  once, and is written or denied in the end.
- **Node scheduler**: dependencies first; slots counted exactly over failures and late nodes;
  nothing starts after the first error; every execution ends, and for a reason.

## 3. Modules

| Module | What it is |
|---|---|
| `GenerationQueue` | service, executors, reconciler, crash and restart, over an external upstream service |
| `JobLifecycle` | the abstract specification of a job: it waits, is taken up while unasked, runs once, ends once |
| `GenerationQueueInvariant` | the inductive invariant and the mapping to `JobLifecycle` |
| `GenerationQueueProofs` | its safety theorems and the refinement |
| `RuntimeJobs`, `RuntimeJobsProofs` | the server, its children and the table between them |
| `SingletonJobs` | the abstract specification of runtime jobs: one open row per key, a handler entered once and by the claim of its row, an outcome nobody revises |
| `LlmRequestScheduler`, `LlmRequestSchedulerProofs` | the pools of one connection |
| `SlotService` | the abstract specification of the scheduler: after every event exactly those start who are next and find a slot |
| `ExecutionLifecycle` | the abstract specification of an execution: told before it works it does no work, what is closed completes, an end is final; implemented by the next two |
| `GraphExecutionQueue`, `GraphExecutionQueueProofs` | dispatch and decision of executions; the nodes are one stage here |
| `GraphNodeScheduler`, `GraphNodeSchedulerProofs` | the nodes of executions that run; the queue is its environment |
| `InputStores`, `InputStoresProofs` | the files jobs read their inputs from, and who may delete them |
| `BackgroundQueue`, `BackgroundQueueProofs` | extraction of metadata, with everybody who acts on the same rows |
| `ChatRoom`, `ChatRoomProofs` | a group room and everybody who would write to it |
| `MC*` | constants of the instances |

The names of the definitions are those of the functions where there is one; `PROJECT.json` maps
each definition to its lines. Definitions commented "Mutant" are plausible bugs; replacing the
definition named in `PROJECT.json` by one of them makes TLC report the property it is listed with.

### GenerationQueue

`status`, `cancelRequested`, `submitState`, `failureCode` are columns of `generation_queue_jobs`;
`mode` and `probing` stand for `started` and a ComfyUI dispatch pass that is past its check of it;
`worker[j]` is the await at which the job's worker is suspended; `owned` and `aborted` are the
registry of abort controllers and the signals workers hold (`stop()` aborts and forgets a
controller, so they differ); `cancelling`, `reconciling`, `waiters` are routes, a reconcile pass
and callers. `upstream` and `posts` are the service and what it received: the answer to a
submission can be lost whether or not the service accepted it, and accepted work ends on its own.

The actions: `Enqueue` (a new job, or `RetryJob`), `StartProbe`/`EndProbe`/`ClaimNextJob`
(dispatch by priority, then id, within the worker limit), the worker's stages (`PrepareFails`,
`Submit`, `Send`, `Spawn`, `NotSent`, `Refused`, `AnswerLost`, `Answered`, `Collect`, the
compensations, `Finish` and the catch blocks), `RequestCancellation`/`CancellationAnswered`,
`FinalizeAbandoned` (the sweeper), `StartReconcile`/`ReconcileOneCandidate`,
`WaitForTerminalJob`, `Stop`, `Crash`, `TornCrash`, `Restart` (recovery), and the service's own
steps. Every change of status goes through `TransitionJob`, which applies `transitionJob`'s table
of allowed moves, rewrites the submit state as the code does and wakes the waiters.

Abstracted: which server serves a ComfyUI job (any row may be next, so the model has the
dispatches of every routing), the pacing of starts, coalescing of dispatch ticks, the Modal
backend, history rows, files and prompts. Reconcile passes do not overlap in the model.

### RuntimeJobs

The server process (`server`: up, draining, down), the children (`worker[j]`: spawned, running,
exited before the server saw it) and the rows. `listener` is the exit listener that a server has
only for the children it spawned itself, which is why recovery and sweep exist; `stale` says that
`heartbeat_at` is older than the sweep tolerates, and `late` remembers the live workers that ever
missed their heartbeats. `StartInline` remains possible while the server drains, as it is in the
code: a job started by a request still being served leaves a running row that recovery closes.

It implements `SingletonJobs`, where the phase of a job is its row, `asked` the flag in it, and
`busy` says that a process is in its handler. There nobody dies, beats or recovers: what the
processes do to the rows of several jobs at once is one step of each of these jobs.

### LlmRequestScheduler

One connection; connections share nothing. A pool is named after the request that made it, as
closures keep the pool they were made with while the map may hold another one or none. `Drain` is
the loop that starts waiters until the next one finds no slot under its own limit.

It implements `SlotService`, which has neither pools nor counters nor queues, only the phases of the
requests and the order in which they are to be served: it says of the set that starts after an event
that nobody was passed over and that nobody else could start. In particular it says that nothing
waits beside a slot it could have, which the pools might, as the map forgets and remakes them.

### GraphExecutionQueue

A dispatch pass is synchronous and is one operator, `ProcessQueue`, from rows and workers to rows
and workers; every caller of `processQueue` applies it in its own action, with the retry timer as
it leaves it. `IsPass` says which sets a pass may claim: in order of id, each one only if it fits
with what already runs and what was claimed before it. `stage[e]` is where a worker is suspended:
in the lookup of reusable artifacts, where no abort handle exists yet; in the nodes; in the
compaction that follows; or with a decided row before the `finally` of `startJob`. Executions that
MCP tools start past the queue are there as "direct" and "standalone".

It implements `ExecutionLifecycle`: the phase is the row and, while that runs, the stage (a running
row that nobody works on is "interrupted"), and an execution is told to stop when a cancellation was
accepted for it or its queue drains. An execution has at least one node there, as a workflow without
nodes completes even if it is told to stop.

Abstracted: the scan limit of 200 rows, the cache of lanes and changes of limits at run time; a
crash in the middle of a pass leaves the state of a shorter pass followed by a crash; the split
of api and worker roles over processes.

### GraphNodeScheduler

Several executions in one process share the lane `external_generation`. `loop[e]` is where
`runReadyGraphNodes`, or what follows it in `execute()`, is suspended: `awaited[e]` is the set of
promises the race or the drain was made of, which may be other nodes than those in flight by the
time it resumes. A node is running, writing an artifact (past the late-write guard, before the
INSERT), or settling (the `then` handler has run, the `finally` that returns the slot has not).

`GraphNodeScheduler` details the stage "nodes" of `GraphExecutionQueue`; the two share the code of
`execute()` that follows the loop. They meet in `ExecutionLifecycle`, which both implement, the
scheduler from where an execution has been taken up (`SpecTakenUp`): "preparing" is the time before
its first turn, "working" all suspensions of the loop and its drains, and it is told when the queue's
flag is set. An execution without nodes is at work from the beginning.

Abstracted: what nodes compute; branches, disabled and reused nodes, which complete at once; the
wake-up of waiters for a slot, which the 250 ms poll subsumes. Nodes are numbered in the
topological order in which `buildExecutionOrder` puts them.

### InputStores

Two stores that the generation queue uses alike: claims are inserted in the transaction that
creates a job, files are never in a transaction, and old rows are compacted and their inputs
released afterwards. `file`, `claims` and `sweeping` belong to the store by content; `disk` (the
file of an asset and the markers beside it: "bin", "part", "deleted", "graph", "claimed"),
`assetClaims` and `collecting` to the assets. `thread[p]` is the event loop of a process inside a
synchronous sequence: `BeginEnqueue`, `StoreBlob`, `CreateJob` of an enqueue (or `BeginRetry`, which
names blobs it does not look at), `PruneSelect`, `PruneCompact`, `ReleaseAssets`, `ReleaseClaims`,
`ReleaseCheck`, `ReleaseUnlink` of a compaction. A process does nothing else meanwhile, but it may
die there (`Crash`) and other processes interleave. `SweepStat`/`SweepRemove` and
`CollectLook`/`CollectRemove` are the two halves of the deletions that look at a file outside the
transaction in which they remove it. `node[c]` follows the awaits of the graph node that makes a
copy: both markers, the partial file, the rename, and then the job or the catch block.

Abstracted: the one-time conversion of rows of older versions, staging files, the decoding of data
URLs. The graces (an hour, thirty days) are `GrowOld` and `MarkAges`, which wait for an enqueue that
is under way, as no enqueue takes that long.

### BackgroundQueue

One process. `metadataQueue` and `promptQueue` are the buckets, `metadataTasks` the keys of the map
of queued and active extractions, `batch` the active tasks, `loop` the await of `processQueue`;
`scheduled` and `lockRetry` are its `setImmediate` and its timer. An extraction writes the row in
one turn (`Write`) and releases it in another (`Return`), at import as in a batch, so that several
of the same row overlap. `Settle` is the synchronous turn after a batch: retries go back to the
queue, final failures are recorded, trackers are answered, and the listeners for room are called.
`JobReads`, `JobTracks`, `JobEnds` are the re-extraction of the library, `Lock`, `Remap`, `Unlock`
the rematch of hashes, under which a task may keep a name that no row has any more. `SettleThrows` is
the turn in which a statement of the bookkeeping fails: the queue stays in "thrown" until the
restart. `TaggingEnds` is the end of the automatic tagging of a row, `ReleaseReady` the pass over all
rows that are held back.

Abstracted: the tagging itself (whether it holds a row back, and whether it fails, is a free choice
wherever the visibility is decided), several files per row, more than one window of the
re-extraction.

### ChatRoom

One room. `run` is the `GroupRun` in its map (`run.at`: preparing the message, routing it, working,
judging), `queue` and `reserved` its fields, `reply[m]` the reply of a member: at its model
("answering") or at the translation and the store that follow. A turn of the event loop is one
action: when a reply is stored, `Store` passes its wakes to the queue, and `GoOn` starts whoever finds
a slot of its connection, asks the judge, or ends the run and lets the next message in. `IsPass` says
which entries of the queue a scan starts: each one in order, if its member does not answer already
and its connection has a slot left by those before it.

`Send` is a user's message: it denies the reactions, halts the run or waits for the order that holds
the room, and takes the room; `Interrupt` halts without a message. `halting` are the reactions that an
interrupt awaits before it looks for a run to halt. `job[l]`, `source[l]` and `reaction[l]` follow one
reply that ordered generations: whether they have ended, whether its message is stored and still
newer than the user's last, and its row of `chat_generation_reactions`. `TryAll` is the synchronous
beginning of a pass over all candidates, `ClaimReaction` the turn after the previews, and `React`,
`DropReaction`, `ReactionFails` what the model's answer comes to. `ShutDown`, `Exit`, `Crash` and
`Restart` end and begin the process; the memory of the room is lost, messages and rows are kept.

Abstracted: the jobs of a reply are one; members stay enabled and in the room; every generation was
asked for with a reaction; what a prompt holds. Regenerations, edits and automatic messages are left
out: each is refused while somebody holds the room.

## 4. Runs

Deadlock checking is off in every run because every one of the systems may stop: all rows are
decided and a bound is reached. What has to go on is stated as a liveness property.

| Run | Question |
|---|---|
| `queue_mixed` | two NovelAI jobs, one of which may be a retry of the other, and a Codex job of higher priority: waiters, charges, refinement of `JobLifecycle` |
| `queue_live` | a ComfyUI and a NovelAI job, one crash: ownership, single submission, evidence, finality; under fairness cancellations end and suspected orphans are settled |
| `runtime_jobs` | two subprocess jobs under one key and an inline job, two ends of the server, two late workers: ownership, requests, refinement of `SingletonJobs` |
| `llm_slots` | five requests, each made under a limit of 1 or 2, both kinds: slots, refinement of `SlotService`, service |
| `graph_queue` | two reservations of one lane beside two manual runs; or a reservation beside two direct runs and a standalone one: limits, precedence, refinement of `ExecutionLifecycle` |
| `graph_nodes` | a workflow of four nodes (a join of two, and one that generates), two at a time, beside an execution that competes for the single slot: the inductive invariant itself, stops, quiet ends, refinement of `ExecutionLifecycle` |
| `input_stores` | two jobs, new or a retry, that may share a blob, a draft and a copy, while compaction, sweep and collection go on and the process dies once |
| `background_queue` | a file imported at once or later, re-extracted with little room, renamed under the lock, recovered after a restart, and one bookkeeping statement that fails: no task twice, nobody waits for room there is, nothing is forgotten or shown that failed |
| `chat_room` | three members on two connections with one slot each, two of whom compete for one, beside the user, the judge, an order, two generations with reactions, a shutdown and a crash |
| `queue_chase`, `graph_stranded`, `graph_late` | disagreements of code and comments, section 7 |

### Bounds

- Jobs and executions: two or three suffice for every conflict the code can have, since each
  guard and each statement looks at one row, at the oldest of a kind, or at a count against a
  limit of one or two. A third row adds the retry of an ended job and the order by priority.
- `MaxCrashes = 1`, `MaxStops = 1`: a job outlives the crash, is recovered, and is cancelled,
  reconciled or dispatched again after it. `MaxRestarts = 2` for runtime jobs: a child of the
  first server meets the recovery of the second and the sweep of the third. `MaxLate = 2`: both
  jobs of a key may be late.
- `MaxForeground = 1`: user work appears and ends once between two passes.
- A limit of two for reservations and of one per lane distinguishes being blocked by number from
  being blocked by a lane. `MaxParallel = 2` and `LaneLimit = 1` do so for nodes.
- `NumRequests = 5`: a pool is dropped and made again while both limits and both kinds wait.
- Input stores: two jobs may name the same blob, draft or copy at the same time or one after the
  other; a third adds no new pair of a claim and a release. `Retain = 0` lets every ended row be
  compacted. One process: section 7 says what two processes do.
- Background queue: one file with a renaming has two keys, whose tasks share a batch of two;
  `MaxRetries = 2` has a retry and a final failure; `Room = 1` makes the re-extraction wait;
  `MaxFaults = 1`, as nothing moves after the first until the restart.
- Chat room: `ChainLimit = 1` lets two replies race for the last wake and ends every chain; a bigger
  limit adds longer chains of the same steps. `McBudgets` is two budgets: two messages, one generation
  and one mishap (order, interrupt, shutdown or crash), so that a second message cuts into
  everything the first began; or one message and two generations, whose reactions meet.
- The runtime instance has one inline job; pairs of inline jobs under one key are covered by the
  proof, which has no bound.

The proofs hold without any of these bounds: the constants that bound a run are parameters there.

### Fairness

Weak fairness only, of steps that a timer, a promise or a supervisor makes happen:

- a worker's await ends (upstream calls have timeouts, poll loops a last attempt); the cancel
  route's request is answered or times out; the sweeper runs with every dispatch tick; the
  reconciler runs every five minutes and a pass goes through its candidates;
- a stopped process ends (the drain is cut off by the forced exit) and is started again by its
  supervisor or user: without a restart nobody could settle an interrupted job;
- runtime jobs: the sweep timer fires, exit events are delivered, a spawned child claims its row
  or exits, a row that nobody stamps grows stale;
- LLM: who holds a slot releases it (`finally` around every request);
- graph queue: lookups and nodes end, the retry timer fires, user jobs end;
- background queue: immediates and timers fire (among them the recovery of every 30 seconds), an
  extraction answers, begun work goes on, and the rematch releases the lock in a `finally`;
- chat room: translations, models and the judge answer or fail (each has a timeout), a pass that was
  set runs, an order ends (`finally` of `runChatOrder`), a stopping process exits and is started again.
  Messages, calls, interrupts and generations need not happen;
- nodes: continuations run, the drain timer and the poll for a slot fire, a node ends. The last
  is an assumption on services with timeouts of their own: a cancelled execution whose only
  running node ignores the signal stays in `Promise.race`, which has no timeout
  (`node-scheduler.ts:258`), and the scheduler alone could not end it.

No fairness is assumed of enqueueing, cancelling, crashing, failing or losing an answer. The input
stores have safety properties only: that garbage is removed in the end is a matter of disk space.

## 5. What is proved

All theorems hold for every number of jobs, executions, nodes, requests, files and crashes, every
priority, lane, key, workflow graph and limit, from the assumptions named in each module (types
of the constants, and for nodes the topological order). `PROJECT.json` lists them.

**Generation queue** (`IInv` of `GenerationQueueInvariant`). That a worker's row is active is not
inductive: a sweep ends rows whose cancel flag is set and that nobody owns, so one must know that
a worker is in the registry, or its signal is aborted, at every moment (`Ownership`). That a row
is submitted at most once rests on what each stage knows (`Progress`): before the submission
nothing exists upstream, and no recovered row returns to the queue once it was submitted, because
the submit state was written first (`OnRecord`). The double charge needs what a NovelAI worker
leaves behind in each way it can end (`NaiSubmitState`), and that what a retry copied does not
change (`RetrySettled`). From it follow `WorkerOwnsItsJob`, `AtMostOnce`, `UpstreamWorkIsOnRecord`,
`WaitersAreWoken`, `NoDoubleCharge`, the refinement of `JobLifecycle`, finality, and that
after a cancellation no request leaves and no process is left alive.

**Runtime jobs** (`IInv` of `RuntimeJobs`). The unique index sees rows, not handlers, so
`OneHandlerPerKey` needs that a running worker has a running row unless it was late or a
shutdown awaits it (`WorkerHasRow`); `NoGhostRow` needs that the server alive spawned the child
of every queued row (`QueuedHasListener`), which recovery establishes at each boot; and
`CancelledOnlyOnRequest` that an abort of a live row was asked for (`AbortOfLiveRow`), as the
shutdown closes its rows first. The refinement of `SingletonJobs` is proved job by job: each action
is, for each job, one of the abstract moves (`PromiseMoves`). That a new row is alone under its key is
the index (`KeyAlone`), that a cancelled one was asked for is `AbortOfLiveRow`, and that a claim
enters a handler nobody is in needs `Ownership`: no worker runs under a queued row.

**LLM scheduler**. Every event is a removal or an insertion followed by `Drain`; the lemma about
`Drain` says that it keeps the order and stops at a waiter without a slot. `LimitsHold` is not
about one limit: for every k, the last request granted among those with a limit of at most k saw
fewer than k active ones. The refinement of `SlotService` rests on `DrainServes`: what `Drain` takes
off the front of the queue of a pool is the set that is next, since the queue is in the order of
service (`ArrivalOrder` for a new entry) and whoever waits or holds a slot does so in the one pool
that the map names (`PoolIsCurrent`).

**Graph queue**. `QueueIsWatched`: a pass that leaves something queued either set the timer or a
job runs, and only the end of a job reduces what runs. `FlagsKeep`: the flag of an accepted
cancellation survives until the worker is gone, so the check after the lookup sees it.
`DispatchWithinLimits` is about a pass that claims a set at once: by `OrderedStarts`,
the greatest claimed execution was checked against all the others. `ReservationsYield` rests
on `OldestStarts`: a pass that finds manual runs waiting and none running starts the oldest of them,
which exists as executions are numbered, so a manual run that is left waiting waits for another.
The refinement of `ExecutionLifecycle` needs two facts more: a flag that is set while an execution
is looked up was meant for it (`FlagsAreMeant`), so that one which is cancelled before its first
node was told; and whoever works has a row that runs (`JobsHaveRows`).

**Node scheduler**. `SlotsExact` and `LoopMatchesNodes` relate the counter and the loop's
suspensions to the nodes; `OrderedStarts` gives the limits. That an execution never ends for want
of runnable nodes is `SomeNodeIsReady`: the least pending node depends on nodes that are neither
pending nor in flight, hence completed, as no error is known. In the refinement of
`ExecutionLifecycle` a loop before its first turn knows no error and no signal (`IdleIsFresh`), so
that only the queue's flag can stop it there; once it works, the flag stays.

**Input stores**. `AssetInv` holds for every number of processes: a usable job has its claims
(`ClaimedAssets`), a claimed asset keeps its file, and a copy whose node is not over has the markers
that hold the collector off. `BlobInv` is inductive only if all processes are the worker, which is
the assumption of `BlobsAreSafe`: what the release found unclaimed is still unclaimed when it
unlinks because the same event loop does both, and the sweep repeats its look in its transaction.
`DraftsStay` is about the step that removes a draft.

**Background queue**. `QueueInv` is the conjunction of `Shape` (the types of statuses and timers),
`NoLostWakeup`, `AwaitedIsThere` and `FailedStaysPrivate`: a failing statement costs liveness, not
these. `FailedStaysPrivate` is inductive by
itself because each release reads the status again in its own turn. `TasksInv` (one task per key) is
proved from `BooksInv`, which says of places what the property counts: no two places of the queue or
of the batch have the same key (`Books`). An addition lists each new key once, a turn cuts the queue
at a place, and the turn after a batch moves each extraction back or out of the map, never both; a
failing statement in between ends the claim, not the types. `TasksInv` also says that a
re-extraction waits for room only while there is none (`RoomIsTold`): until a batch is settled, tasks
move between the queues and the batch and none is dropped (`RunSize`, `WorkingSize`), so no room is
made; settling makes it and calls whoever waits in the same turn. This part assumes that the limit
is a natural number (`RoomAssumption`).

**Chat room** (`IInv` of `ChatRoomProofs`: `Room`, `OneHolder`, `Reactions`). `RoomInv` is not
inductive: that the judge's turn stays within the wakes needs that the judge is asked only while a
wake is left and nothing is promised, as nobody answers then; that a reply may spend what it was
promised needs that promises belong to members who answer (`Room`). `SlotsRespected` is `PassKeepsSlots`: a
scan starts several members at once, and the last it starts on a connection has counted all the
others. `ReactionYields` needs that a reaction whose row runs and which nobody has cut holds the room
(`Reactions`), because whoever takes the room from it cuts it in the same turn.

That nonempty sets of naturals have a least element, and finite ones a greatest, is proved from
the well-foundedness of `<` in the modules that need it.

Only model-checked: the liveness properties (`CancelledJobEnds`, `OrphanIsSettled`,
`OrphanIsClosed`, `EveryWaiterServed`, `QueuedStarts`, `EveryExecutionEnds`, `PendingIsDecided`,
`JobIsAnswered`, `RunEnds`, `DueIsDecided`), which are out of the prover's reach.

The inductive invariants of the first four components are proved and no longer a property of a run;
they were found by checking them with TLC on these instances. The properties that are stated by a
theorem and checked by no run (among them `ClosedIsFinal`, `StartOrder`, `TerminalIsFinal`,
`NoNodesAfterCancel`) say in the terms of the code what the refinements say in those of the
abstract specifications.

## 6. Mutants

One per property and run, in `PROJECT.json`: a retry judged by one of the two columns, a sweep of
jobs that a worker owns, a catch block that takes every failed submission for a rejection, a
signal that is not aborted, a submit state written over, waiters woken on one path only; a claim
of any row, an exit listener that looks at running rows only, a recovery that forgets living
children, a sweep of inline jobs only; a pool dropped too early, a reply put behind background
requests, a slot given back without a drain; a job that ends without a pass, a limit without lanes
or policy, a cancellation by handle instead of by flag; a dependency that has only started, a stop
that is looked for once, or by the signal only, a drain that is skipped, a slot that is lost on
failure; a blob of a compacted row taken for nobody else's,
copies that go with their first claim, a collector that trusts its first look; a task that leaves the
map on its retry, nothing scheduled while the lock is held, a visibility not read again, a final
failure that is only logged, a room counted before the batch is gone; a wake promised twice, a member
started after the stop, a judge's turn that does not count, a reaction in a busy room, an order whose
end nobody hears.

## 7. Where code and comments disagree

1. `queue_chase`: cancelling a job whose work may still run upstream marks it for the reconciler,
   and the transition that follows (`queueTransitions.ts:97`) rewrites the mark, so that nobody
   chases the prompt. The same rewriting affects a cancellation the sweeper finalizes.
2. `graph_stranded`: cancelling an execution that an MCP tool runs past the queue fails its row
   while it runs (`graphWorkflowExecutionQueue.ts:363`).
3. `graph_late`: a node that outlives the drain timeout stores its artifact, because the guard
   asks a registry from which the end of the execution has removed the handle
   (`graph-workflow-executor/execution-abort.ts:92`).

Each is a run that checks one property, stated as the comment quoted in `PROJECT.json` has it.

Observations that have no run of their own:

- Recovery (`generationQueueService.ts:612`) marks rows in three submit states only; a crash between
  the compensation and the end of the row (`queueJobExecutors.ts:503`) leaves a row in a fourth one,
  active and unmarked until somebody cancels it.
- A ComfyUI dispatch pass that awaited its probes over `stop()` claims a job afterwards
  (`generationQueueService.ts:771`); the drain does not wait for it.
- With the API and the worker in processes of their own, the release of a blob may unlink a file
  that the API process has just claimed (`queueInputStore.ts:366-380`): `BlobInv` fails with
  `Processes = {worker, api}`. The split needs `CONAI_ALLOW_SPLIT_RUNTIME` (`startup/runtimeRole.ts`).
- `models/GenerationQueue.ts:696-697` speaks of one transaction for the ids and the compaction; they
  are two statements, and a death between compaction and release leaves claims and files for good.
- If the statement that records a final failure throws (`backgroundQueue.ts:288`), `processing` stays
  set and the queue does not move again before a restart: those who track its tasks are not answered,
  though `backgroundQueue.ts:168` promises them the outcome. `SettleThrows` reaches it, and
  `PendingIsDecided` and `JobIsAnswered` except it; without the exception TLC refutes both.
- A reaction that is due while another member still answers is denied for good, as `eligible()` finds
  the room busy (`chatGenerationReactions.ts:103`): only a reply that is not stored yet is waited for
  (line 88). So is the second of two reactions of a room that are due at once, and the one whose
  previews load while an order begins, although an order that was there before is waited for (line 85).
- The generation of a reply that was never stored stays undecided until the next reply of its thread
  ends, whose pass denies it; `DueIsDecided` speaks of stored replies.
- An interrupt of a reaction waits up to eight seconds for it (`llmChatService.ts:1092-1106`) and then
  stops the run it finds (`groupChatService.ts:719-727`), which a later message may have started.
- A ComfyUI prompt that was accepted with errors of some nodes fails its job after the row says
  "accepted" (`comfyuiService.ts:336-340`), as does a throwing `onPromptSubmitted`
  (`comfyGenerationExecutor.ts:206`). The executor compensates "in_flight" rows only, the reconciler
  reads suspected ones only, and recovery active ones only: the prompt goes on and nobody takes it
  back, though `comfyuiService.ts:335` counts on the usual clean-up. `ExecutionFails` has both paths.
- Reconcile passes start every five minutes without asking whether the last one is over
  (`generationQueueService.ts:42`, `152`); a cancelled execution whose only running node ignores its
  signal waits in a race without timeout (`node-scheduler.ts:258`).

## 8. Not modelled

`PROJECT.json` gives the reason for each component. The SQL models, the ComfyUI client and the Codex
runner appear as far as the queue uses them. Routing and the throttle are free choices of
`GenerationQueue`, so that its properties hold for every one of them, but that no server is
overbooked is not shown. Which prompt an interrupt hits is decided by the ComfyUI server. Schedules
are arithmetic on dates whose effects are actions of `GraphExecutionQueue`; the shutdown is a
sequence of stops, each an action of its service, cut off by a forced exit. AI runtimes, watchers and
media processing are I/O and transformations; routes and MCP tools validate and format; the frontend
holds no state of its own. The upstream services are external and may accept, refuse, lose an
answer, or finish on their own.

## 9. What could be added

- The composition of a node's waiter with the generation job it waits for.
- Abstract specifications of a room and of a store of inputs.
- ComfyUI routing with the capacity of servers, as a refinement of the free choice of the next row.
- An instance of `InputStores` with two processes, once the release is a transaction.
