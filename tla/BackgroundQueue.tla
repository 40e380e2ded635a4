--------------------------- MODULE BackgroundQueue ---------------------------
(* The queue that extracts the metadata of new media                        *)
(* (services/backgroundQueue.ts), with everyone who acts on the same rows:  *)
(* the import that extracts at once (services/background-media/             *)
(* mediaPostprocessCoordinator.ts), the job that re-extracts the library    *)
(* (services/runtimeJobs/handlers/metadataReextractHandler.ts), the hash    *)
(* rematch that renames rows under the maintenance lock                     *)
(* (services/dataRematchService.ts, systemMaintenanceLockService.ts) and    *)
(* the visibility of a row (services/mediaPostprocessVisibilityService.ts). *)
(*                                                                          *)
(* One file has one row, named by a hash the rematch changes; a task keeps  *)
(* the hash it was made with.  All memory is of one process, whose turns    *)
(* are the actions; a restart loses it and keeps the rows.                  *)
EXTENDS Naturals, Sequences, FiniteSets

CONSTANTS Files,
          MaxRetries, BatchSize,
          Room,        \* QUEUE_CAPACITY - WINDOW_SIZE
          MaxRemaps,   \* bound: renamings of a row
          MaxPrompts,  \* bound: extractions that find a prompt
          MaxJobs,     \* bound: re-extraction jobs started
          MaxLocks,    \* bound: times the lock is taken
          MaxRestarts, \* bound: restarts of the process
          MaxFaults    \* bound: failures of the bookkeeping of a final failure

ASSUME FilesAssumption == IsFiniteSet(Files) /\ MaxRemaps \in Nat
ASSUME BatchAssumption == BatchSize \in Nat \ {0} /\ MaxRetries \in Nat \ {0}
ASSUME RoomAssumption == Room \in Nat

VARIABLES
    hash, status, post,           \* media_metadata, by file
    metadataQueue, promptQueue,   \* the two buckets
    metadataTasks,                \* keys of queued and active extractions
    loop,                         \* where processQueue is
    batch,                        \* activeTasks, each with how far it is
    scheduled, lockRetry,         \* processScheduled, lockRetryScheduled
    locked,
    import,                       \* the extraction at import, by file
    job, page, awaiting,          \* the re-extraction job
    left                          \* what is left of each bound

rows == <<hash, status, post>>
queues == <<metadataQueue, promptQueue, metadataTasks>>
timers == <<scheduled, lockRetry>>
jobVars == <<job, page, awaiting>>
vars == <<rows, queues, loop, batch, timers, locked, import, jobVars, left>>

Hashes == 0..MaxRemaps
Keys == Files \X Hashes

Task(kind, key, retries) ==
    [kind |-> kind, file |-> key[1], hash |-> key[2], retries |-> retries]
Tasks == [kind : {"metadata", "prompt"}, file : Files, hash : Hashes, retries : 0..MaxRetries]
Key(t) == <<t.file, t.hash>>

Init ==
    /\ hash = [f \in Files |-> 0]
    /\ status = [f \in Files |-> "none"]
    /\ post = [f \in Files |-> "none"]
    /\ metadataQueue = <<>> /\ promptQueue = <<>> /\ metadataTasks = {}
    /\ loop = "idle" /\ batch = <<>>
    /\ scheduled = FALSE /\ lockRetry = FALSE /\ locked = FALSE
    /\ import = [f \in Files |-> [at |-> "no", hash |-> 0]]
    /\ job = "idle" /\ page = {} /\ awaiting = {}
    /\ left = [prompts |-> MaxPrompts, jobs |-> MaxJobs, locks |-> MaxLocks,
               restarts |-> MaxRestarts, faults |-> MaxFaults]

Spend(what) == left[what] > 0 /\ left' = [left EXCEPT ![what] = @ - 1]

----------------------------------------------------------------------------
(* Queue and loop.                                                          *)

\* Every order in which the members of S may be added one after the other.
Orders(S) == {s \in [1..Cardinality(S) -> S] : \A i, j \in DOMAIN s : s[i] = s[j] => i = j}

\* Mutant: nothing is scheduled while the lock is held.
AddAllUnheard(S) ==
    LET new == S \ metadataTasks
    IN /\ metadataTasks' = metadataTasks \cup S
       /\ \E s \in Orders(new) :
             metadataQueue' = metadataQueue \o [i \in DOMAIN s |-> Task("metadata", s[i], 0)]
       /\ scheduled' = (scheduled \/ (new # {} /\ loop = "idle" /\ ~locked))
       /\ UNCHANGED promptQueue

\* getOrAddMetadataExtractionTask for each key of S, in one turn.
AddAll(S) ==
    LET new == S \ metadataTasks
    IN /\ metadataTasks' = metadataTasks \cup S
       /\ \E s \in Orders(new) :
             metadataQueue' = metadataQueue \o [i \in DOMAIN s |-> Task("metadata", s[i], 0)]
       /\ scheduled' = (scheduled \/ (new # {} /\ loop = "idle"))
       /\ UNCHANGED promptQueue

Least(a, b) == IF a < b THEN a ELSE b

\* processQueue from its start, or from the head of its loop, to the next await,
\* with these tasks in the queues (extractions go first) and this lockRetry.
Run(mq, pq, retry) ==
    LET m == Least(BatchSize, Len(mq))
        p == Least(BatchSize - m, Len(pq))
        taken == SubSeq(mq, 1, m) \o SubSeq(pq, 1, p)
        goes == (mq # <<>> \/ pq # <<>>) /\ ~locked
    IN /\ loop' = IF goes THEN "batch" ELSE "idle"
       /\ batch' = IF goes THEN [i \in DOMAIN taken |-> [task |-> taken[i], at |-> "running"]]
                   ELSE <<>>
       /\ metadataQueue' = IF goes THEN SubSeq(mq, m + 1, Len(mq)) ELSE mq
       /\ promptQueue' = IF goes THEN SubSeq(pq, p + 1, Len(pq)) ELSE pq
       /\ lockRetry' = (retry \/ ((mq # <<>> \/ pq # <<>>) /\ locked))

\* processQueue called by someone else returns at once while a loop goes on.
Call(mq, pq, retry) ==
    \/ loop = "idle" /\ Run(mq, pq, retry)
    \/ /\ loop # "idle"
       /\ metadataQueue' = mq /\ promptQueue' = pq /\ lockRetry' = retry
       /\ UNCHANGED <<loop, batch>>

\* The setImmediate of an addition.
ScheduledRun ==
    /\ scheduled
    /\ scheduled' = FALSE
    /\ Call(metadataQueue, promptQueue, lockRetry)
    /\ UNCHANGED <<rows, metadataTasks, locked, import, jobVars, left>>

\* The timer of five seconds after a turn that met the lock.
LockRetryFires ==
    /\ lockRetry
    /\ Call(metadataQueue, promptQueue, FALSE)
    /\ UNCHANGED <<rows, metadataTasks, scheduled, locked, import, jobVars, left>>

\* The pause of 100 ms after a batch.
PauseEnds ==
    /\ loop = "pause"
    /\ Run(metadataQueue, promptQueue, lockRetry)
    /\ UNCHANGED <<rows, metadataTasks, scheduled, locked, import, jobVars, left>>

----------------------------------------------------------------------------
(* What an extraction does to the row named by h, if one still is.          *)

Named(f, h) == hash[f] = h /\ status[f] # "none"

\* finishMetadataExtraction.
Finish(f, h, outcome) ==
    IF Named(f, h)
    THEN /\ status' = [status EXCEPT ![f] = outcome]
         /\ post' = [post EXCEPT ![f] = IF outcome = "failed" THEN "failed"
                                        ELSE IF @ = "failed" THEN "pending" ELSE @]
    ELSE UNCHANGED <<status, post>>

\* Mutant: the status is not read again after the await.
MarkReadyUnread(f, h) ==
    \/ Named(f, h) /\ post' = [post EXCEPT ![f] = "ready"]
    \/ UNCHANGED post

\* markReadyIfNoPendingImmediateWork: the row becomes visible, or fails with its
\* automatic tagging, or waits for that (other services decide which).
MarkReady(f, h) ==
    \/ Named(f, h) /\ status[f] = "completed" /\ post' = [post EXCEPT ![f] = "ready"]
    \/ Named(f, h) /\ post' = [post EXCEPT ![f] = "failed"]
    \/ UNCHANGED post

----------------------------------------------------------------------------
(* The tasks of a batch run side by side, each in two turns when it writes. *)

Reaches(i, from, to) ==
    /\ loop = "batch"
    /\ i \in DOMAIN batch
    /\ batch[i].at = from
    /\ batch' = [batch EXCEPT ![i].at = to]
    /\ UNCHANGED <<loop, metadataQueue, metadataTasks, timers, hash, locked, import, jobVars>>

Extraction(i) == batch[i].task.kind = "metadata"

\* The row is written, then the groups of the image are awaited.
Write(i) ==
    /\ Reaches(i, "running", "written")
    /\ Extraction(i)
    /\ Finish(batch[i].task.file, batch[i].task.hash, "completed")
    /\ UNCHANGED <<promptQueue, left>>

\* The rest: the task of a prompt that was found, and the visibility.
Return(i) ==
    LET t == batch[i].task
    IN /\ Reaches(i, "written", "ok")
       /\ MarkReady(t.file, t.hash)
       /\ \/ Spend("prompts") /\ promptQueue' = Append(promptQueue, Task("prompt", Key(t), 0))
          \/ UNCHANGED <<promptQueue, left>>
       /\ UNCHANGED status

\* An error that a retry would not mend (and one too large to store).
Refuse(i) ==
    /\ Reaches(i, "running", "refused")
    /\ Extraction(i)
    /\ Finish(batch[i].task.file, batch[i].task.hash, "failed")
    /\ UNCHANGED <<promptQueue, left>>

Reject(i) ==
    /\ Reaches(i, "running", "rejected") \/ Reaches(i, "written", "rejected")
    /\ UNCHANGED <<status, post, promptQueue, left>>

Collect(i) ==
    /\ Reaches(i, "running", "ok")
    /\ ~Extraction(i)
    /\ UNCHANGED <<status, post, promptQueue, left>>

----------------------------------------------------------------------------
(* The turn after the batch: retries, final failures and answers, in order. *)

Answered == {"ok", "refused", "rejected"}
Again(e) == e.at = "rejected" /\ e.task.retries + 1 < MaxRetries
\* Mutant: a failure that is final is only logged.
FinalNever(e) == FALSE

Final(e) == e.task.kind = "metadata" /\ e.at = "rejected" /\ ~Again(e)

\* The places P of a batch, in order.
InOrder(P) == {s \in [1..Cardinality(P) -> P] : \A i, j \in DOMAIN s : i < j => s[i] < s[j]}

\* The tasks of one kind that go back to their queue, at these places of "done".
Retried(done, kind, place) ==
    [n \in DOMAIN place |-> LET t == done[place[n]].task
                            IN Task(kind, Key(t), t.retries + 1)]

Places(done, kind) == {i \in DOMAIN done : Again(done[i]) /\ done[i].task.kind = kind}

\* Mutant: a retried task leaves the map and stays in the queue.
OverOnRetry(done) == {Key(done[i].task) : i \in {k \in DOMAIN done :
                    done[k].task.kind = "metadata"}}

\* The keys of the extractions among the entries "done" that are over.
Over(done) == {Key(done[i].task) : i \in {k \in DOMAIN done :
                    done[k].task.kind = "metadata" /\ ~Again(done[k])}}

SettleEntries(done) ==
    LET failed == {f \in Files : \E i \in DOMAIN done :
                      Final(done[i]) /\ done[i].task.file = f /\ Named(f, done[i].task.hash)}
    IN /\ loop = "batch"
       /\ \A i \in DOMAIN batch : batch[i].at \in Answered
       /\ \E place \in InOrder(Places(done, "metadata")) :
             metadataQueue' = metadataQueue \o Retried(done, "metadata", place)
       /\ \E place \in InOrder(Places(done, "prompt")) :
             promptQueue' = promptQueue \o Retried(done, "prompt", place)
       /\ metadataTasks' = metadataTasks \ Over(done)
       /\ awaiting' = awaiting \ Over(done)
       /\ status' = [f \in Files |-> IF f \in failed THEN "failed" ELSE status[f]]
       /\ post' = [f \in Files |-> IF f \in failed THEN "failed" ELSE post[f]]
       /\ UNCHANGED <<hash, timers, locked, import, page>>

\* Mutant: the batch that settles is still counted when the listeners are called.
HasCapacityEarly ==
    Len(metadataQueue) + Len(promptQueue) + Len(batch)
      + (IF loop = "pause" THEN BatchSize ELSE 0) <= Room

HasCapacity == Len(metadataQueue) + Len(promptQueue) + Len(batch) <= Room

Settle ==
    /\ SettleEntries(batch)
    /\ loop' = "pause"
    /\ batch' = <<>>
    /\ job' = IF job = "waiting" /\ HasCapacity' THEN "ready" ELSE job
    /\ UNCHANGED left

\* The statement that records a final failure throws: nobody catches it, the
\* entries behind it are not looked at, and "processing" stays set.
SettleThrows(i) ==
    /\ i \in DOMAIN batch
    /\ Final(batch[i])
    /\ SettleEntries(SubSeq(batch, 1, i - 1))
    /\ loop' = "thrown"
    /\ Spend("faults")
    /\ UNCHANGED <<batch, job>>

----------------------------------------------------------------------------
(* New media: a row, then an extraction at once or in the background.       *)

Rested == UNCHANGED <<queues, loop, batch, timers>>

Register(f) ==
    /\ status[f] = "none"
    /\ status' = [status EXCEPT ![f] = "pending"]
    /\ post' = [post EXCEPT ![f] = "pending"]
    /\ import' = [import EXCEPT ![f] = [at |-> "due", hash |-> hash[f]]]
    /\ Rested
    /\ UNCHANGED <<hash, locked, jobVars, left>>

Imports(f, from, to) ==
    /\ import[f].at = from
    /\ import' = [import EXCEPT ![f] = [at |-> to, hash |-> import[f].hash]]
    /\ UNCHANGED <<hash, locked, jobVars>>

\* metadataMode "background", and the retry of an extraction that failed at once.
ImportQueues(f) ==
    /\ Imports(f, import[f].at, "no")
    /\ import[f].at # "no"
    /\ AddAll({<<f, import[f].hash>>})
    /\ UNCHANGED <<status, post, loop, batch, lockRetry, left>>

ImportWrites(f) ==
    /\ Imports(f, "due", "written")
    /\ Finish(f, import[f].hash, "completed")
    /\ Rested
    /\ UNCHANGED left

ImportReturns(f) ==
    /\ Imports(f, "written", "no")
    /\ MarkReady(f, import[f].hash)
    /\ \/ /\ Spend("prompts")
          /\ Call(metadataQueue,
                  Append(promptQueue, Task("prompt", <<f, import[f].hash>>, 0)), lockRetry)
       \/ UNCHANGED <<loop, batch, metadataQueue, promptQueue, lockRetry, left>>
    /\ UNCHANGED <<status, metadataTasks, scheduled>>

ImportRefuses(f) ==
    /\ Imports(f, "due", "no")
    /\ Finish(f, import[f].hash, "failed")
    /\ Rested
    /\ UNCHANGED left

\* markReadyRowsWithoutPendingImmediateWork, of the rows that are held back: those
\* whose automatic tagging has failed fail, those extracted that wait for none appear.
ReleaseReady ==
    LET held == {f \in Files : post[f] \in {"pending", "failed"}}
    IN /\ \E failed \in SUBSET held :
          \E released \in SUBSET {f \in held \ failed : status[f] = "completed"} :
            post' = [f \in Files |-> IF f \in failed THEN "failed"
                                     ELSE IF f \in released THEN "ready" ELSE post[f]]
       /\ Rested
       /\ UNCHANGED <<hash, status, locked, import, jobVars, left>>

\* persistAutoTags: the automatic tagging of a row has ended, well or not.
TaggingEnds(f) ==
    /\ MarkReady(f, hash[f])
    /\ Rested
    /\ UNCHANGED <<hash, status, locked, import, jobVars, left>>

\* startMetadataRecovery, at the start and every 30 seconds (50 rows or fewer).
Recover ==
    LET pending == {<<f, hash[f]>> : f \in {g \in Files : status[g] = "pending"}}
    IN /\ ~(pending \subseteq metadataTasks)
       /\ AddAll(pending)
       /\ UNCHANGED <<rows, loop, batch, lockRetry, locked, import, jobVars, left>>

----------------------------------------------------------------------------
(* The re-extraction of every row: one page, one window.                    *)

Known == {f \in Files : status[f] # "none"}

\* The page is read; the window then waits for its room in the queue.
JobReads ==
    /\ job = "idle"
    /\ Known # {}
    /\ Spend("jobs")
    /\ page' = {<<f, hash[f]>> : f \in Known}
    /\ job' = IF HasCapacity THEN "ready" ELSE "waiting"
    /\ Rested
    /\ UNCHANGED <<rows, locked, import, awaiting>>

\* It tracks every file of the page, by the hash it has read.
JobTracks ==
    /\ job = "ready"
    /\ AddAll(page)
    /\ job' = "tracking"
    /\ awaiting' = page
    /\ UNCHANGED <<rows, loop, batch, lockRetry, locked, import, page, left>>

\* The window is answered and the pages are done, or the job is cancelled at one
\* of its waits: its tasks stay in the queue.
JobEnds ==
    /\ job # "idle"
    /\ job' = "idle"
    /\ awaiting' = {}
    /\ Rested
    /\ UNCHANGED <<rows, locked, import, page, left>>

----------------------------------------------------------------------------
(* The hash rematch, under the lock, and the restart.                       *)

Lock ==
    /\ ~locked /\ Spend("locks")
    /\ locked' = TRUE
    /\ Rested
    /\ UNCHANGED <<rows, import, jobVars>>

Unlock ==
    /\ locked
    /\ locked' = FALSE
    /\ Rested
    /\ UNCHANGED <<rows, import, jobVars, left>>

\* applyHashRemap: the row is copied to its new name with all it holds.
Remap(f) ==
    /\ locked
    /\ status[f] # "none" /\ hash[f] < MaxRemaps
    /\ hash' = [hash EXCEPT ![f] = @ + 1]
    /\ Rested
    /\ UNCHANGED <<status, post, locked, import, jobVars, left>>

Restart ==
    /\ Spend("restarts")
    /\ metadataQueue' = <<>> /\ promptQueue' = <<>> /\ metadataTasks' = {}
    /\ loop' = "idle" /\ batch' = <<>>
    /\ scheduled' = FALSE /\ lockRetry' = FALSE /\ locked' = FALSE
    /\ import' = [f \in Files |-> [at |-> "no", hash |-> 0]]
    /\ job' = "idle" /\ awaiting' = {}
    /\ UNCHANGED <<rows, page>>

----------------------------------------------------------------------------
Working(i) == Write(i) \/ Return(i) \/ Refuse(i) \/ Reject(i) \/ Collect(i)

Looping ==
    \/ ScheduledRun \/ LockRetryFires \/ PauseEnds \/ Settle
    \/ \E i \in 1..BatchSize : Working(i) \/ SettleThrows(i)

Importing(f) == ImportQueues(f) \/ ImportWrites(f) \/ ImportReturns(f) \/ ImportRefuses(f)

Next ==
    \/ Looping
    \/ \E f \in Files : Register(f) \/ Importing(f) \/ Remap(f) \/ TaggingEnds(f)
    \/ ReleaseReady \/ Recover
    \/ JobReads \/ JobTracks \/ JobEnds
    \/ Lock \/ Unlock \/ Restart

\* Timers and immediates fire, what is awaited answers, the lock is released
\* (the rematch does so in a "finally"), and what has begun goes on.
Fairness ==
    /\ WF_vars(ScheduledRun) /\ WF_vars(LockRetryFires)
    /\ WF_vars(PauseEnds) /\ WF_vars(Settle)
    /\ \A i \in 1..BatchSize : WF_vars(Working(i))
    /\ \A f \in Files : WF_vars(Importing(f))
    /\ WF_vars(Recover) /\ WF_vars(Unlock)
    /\ WF_vars(JobTracks)

Spec == Init /\ [][Next]_vars /\ Fairness

----------------------------------------------------------------------------
(* Properties.                                                              *)

TypeOK ==
    /\ hash \in [Files -> Hashes]
    /\ status \in [Files -> {"none", "pending", "completed", "failed"}]
    /\ post \in [Files -> {"none", "pending", "ready", "failed"}]
    /\ metadataQueue \in Seq(Tasks)
    /\ promptQueue \in Seq(Tasks)
    /\ metadataTasks \subseteq Keys
    /\ loop \in {"idle", "batch", "pause", "thrown"}
    /\ batch \in Seq([task : Tasks, at : {"running", "written"} \cup Answered])
    /\ scheduled \in BOOLEAN /\ lockRetry \in BOOLEAN /\ locked \in BOOLEAN
    /\ import \in [Files -> [at : {"no", "due", "written"}, hash : Hashes]]
    /\ job \in {"idle", "waiting", "ready", "tracking"}
    /\ page \subseteq Keys
    /\ awaiting \subseteq Keys

\* Work that is queued has someone who will look at it: a loop that goes on, the
\* setImmediate of an addition, or the timer of a turn that met the lock.
NoLostWakeup ==
    metadataQueue # <<>> \/ promptQueue # <<>> => loop # "idle" \/ scheduled \/ lockRetry

\* However it is asked for (import, recovery, re-extraction, retry), an extraction
\* is queued or active at most once, exactly while the map has its key
\* (services/backgroundQueue.ts:168, "Share the existing queued or active extraction").
\* A queue that a failed statement has stopped keeps its batch, retried or not.
OneTaskPerKey ==
    LET queued == [i \in DOMAIN metadataQueue |-> Key(metadataQueue[i])]
        active == {i \in DOMAIN batch : batch[i].task.kind = "metadata"}
        activeKeys == {Key(batch[i].task) : i \in active}
        queuedKeys == {queued[i] : i \in DOMAIN queued}
    IN loop # "thrown" =>
         /\ Cardinality(queuedKeys) = Len(queued)
         /\ Cardinality(activeKeys) = Cardinality(active)
         /\ queuedKeys \cap activeKeys = {}
         /\ queuedKeys \cup activeKeys = metadataTasks

\* Whoever waits for the outcome of an extraction waits for one there is.
AwaitedIsThere == awaiting \subseteq metadataTasks

\* Nobody waits for room there is: only the end of a batch tells of room, so no other
\* step of the queue may make it.
RoomIsTold == job = "waiting" => ~HasCapacity

\* The books of the queue: well formed, one task per key, a task for whoever waits for
\* its outcome, and no room for whoever waits for room.
TasksInv == TypeOK /\ OneTaskPerKey /\ AwaitedIsThere /\ RoomIsTold

\* "failed extraction stays private instead of becoming public"
\* (services/backgroundQueue.ts:111): whatever other extraction of the same row, at
\* import or for another caller, was between its two turns when it failed.
FailedStaysPrivate == \A f \in Files : status[f] = "failed" => post[f] # "ready"

\* "Pending metadata survives a restart" (services/backgroundQueue.ts:111), and a
\* renaming: it is decided in the end.  Not by a queue that a failed bookkeeping
\* statement has stopped (SettleThrows): that one waits for the restart.
PendingIsDecided ==
    \A f \in Files : status[f] = "pending" ~> status[f] # "pending" \/ loop = "thrown"

\* Who tracks extractions, or waits for room, goes on: "observe its final outcome,
\* including retries" (services/backgroundQueue.ts:168), unless the queue was stopped
\* as above.
JobIsAnswered ==
    job # "idle" ~> (job = "tracking" /\ awaiting = {}) \/ job = "idle" \/ loop = "thrown"
=============================================================================
