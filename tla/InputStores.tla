---------------------------- MODULE InputStores ----------------------------
(* The files that queued generation jobs read their inputs from, and who    *)
(* may delete them.                                                         *)
(*                                                                          *)
(* Blobs are base64 inputs stored once by content (services/generation-     *)
(* queue/queueInputStore.ts): a job claims them by a row, and a blob goes   *)
(* with its last claim or, as debris of a crash, with a sweep.  Assets are  *)
(* uploaded drafts and the copies a graph node makes for its job (services/ *)
(* workflowInputAssetStore.ts), with markers beside the file.  Both are     *)
(* claimed in the transaction that creates a job (models/GenerationQueue.ts)*)
(* and released when the payload of an old job is compacted.                *)
(*                                                                          *)
(* A process is a runtime of the server; Worker is the one whose role runs  *)
(* the queue, the cleanup and the graphs (startup/runtimeRole.ts).  A       *)
(* thread is its event loop inside a synchronous sequence: other processes  *)
(* interleave with it, a crash may cut it, its own handlers may not.        *)
EXTENDS Naturals, Sequences, FiniteSets

CONSTANTS Jobs,        \* identifiers of rows of generation_queue_jobs
          Blobs,       \* contents of inputs stored by hash
          Drafts,      \* assets uploaded for a workflow
          Copies,      \* assets copied by a graph node, one per execution
          Processes, Worker,
          Retain,      \* retainRecentTerminalJobs
          MaxCrashes   \* bound: processes that die in a behaviour

Assets == Drafts \cup Copies

ASSUME JobsAssumption == Jobs \subseteq Nat
ASSUME WorkerAssumption == Worker \in Processes
ASSUME RetainAssumption == Retain \in Nat
ASSUME CrashAssumption == MaxCrashes \in Nat
ASSUME AssetAssumption == Drafts \cap Copies = {}

VARIABLES
    job,      \* status of each row; "compacted" is terminal with the payload cut
    inputs,   \* blobs and assets the payload was enqueued with
    ended,    \* terminal rows, the longest ended first
    file,     \* "absent", "fresh" (within the grace) or "old", per blob
    claims,   \* generation_queue_input_refs
    thread,   \* what each event loop is in the middle of
    sweeping, \* the blob, if any, whose age the sweep has read before its transaction
    disk,     \* the file of each asset and the markers beside it
    aged,     \* drafts whose deletion mark is older than the grace
    assetClaims, \* workflow_input_asset_job_refs
    node,     \* how far the graph node of each copy is
    live,     \* copies whose execution is queued or running
    collecting,  \* the asset, if any, the collector has looked at before its transaction
    crashes

blobVars == <<file, claims, sweeping>>
assetVars == <<disk, aged, assetClaims, node, live, collecting>>
jobVars == <<job, inputs, ended>>
vars == <<jobVars, blobVars, thread, assetVars, crashes>>

Marks == {"bin", "part", "deleted", "graph", "claimed"}
Terminal == {"completed", "failed", "compacted"}
Inputs == [blobs : SUBSET Blobs, assets : SUBSET Assets]
Nothing == [blobs |-> {}, assets |-> {}]

Idle == [at |-> "idle", todo |-> {}, held |-> Nothing, ids |-> {}]
Thread(at, todo, held, ids) ==
    [at |-> at, todo |-> todo, held |-> held, ids |-> ids]

Init ==
    /\ job = [j \in Jobs |-> "none"]
    /\ inputs = [j \in Jobs |-> Nothing]
    /\ ended = <<>>
    /\ file = [b \in Blobs |-> "absent"]
    /\ claims = {}
    /\ thread = [p \in Processes |-> Idle]
    /\ sweeping = {}
    /\ disk = [a \in Assets |-> {}]
    /\ aged = {}
    /\ assetClaims = {}
    /\ node = [c \in Copies |-> "none"]
    /\ live = {}
    /\ collecting = {}
    /\ crashes = 0

----------------------------------------------------------------------------
(* Enqueueing.                                                              *)

\* A request whose payload has inline inputs B and names assets A.
BeginEnqueue(p, B, A) ==
    /\ thread[p] = Idle
    /\ B # {} \/ A # {}
    /\ \A a \in A : "bin" \in disk[a]
    /\ thread' = [thread EXCEPT ![p] =
                    Thread("storing", B, [blobs |-> {}, assets |-> A], {})]
    /\ UNCHANGED <<jobVars, blobVars, assetVars, crashes>>

\* storeQueueInputBuffer: one immediate transaction publishes or touches.
StoreBlob(p, b) ==
    /\ thread[p].at = "storing"
    /\ b \in thread[p].todo
    /\ file' = [file EXCEPT ![b] = "fresh"]
    /\ thread' = [thread EXCEPT ![p] =
                    Thread("storing", thread[p].todo \ {b},
                           [blobs |-> thread[p].held.blobs \cup {b},
                            assets |-> thread[p].held.assets], {})]
    /\ UNCHANGED <<jobVars, claims, sweeping, assetVars, crashes>>

\* retryJob: the stored payload is read, then enqueued like a new one.
BeginRetry(p, j) ==
    /\ thread[p] = Idle
    /\ job[j] = "failed"
    /\ thread' = [thread EXCEPT ![p] = Thread("storing", {}, inputs[j], {})]
    /\ UNCHANGED <<jobVars, blobVars, assetVars, crashes>>

\* createMany with registerQueueInputRefs and registerWorkflowInputAssetRefs:
\* a missing asset refuses the job, a missing blob is not looked at.
Register(j, held) ==
    /\ \A a \in held.assets : "bin" \in disk[a]
    /\ job' = [job EXCEPT ![j] = "live"]
    /\ inputs' = [inputs EXCEPT ![j] = held]
    /\ claims' = claims \cup ({j} \X held.blobs)
    /\ assetClaims' = assetClaims \cup ({j} \X held.assets)
    /\ disk' = [a \in Assets |->
                  IF a \in held.assets /\ "graph" \in disk[a]
                  THEN disk[a] \cup {"claimed"} ELSE disk[a]]

\* Rows are numbered in the order of their creation.
IsNext(j) == job[j] = "none" /\ \A k \in Jobs : k < j => job[k] # "none"

CreateJob(p, j) ==
    /\ thread[p].at = "storing"
    /\ thread[p].todo = {}
    /\ IsNext(j)
    /\ Register(j, thread[p].held)
    /\ thread' = [thread EXCEPT ![p] = Idle]
    /\ UNCHANGED <<ended, file, sweeping, aged, node, live, collecting, crashes>>

\* The transaction is refused (a limit of the role, a missing asset).
RefuseJob(p) ==
    /\ thread[p].at = "storing"
    /\ thread[p].todo = {}
    /\ thread' = [thread EXCEPT ![p] = Idle]
    /\ UNCHANGED <<jobVars, blobVars, assetVars, crashes>>

\* The queue or a cancellation ends the job; only a failed or cancelled one
\* ("failed") may be retried.
EndJob(p, j, status) ==
    /\ thread[p] = Idle
    /\ job[j] = "live"
    /\ status \in {"completed", "failed"}
    /\ job' = [job EXCEPT ![j] = status]
    /\ ended' = Append(ended, j)
    /\ UNCHANGED <<inputs, blobVars, thread, assetVars, crashes>>

----------------------------------------------------------------------------
(* Compaction of old rows and the release of their inputs, by the worker.   *)

Recent == {ended[i] : i \in {k \in DOMAIN ended : k + Retain > Len(ended)}}
Prunable == {j \in Jobs : job[j] \in Terminal \ {"compacted"}} \ Recent

\* pruneTerminalRequestPayloads reads the ids ...
PruneSelect ==
    /\ thread[Worker] = Idle
    /\ Prunable # {}
    /\ thread' = [thread EXCEPT ![Worker] =
                    Thread("selected", {}, Nothing, Prunable)]
    /\ UNCHANGED <<jobVars, blobVars, assetVars, crashes>>

\* ... and compacts with the same predicate, in another statement.
PruneCompact ==
    /\ thread[Worker].at = "selected"
    /\ job' = [j \in Jobs |-> IF j \in Prunable THEN "compacted" ELSE job[j]]
    /\ thread' = [thread EXCEPT ![Worker].at = "compacted"]
    /\ UNCHANGED <<inputs, ended, blobVars, assetVars, crashes>>

Referenced(a, refs) == \E j \in Jobs : <<j, a>> \in refs

\* Mutant: copies go with their first claim.
ReleaseAssetsOfOthers ==
    LET ids == thread[Worker].ids
        kept == {r \in assetClaims : r[1] \notin ids \/ job[r[1]] # "compacted"}
        lost == {a \in Copies : (\E j \in ids : <<j, a>> \in assetClaims) /\ "graph" \in disk[a]}
    IN /\ thread[Worker].at = "compacted"
       /\ assetClaims' = kept
       /\ disk' = [a \in Assets |-> IF a \in lost THEN disk[a] \cap {"part"} ELSE disk[a]]
       /\ thread' = [thread EXCEPT ![Worker].at = "releasing"]
       /\ UNCHANGED <<jobVars, blobVars, aged, node, live, collecting, crashes>>

\* releaseWorkflowInputAssetRefs: one transaction drops the claims of compacted
\* rows and the copies that lose their last one.
ReleaseAssets ==
    LET ids == thread[Worker].ids
        kept == {r \in assetClaims : r[1] \notin ids \/ job[r[1]] # "compacted"}
        lost == {a \in Copies : /\ \E j \in ids : <<j, a>> \in assetClaims
                                /\ ~Referenced(a, kept)
                                /\ "graph" \in disk[a]}
    IN /\ thread[Worker].at = "compacted"
       /\ assetClaims' = kept
       /\ disk' = [a \in Assets |->
                     IF a \in lost THEN disk[a] \cap {"part"} ELSE disk[a]]
       /\ thread' = [thread EXCEPT ![Worker].at = "releasing"]
       /\ UNCHANGED <<jobVars, blobVars, aged, node, live, collecting, crashes>>

\* The rest of the blobs to look at, or the end of the pass.
Releasing(todo) == IF todo = {} THEN Idle
                   ELSE Thread("unlinking", todo, Nothing, {})

\* releaseQueueInputsForJobs drops the claims of the rows read first, ...
ReleaseClaims ==
    LET ids == thread[Worker].ids
        blobs == {b \in Blobs : \E j \in ids : <<j, b>> \in claims}
    IN /\ thread[Worker].at = "releasing"
       /\ claims' = {r \in claims : r[1] \notin ids}
       /\ thread' = [thread EXCEPT ![Worker] = Releasing(blobs)]
       /\ UNCHANGED <<jobVars, file, sweeping, assetVars, crashes>>

\* Mutant: the blobs of a compacted row are nobody else's.
ReleaseUnchecked(b) ==
    /\ thread[Worker].at = "unlinking"
    /\ b \in thread[Worker].todo
    /\ thread[Worker].held = Nothing
    /\ thread' = [thread EXCEPT ![Worker] =
                    Thread("unlinking", thread[Worker].todo, [blobs |-> {b}, assets |-> {}], {})]
    /\ UNCHANGED <<jobVars, blobVars, assetVars, crashes>>

\* ... then asks for each of their blobs whether anyone still claims it, ...
ReleaseCheck(b) ==
    /\ thread[Worker].at = "unlinking"
    /\ b \in thread[Worker].todo
    /\ thread[Worker].held = Nothing
    /\ thread' = [thread EXCEPT ![Worker] =
                    IF Referenced(b, claims) THEN Releasing(thread[Worker].todo \ {b})
                    ELSE Thread("unlinking", thread[Worker].todo,
                                [blobs |-> {b}, assets |-> {}], {})]
    /\ UNCHANGED <<jobVars, blobVars, assetVars, crashes>>

\* ... and removes the file, in no transaction and whatever its age.
ReleaseUnlink(b) ==
    /\ thread[Worker].at = "unlinking"
    /\ b \in thread[Worker].held.blobs
    /\ file' = [file EXCEPT ![b] = "absent"]
    /\ thread' = [thread EXCEPT ![Worker] = Releasing(thread[Worker].todo \ {b})]
    /\ UNCHANGED <<jobVars, claims, sweeping, assetVars, crashes>>

----------------------------------------------------------------------------
(* sweepOrphanQueueInputFiles: the age is read outside the transaction that *)
(* reads it again, looks for a claim and removes.                           *)

SweepStat(b) ==
    /\ thread[Worker] = Idle
    /\ sweeping = {}
    /\ file[b] = "old"
    /\ sweeping' = {b}
    /\ UNCHANGED <<jobVars, file, claims, thread, assetVars, crashes>>

SweepRemove(b) ==
    /\ thread[Worker] = Idle
    /\ sweeping = {b}
    /\ file' = IF file[b] = "old" /\ ~Referenced(b, claims)
               THEN [file EXCEPT ![b] = "absent"] ELSE file
    /\ sweeping' = {}
    /\ UNCHANGED <<jobVars, claims, thread, assetVars, crashes>>

\* The grace of one hour is longer than any enqueue.
GrowOld(b) ==
    /\ file[b] = "fresh"
    /\ \A p \in Processes : thread[p].at = "storing" => b \notin thread[p].held.blobs
    /\ file' = [file EXCEPT ![b] = "old"]
    /\ UNCHANGED <<jobVars, claims, thread, sweeping, assetVars, crashes>>

----------------------------------------------------------------------------
(* Drafts: uploaded, marked by the user, and kept for a grace after it.     *)

UploadDraft(p, d) ==
    /\ thread[p] = Idle
    /\ disk[d] = {}
    /\ \A j \in Jobs : d \notin inputs[j].assets  \* identifiers are never used twice
    /\ disk' = [disk EXCEPT ![d] = {"bin"}]
    /\ UNCHANGED <<jobVars, blobVars, thread, aged, assetClaims, node, live,
                   collecting, crashes>>

MarkDraft(p, d) ==
    /\ thread[p] = Idle
    /\ "bin" \in disk[d]
    /\ disk' = [disk EXCEPT ![d] = @ \cup {"deleted"}]
    /\ aged' = aged \ {d}
    /\ UNCHANGED <<jobVars, blobVars, thread, assetClaims, node, live,
                   collecting, crashes>>

\* The grace of thirty days is longer than any enqueue.
MarkAges(d) ==
    /\ "deleted" \in disk[d]
    /\ \A p \in Processes : d \notin thread[p].held.assets
    /\ aged' = aged \cup {d}
    /\ UNCHANGED <<jobVars, blobVars, thread, disk, assetClaims, node, live,
                   collecting, crashes>>

----------------------------------------------------------------------------
(* Copies: storeGraphQueueInputFile awaits between its files.               *)

ExecutionStarts(c) ==
    /\ thread[Worker] = Idle
    /\ node[c] = "none"
    /\ node' = [node EXCEPT ![c] = "started"]
    /\ live' = live \cup {c}
    /\ UNCHANGED <<jobVars, blobVars, thread, disk, aged, assetClaims,
                   collecting, crashes>>

\* The await that ends in state "to" has left the files "files".
CopyStep(c, from, to, files) ==
    /\ thread[Worker] = Idle
    /\ node[c] = from
    /\ node' = [node EXCEPT ![c] = to]
    /\ disk' = [disk EXCEPT ![c] = files]
    /\ UNCHANGED <<jobVars, blobVars, thread, aged, assetClaims, live,
                   collecting, crashes>>

WriteDeletedMarker(c) == CopyStep(c, "started", "marked", disk[c] \cup {"deleted"})
WriteGraphMarker(c) == CopyStep(c, "marked", "owned", disk[c] \cup {"graph"})
CopyFile(c) == CopyStep(c, "owned", "copied", disk[c] \cup {"part"})
MoveFile(c) == /\ "part" \in disk[c]
               /\ CopyStep(c, "copied", "stored", (disk[c] \ {"part"}) \cup {"bin"})
\* The catch block removes what the call owns; so does a failed move.
CopyFails(c) == /\ node[c] \in {"marked", "owned", "copied"}
                /\ CopyStep(c, node[c], "over", {})

\* executeQueueBackedComfyModule goes on: one turn creates the job, ...
EnqueueCopy(c, j) ==
    /\ thread[Worker] = Idle
    /\ node[c] = "stored"
    /\ IsNext(j)
    /\ Register(j, [blobs |-> {}, assets |-> {c}])
    /\ node' = [node EXCEPT ![c] = "over"]
    /\ UNCHANGED <<ended, file, sweeping, thread, aged, live, collecting, crashes>>

\* ... or an abort, a limit or a missing file throws, and
\* releaseUnclaimedGraphInputs removes the copy.
AbandonCopy(c) == CopyStep(c, "stored", "over", {})

\* The execution is decided: its node is over, or is late.
ExecutionEnds(c) ==
    /\ thread[Worker] = Idle
    /\ c \in live
    /\ live' = live \ {c}
    /\ node' = [node EXCEPT ![c] = IF @ = "started" THEN "over" ELSE @]
    /\ UNCHANGED <<jobVars, blobVars, thread, disk, aged, assetClaims,
                   collecting, crashes>>

----------------------------------------------------------------------------
(* pruneDeletedWorkflowInputAssets.                                         *)

\* The awaited look at the marker: a draft must have lain for the grace.
CollectLook(a) ==
    /\ thread[Worker] = Idle
    /\ collecting = {}
    /\ "deleted" \in disk[a]
    /\ "graph" \in disk[a] \/ a \in aged
    /\ collecting' = {a}
    /\ UNCHANGED <<jobVars, blobVars, thread, disk, aged, assetClaims, node,
                   live, crashes>>

\* Mutant: a copy without a claim is collected, whoever is about to claim it.
CollectableUnclaimed(a) ==
    /\ ~Referenced(a, assetClaims)
    /\ "deleted" \in disk[a]
    /\ "graph" \in disk[a] \/ (live = {} /\ a \in aged)

Collectable(a) ==
    /\ ~Referenced(a, assetClaims)
    /\ "deleted" \in disk[a]
    /\ IF "graph" \in disk[a] THEN "claimed" \in disk[a] \/ a \notin live
       ELSE live = {} /\ a \in aged

\* Mutant: what was seen before the transaction is not looked at again.
CollectSeen(a) ==
    /\ thread[Worker] = Idle
    /\ collecting = {a}
    /\ disk' = IF Referenced(a, assetClaims) THEN disk ELSE [disk EXCEPT ![a] = {}]
    /\ collecting' = {}
    /\ UNCHANGED <<jobVars, blobVars, thread, aged, assetClaims, node, live, crashes>>

CollectRemove(a) ==
    /\ thread[Worker] = Idle
    /\ collecting = {a}
    /\ disk' = IF Collectable(a) THEN [disk EXCEPT ![a] = {}] ELSE disk
    /\ collecting' = {}
    /\ UNCHANGED <<jobVars, blobVars, thread, aged, assetClaims, node, live, crashes>>

----------------------------------------------------------------------------
\* A process dies; the worker's nodes die with it, and its restart decides
\* their executions before anything else runs.
Crash(p) ==
    /\ crashes < MaxCrashes
    /\ crashes' = crashes + 1
    /\ thread' = [thread EXCEPT ![p] = Idle]
    /\ IF p = Worker
       THEN /\ sweeping' = {}
            /\ collecting' = {}
            /\ node' = [c \in Copies |-> IF node[c] = "none" THEN "none" ELSE "over"]
            /\ live' = {}
       ELSE UNCHANGED <<sweeping, collecting, node, live>>
    /\ UNCHANGED <<jobVars, file, claims, disk, aged, assetClaims>>

Enqueueing ==
    \E p \in Processes :
       \/ \E B \in SUBSET Blobs, A \in SUBSET Drafts : BeginEnqueue(p, B, A)
       \/ \E b \in Blobs : StoreBlob(p, b)
       \/ \E j \in Jobs : BeginRetry(p, j) \/ CreateJob(p, j)
       \/ RefuseJob(p)
       \/ \E j \in Jobs : \E s \in {"completed", "failed"} : EndJob(p, j, s)
       \/ \E d \in Drafts : UploadDraft(p, d) \/ MarkDraft(p, d)
       \/ Crash(p)

Pruning ==
    \/ PruneSelect \/ PruneCompact \/ ReleaseAssets \/ ReleaseClaims
    \/ \E b \in Blobs : ReleaseCheck(b) \/ ReleaseUnlink(b)

Sweeping == \E b \in Blobs : SweepStat(b) \/ SweepRemove(b)

Copying ==
    \E c \in Copies :
       \/ ExecutionStarts(c) \/ WriteDeletedMarker(c) \/ WriteGraphMarker(c)
       \/ CopyFile(c) \/ MoveFile(c) \/ CopyFails(c)
       \/ \E j \in Jobs : EnqueueCopy(c, j)
       \/ AbandonCopy(c) \/ ExecutionEnds(c)

Collecting == \E a \in Assets : CollectLook(a) \/ CollectRemove(a)

Ageing == (\E b \in Blobs : GrowOld(b)) \/ (\E d \in Drafts : MarkAges(d))

Next == Enqueueing \/ Pruning \/ Sweeping \/ Copying \/ Collecting \/ Ageing

Spec == Init /\ [][Next]_vars

----------------------------------------------------------------------------
(* Properties.                                                              *)

TypeOK ==
    /\ job \in [Jobs -> {"none", "live"} \cup Terminal]
    /\ inputs \in [Jobs -> Inputs]
    /\ ended \in Seq(Jobs)
    /\ file \in [Blobs -> {"absent", "fresh", "old"}]
    /\ claims \in SUBSET (Jobs \X Blobs)
    /\ thread \in [Processes ->
            [at : {"idle", "storing", "selected", "compacted", "releasing", "unlinking"},
             todo : SUBSET Blobs, held : Inputs, ids : SUBSET Jobs]]
    /\ sweeping \in SUBSET Blobs
    /\ disk \in [Assets -> SUBSET Marks]
    /\ aged \in SUBSET Drafts
    /\ assetClaims \in SUBSET (Jobs \X Assets)
    /\ node \in [Copies -> {"none", "started", "marked", "owned", "copied", "stored", "over"}]
    /\ live \in SUBSET Copies
    /\ collecting \in SUBSET Assets
    /\ crashes \in 0..MaxCrashes

\* Rows that may run or be retried with the inputs they were enqueued with.
Usable == {j \in Jobs : job[j] \in {"live", "completed", "failed"}}

\* A job that is not compacted finds every blob of its payload ("its inputs are
\* still there when it is" retried, database/generationQueueSchema.ts:118-124):
\* neither the release nor the sweep takes one that such a job refers to.
BlobsOfJobsAreThere ==
    \A j \in Usable : \A b \in inputs[j].blobs : file[b] # "absent"

\* The same of assets, of which the registration, the release and the collector
\* are transactions: in every deployment.
AssetsOfJobsAreThere ==
    \A j \in Usable : \A a \in inputs[j].assets : "bin" \in disk[a]

\* The collector looks at a copy that a node is still to enqueue, and leaves it
\* while the execution goes on, whatever it saw before its transaction.
CopyWaitsForItsNode ==
    \A c \in live : node[c] = "stored" => "bin" \in disk[c]

\* A draft the user has removed stays while an execution may read it, and while
\* the mark is younger than the grace (services/workflowInputAssetStore.ts:364).
DraftOutlivesExecutions ==
    [][\A d \in Drafts : disk[d] # {} /\ disk'[d] = {} => live = {} /\ d \in aged]_vars

----------------------------------------------------------------------------
(* The inductive invariants behind the first three properties.              *)

ClaimedAssets ==
    \A j \in Usable : \A a \in inputs[j].assets : <<j, a>> \in assetClaims

\* Nobody but its node knows a copy before the node is over.
PrivateCopies ==
    \A c \in Copies : node[c] # "over" =>
        /\ "claimed" \notin disk[c]
        /\ \A j \in Jobs : c \notin inputs[j].assets /\ <<j, c>> \notin assetClaims
        /\ \A p \in Processes : c \notin thread[p].held.assets

\* While its execution lives, the marker names the copy as a graph's.
OwnedCopies ==
    \A c \in live :
        /\ node[c] # "none"
        /\ node[c] \in {"owned", "copied", "stored"} => "graph" \in disk[c]
        /\ node[c] = "stored" => "bin" \in disk[c]

AssetInv == TypeOK /\ ClaimedAssets /\ AssetsOfJobsAreThere /\ PrivateCopies /\ OwnedCopies

ClaimedBlobs ==
    \A j \in Usable : \A b \in inputs[j].blobs : <<j, b>> \in claims

\* What the turn of each process has read is still so.
TurnIsCurrent ==
    \A p \in Processes :
        /\ thread[p].at = "storing" => \A b \in thread[p].held.blobs : file[b] # "absent"
        /\ thread[p].at = "selected" => thread[p].ids \subseteq Prunable
        /\ thread[p].at \in {"compacted", "releasing"} => thread[p].ids \cap Usable = {}
        /\ thread[p].at = "unlinking" =>
              \A b \in thread[p].held.blobs : ~Referenced(b, claims)

BlobInv == TypeOK /\ ClaimedBlobs /\ BlobsOfJobsAreThere /\ TurnIsCurrent

============================================================================
