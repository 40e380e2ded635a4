------------------------- MODULE InputStoresProofs -------------------------
(* Proofs about InputStores: assets of jobs that may still run are safe     *)
(* with any number of processes, blobs of such jobs when the worker is the  *)
(* only process.                                                            *)
EXTENDS InputStores, TLAPS

Phases == {"idle", "storing", "selected", "compacted", "releasing", "unlinking"}
ThreadType == [at : Phases, todo : SUBSET Blobs, held : Inputs, ids : SUBSET Jobs]

\* The records the actions build are threads.
LEMMA ThreadIsTyped ==
    ASSUME NEW at \in Phases, NEW todo \in SUBSET Blobs, NEW held \in Inputs,
           NEW ids \in SUBSET Jobs
    PROVE  Thread(at, todo, held, ids) \in ThreadType
  BY DEF Thread, ThreadType

LEMMA NothingIsTyped == Nothing \in Inputs
  BY DEF Nothing, Inputs

LEMMA IdleIsTyped == Idle \in ThreadType
  BY NothingIsTyped DEF Idle, ThreadType, Phases

\* The initial state is typed.
LEMMA InitTyped == Init => TypeOK
  BY IdleIsTyped, CrashAssumption
  DEF Init, TypeOK, Terminal, Nothing, Inputs, ThreadType, Phases, Marks, Assets

----------------------------------------------------------------------------
(* Typing.                                                                  *)

USE DEF jobVars, blobVars, assetVars, vars

\* Every step of Next keeps the variables in their types.
LEMMA TypedSteps == TypeOK /\ Next => TypeOK'
<1> SUFFICES ASSUME TypeOK, Next PROVE TypeOK'
  OBVIOUS
<1>t. /\ thread \in [Processes -> ThreadType]
      /\ TypeOK' <=> (TypeOK' /\ thread' \in [Processes -> ThreadType])
  BY DEF TypeOK, ThreadType, Phases
<1>1. ASSUME NEW p \in Processes, NEW B \in SUBSET Blobs, NEW A \in SUBSET Drafts,
             BeginEnqueue(p, B, A)
      PROVE  TypeOK'
  <2>1. Thread("storing", B, [blobs |-> {}, assets |-> A], {}) \in ThreadType
    BY ThreadIsTyped DEF Phases, Inputs, Assets
  <2> QED
    BY <1>1, <1>t, <2>1 DEF BeginEnqueue, TypeOK, ThreadType, Phases
<1>2. ASSUME NEW p \in Processes, NEW b \in Blobs, StoreBlob(p, b)
      PROVE  TypeOK'
  <2>1. /\ thread[p].todo \ {b} \in SUBSET Blobs
        /\ [blobs |-> thread[p].held.blobs \cup {b}, assets |-> thread[p].held.assets] \in Inputs
    BY DEF TypeOK, Inputs
  <2>2. Thread("storing", thread[p].todo \ {b},
               [blobs |-> thread[p].held.blobs \cup {b}, assets |-> thread[p].held.assets], {})
          \in ThreadType
    BY <2>1, ThreadIsTyped DEF Phases
  <2> QED
    BY <1>2, <1>t, <2>2 DEF StoreBlob, TypeOK, ThreadType, Phases
<1>3. ASSUME NEW p \in Processes, NEW j \in Jobs, BeginRetry(p, j)
      PROVE  TypeOK'
  <2>1. Thread("storing", {}, inputs[j], {}) \in ThreadType
    BY ThreadIsTyped DEF Phases, TypeOK
  <2> QED
    BY <1>3, <1>t, <2>1 DEF BeginRetry, TypeOK, ThreadType, Phases
<1>4. ASSUME NEW p \in Processes, NEW j \in Jobs, CreateJob(p, j)
      PROVE  TypeOK'
  <2>1. thread[p].held \in Inputs
    BY DEF TypeOK
  <2> QED
    BY <1>4, <1>t, <2>1, IdleIsTyped
    DEF CreateJob, Register, TypeOK, ThreadType, Phases, Inputs, Marks
<1>5. ASSUME NEW p \in Processes, RefuseJob(p)
      PROVE  TypeOK'
  BY <1>5, <1>t, IdleIsTyped DEF RefuseJob, TypeOK, ThreadType, Phases
<1>6. ASSUME NEW p \in Processes, NEW j \in Jobs, NEW s \in {"completed", "failed"},
             EndJob(p, j, s)
      PROVE  TypeOK'
  BY <1>6 DEF EndJob, TypeOK, Terminal
<1>7. ASSUME NEW p \in Processes, NEW d \in Drafts, UploadDraft(p, d) \/ MarkDraft(p, d)
      PROVE  TypeOK'
  BY <1>7 DEF UploadDraft, MarkDraft, TypeOK, Marks, Assets
<1>8. ASSUME NEW p \in Processes, Crash(p)
      PROVE  TypeOK'
  BY <1>8, <1>t, IdleIsTyped, CrashAssumption DEF Crash, TypeOK, ThreadType, Phases
<1>9. CASE PruneSelect
  <2>1. Thread("selected", {}, Nothing, Prunable) \in ThreadType
    BY ThreadIsTyped, NothingIsTyped DEF Phases, Prunable
  <2> QED
    BY <1>9, <1>t, <2>1, WorkerAssumption DEF PruneSelect, TypeOK, ThreadType, Phases
<1>10. CASE PruneCompact
  BY <1>10, WorkerAssumption DEF PruneCompact, TypeOK, Terminal
<1>11. CASE ReleaseAssets
  BY <1>11, WorkerAssumption DEF ReleaseAssets, TypeOK
<1>12. \A todo \in SUBSET Blobs : Releasing(todo) \in ThreadType
  BY ThreadIsTyped, IdleIsTyped, NothingIsTyped DEF Releasing, Phases
<1>13. CASE ReleaseClaims
  <2> DEFINE blobs == {b \in Blobs : \E j \in thread[Worker].ids : <<j, b>> \in claims}
  <2>1. Releasing(blobs) \in ThreadType
    BY <1>12
  <2>2. claims' \in SUBSET (Jobs \X Blobs)
    BY <1>13 DEF ReleaseClaims, TypeOK
  <2>3. thread' = [thread EXCEPT ![Worker] = Releasing(blobs)]
    BY <1>13 DEF ReleaseClaims
  <2> QED
    BY <1>13, <1>t, <2>1, <2>2, <2>3 DEF ReleaseClaims, TypeOK, ThreadType, Phases
<1>14. ASSUME NEW b \in Blobs, ReleaseCheck(b)
       PROVE  TypeOK'
  <2>1. thread[Worker].todo \in SUBSET Blobs
    BY WorkerAssumption DEF TypeOK
  <2>2. /\ Releasing(thread[Worker].todo \ {b}) \in ThreadType
        /\ Thread("unlinking", thread[Worker].todo, [blobs |-> {b}, assets |-> {}], {})
              \in ThreadType
    BY <1>12, <2>1, ThreadIsTyped DEF Phases, Inputs
  <2> QED
    BY <1>14, <1>t, <2>2 DEF ReleaseCheck, TypeOK, ThreadType, Phases
<1>15. ASSUME NEW b \in Blobs, ReleaseUnlink(b)
       PROVE  TypeOK'
  <2>1. Releasing(thread[Worker].todo \ {b}) \in ThreadType
    BY <1>12, WorkerAssumption DEF TypeOK
  <2> QED
    BY <1>15, <1>t, <2>1 DEF ReleaseUnlink, TypeOK, ThreadType, Phases
<1>16. ASSUME NEW b \in Blobs, SweepStat(b) \/ SweepRemove(b) \/ GrowOld(b)
       PROVE  TypeOK'
  BY <1>16 DEF SweepStat, SweepRemove, GrowOld, TypeOK
<1>17. ASSUME NEW d \in Drafts, MarkAges(d)
       PROVE  TypeOK'
  BY <1>17 DEF MarkAges, TypeOK
<1>18. ASSUME NEW c \in Copies, NEW from,
              NEW to \in {"marked", "owned", "copied", "stored", "over"},
              NEW files \in SUBSET Marks, CopyStep(c, from, to, files)
       PROVE  TypeOK'
  BY <1>18 DEF CopyStep, TypeOK, Assets
<1>19. ASSUME NEW c \in Copies, CopyFails(c) \/ WriteDeletedMarker(c)
              \/ WriteGraphMarker(c) \/ CopyFile(c) \/ MoveFile(c) \/ AbandonCopy(c)
       PROVE  TypeOK'
  <2>1. /\ {} \in SUBSET Marks
        /\ disk[c] \cup {"deleted"} \in SUBSET Marks /\ disk[c] \cup {"graph"} \in SUBSET Marks
        /\ disk[c] \cup {"part"} \in SUBSET Marks
        /\ (disk[c] \ {"part"}) \cup {"bin"} \in SUBSET Marks
    BY DEF TypeOK, Assets, Marks
  <2> QED
    BY ONLY <1>18, <1>19, <2>1
    DEF CopyFails, WriteDeletedMarker, WriteGraphMarker, CopyFile, MoveFile, AbandonCopy
<1>20. ASSUME NEW c \in Copies, ExecutionStarts(c) \/ ExecutionEnds(c)
       PROVE  TypeOK'
  BY <1>20 DEF ExecutionStarts, ExecutionEnds, TypeOK
<1>21. ASSUME NEW c \in Copies, NEW j \in Jobs, EnqueueCopy(c, j)
       PROVE  TypeOK'
  <2>1. [blobs |-> {}, assets |-> {c}] \in Inputs
    BY DEF Inputs, Assets
  <2> QED
    BY <1>21, <2>1 DEF EnqueueCopy, Register, TypeOK, Inputs, Marks
<1>22. ASSUME NEW a \in Assets, CollectLook(a) \/ CollectRemove(a)
       PROVE  TypeOK'
  BY <1>22 DEF CollectLook, CollectRemove, TypeOK
<1> QED
  BY <1>1, <1>2, <1>3, <1>4, <1>5, <1>6, <1>7, <1>8, <1>9, <1>10, <1>11, <1>13, <1>14,
     <1>15, <1>16, <1>17, <1>19, <1>20, <1>21, <1>22
  DEF Next, Enqueueing, Pruning, Sweeping, Copying, Collecting, Ageing

\* Stuttering keeps the types too.
LEMMA TypedStutter == TypeOK /\ UNCHANGED vars => TypeOK'
  BY DEF TypeOK

----------------------------------------------------------------------------
(* Assets, in any deployment.                                               *)

\* The initial state satisfies the invariant.
LEMMA InitAssets == Init => AssetInv
  BY InitTyped
  DEF Init, AssetInv, ClaimedAssets, AssetsOfJobsAreThere, PrivateCopies, OwnedCopies,
      Usable, Nothing, Idle, Assets

\* What the invariant is about, where a step leaves the assets alone: rows only
\* leave Usable, and no thread comes to hold an asset it did not hold or read.
LEMMA AssetsAlone ==
  ASSUME AssetInv, TypeOK', Usable' \subseteq Usable,
         UNCHANGED <<inputs, disk, assetClaims, node, live>>,
         \A p \in Processes, c \in Copies :
            c \in thread'[p].held.assets =>
               c \in thread[p].held.assets \/ \E j \in Jobs : c \in inputs[j].assets
  PROVE  AssetInv'
  BY DEF AssetInv, ClaimedAssets, AssetsOfJobsAreThere, PrivateCopies, OwnedCopies

\* A new row claims what the transaction has seen on the disk.
LEMMA RegisterKeeps ==
  ASSUME AssetInv, TypeOK', NEW j \in Jobs, NEW held \in Inputs,
         job[j] = "none", Register(j, held), UNCHANGED live,
         \A p \in Processes : thread'[p].held.assets \subseteq thread[p].held.assets,
         \A c \in held.assets \cap Copies : node'[c] = "over",
         \A c \in Copies : node'[c] = node[c] \/ node'[c] = "over"
  PROVE  AssetInv'
<1> USE DEF AssetInv, Register
<1>1. /\ \A a \in Assets : disk[a] \subseteq disk'[a]
      /\ \A a \in Assets : a \notin held.assets => disk'[a] = disk[a]
  BY DEF TypeOK
<1>2. /\ inputs'[j] = held
      /\ \A k \in Jobs : k # j => inputs'[k] = inputs[k]
      /\ Usable' = Usable \cup {j}
      /\ held.assets \subseteq Assets
  BY DEF TypeOK, Usable, Inputs
<1>3. ClaimedAssets'
  <2> SUFFICES ASSUME NEW k \in Usable', NEW a \in inputs'[k].assets
               PROVE  <<k, a>> \in assetClaims'
    BY DEF ClaimedAssets
  <2>1. CASE k = j
    BY <1>2, <2>1
  <2>2. CASE k # j
    <3>1. k \in Usable /\ a \in inputs[k].assets
      BY <1>2, <2>2 DEF Usable
    <3> QED
      BY <3>1 DEF ClaimedAssets
  <2> QED
    BY <2>1, <2>2
<1>4. AssetsOfJobsAreThere'
  <2> SUFFICES ASSUME NEW k \in Usable', NEW a \in inputs'[k].assets
               PROVE  "bin" \in disk'[a]
    BY DEF AssetsOfJobsAreThere
  <2>1. a \in Assets
    BY DEF TypeOK, Inputs, Usable
  <2>2. "bin" \in disk[a]
    BY <1>2 DEF AssetsOfJobsAreThere
  <2> QED
    BY <1>1, <2>1, <2>2
<1>5. PrivateCopies'
  <2> SUFFICES ASSUME NEW c \in Copies, node'[c] # "over"
               PROVE  /\ "claimed" \notin disk'[c]
                      /\ \A k \in Jobs : c \notin inputs'[k].assets /\ <<k, c>> \notin assetClaims'
                      /\ \A p \in Processes : c \notin thread'[p].held.assets
    BY DEF PrivateCopies
  <2>1. node[c] # "over" /\ c \notin held.assets
    OBVIOUS
  <2>2. c \in Assets /\ disk'[c] = disk[c]
    BY <1>1, <2>1 DEF Assets
  <2> QED
    BY <1>2, <2>1, <2>2 DEF PrivateCopies
<1>6. OwnedCopies'
  <2> SUFFICES ASSUME NEW c \in live, node'[c] # "over"
               PROVE  disk'[c] = disk[c] /\ node'[c] = node[c] /\ c \in Copies
    BY DEF OwnedCopies, TypeOK
  <2>1. c \in Copies /\ c \in Assets /\ c \notin held.assets
    BY DEF TypeOK, Assets
  <2> QED
    BY <1>1, <2>1
<1> QED
  BY <1>3, <1>4, <1>5, <1>6

\* A node that is not over moves one copy that no row and no thread knows.
LEMMA CopyStepKeeps ==
  ASSUME AssetInv, TypeOK', NEW c \in Copies, NEW from, NEW to, NEW files,
         CopyStep(c, from, to, files), from # "over",
         to # "none", to # "over" => "claimed" \notin files,
         c \in live =>
            /\ to \in {"owned", "copied", "stored"} => "graph" \in files
            /\ to = "stored" => "bin" \in files
  PROVE  AssetInv'
<1> USE DEF AssetInv, CopyStep
<1>1. /\ \A a \in Assets : a # c => disk'[a] = disk[a]
      /\ \A k \in Copies : k # c => node'[k] = node[k]
      /\ disk'[c] = files /\ node'[c] = to /\ c \in Assets
  BY DEF TypeOK, Assets
<1>2. \A j \in Jobs : c \notin inputs[j].assets
  BY DEF PrivateCopies
<1>3. ClaimedAssets'
  BY DEF ClaimedAssets, Usable
<1>4. AssetsOfJobsAreThere'
  BY <1>1, <1>2 DEF AssetsOfJobsAreThere, Usable, TypeOK, Inputs
<1>5. PrivateCopies'
  BY <1>1 DEF PrivateCopies
<1>6. OwnedCopies'
  BY <1>1 DEF OwnedCopies, TypeOK, Assets
<1> QED
  BY <1>3, <1>4, <1>5, <1>6

\* Removing or marking files of assets that no usable row is the worse for.
LEMMA DiskKeeps ==
  ASSUME AssetInv, TypeOK', Usable' = Usable, UNCHANGED <<inputs, node, live>>,
         \A p \in Processes : thread'[p].held = thread[p].held \/ thread'[p].held = Nothing,
         assetClaims' \subseteq assetClaims,
         \A j \in Usable, a \in Assets : <<j, a>> \in assetClaims => <<j, a>> \in assetClaims',
         \A j \in Usable : \A a \in inputs[j].assets : "bin" \in disk'[a],
         \A c \in Copies : "claimed" \in disk'[c] => "claimed" \in disk[c],
         \A c \in live : node[c] # "over" => disk'[c] = disk[c]
  PROVE  AssetInv'
<1> USE DEF AssetInv
<1>1. ClaimedAssets'
  BY DEF ClaimedAssets, TypeOK, Inputs, Usable
<1>2. AssetsOfJobsAreThere'
  BY DEF AssetsOfJobsAreThere
<1>3. PrivateCopies'
  BY DEF PrivateCopies, Nothing
<1>4. OwnedCopies'
  BY DEF OwnedCopies, TypeOK
<1> QED
  BY <1>1, <1>2, <1>3, <1>4

\* No action of the release, of the sweep or of the clock touches an asset of a
\* row that may still be used; no other action lets anyone know a copy too early.
LEMMA AssetSteps == AssetInv /\ Next => AssetInv'
<1> SUFFICES ASSUME AssetInv, Next PROVE AssetInv'
  OBVIOUS
<1>t. TypeOK /\ TypeOK' /\ Worker \in Processes
  BY TypedSteps, WorkerAssumption DEF AssetInv
<1>r. thread \in [Processes -> ThreadType] /\ Nothing.assets = {} /\ Idle.held = Nothing
  BY <1>t DEF TypeOK, ThreadType, Phases, Nothing, Idle
<1>1. ASSUME NEW p \in Processes, NEW B \in SUBSET Blobs, NEW A \in SUBSET Drafts,
             BeginEnqueue(p, B, A)
      PROVE  AssetInv'
  <2>1. \A q \in Processes, c \in Copies :
            c \in thread'[q].held.assets => c \in thread[q].held.assets
    BY <1>1, <1>r, AssetAssumption DEF BeginEnqueue, Thread
  <2> QED
    BY <1>1, <1>t, <2>1, AssetsAlone DEF BeginEnqueue, Usable
<1>2. ASSUME NEW p \in Processes, NEW b \in Blobs, StoreBlob(p, b)
      PROVE  AssetInv'
  <2>1. \A q \in Processes : thread'[q].held.assets = thread[q].held.assets
    BY <1>2, <1>r DEF StoreBlob, Thread
  <2> QED
    BY <1>2, <1>t, <2>1, AssetsAlone DEF StoreBlob, Usable
<1>3. ASSUME NEW p \in Processes, NEW j \in Jobs, BeginRetry(p, j)
      PROVE  AssetInv'
  <2>1. \A q \in Processes, c \in Copies :
            c \in thread'[q].held.assets =>
               c \in thread[q].held.assets \/ \E k \in Jobs : c \in inputs[k].assets
    BY <1>3, <1>r DEF BeginRetry, Thread
  <2> QED
    BY <1>3, <1>t, <2>1, AssetsAlone DEF BeginRetry, Usable
<1>4. ASSUME NEW p \in Processes, NEW j \in Jobs, CreateJob(p, j)
      PROVE  AssetInv'
  <2> DEFINE held == thread[p].held
  <2>1. held \in Inputs /\ job[j] = "none" /\ Register(j, held) /\ UNCHANGED <<live, node>>
    BY <1>4, <1>r DEF CreateJob, IsNext, ThreadType
  <2>2. \A q \in Processes : thread'[q].held.assets \subseteq thread[q].held.assets
    BY <1>4, <1>r DEF CreateJob
  <2>3. \A c \in held.assets \cap Copies : node[c] = "over"
    BY DEF AssetInv, PrivateCopies
  <2> QED
    BY <1>t, <2>1, <2>2, <2>3, RegisterKeeps
<1>5. ASSUME NEW p \in Processes, RefuseJob(p)
      PROVE  AssetInv'
  <2>1. \A q \in Processes : thread'[q].held.assets \subseteq thread[q].held.assets
    BY <1>5, <1>r DEF RefuseJob
  <2> QED
    BY <1>5, <1>t, <2>1, AssetsAlone DEF RefuseJob, Usable
<1>6. ASSUME NEW p \in Processes, NEW j \in Jobs, NEW s \in {"completed", "failed"},
             EndJob(p, j, s)
      PROVE  AssetInv'
  <2>1. Usable' \subseteq Usable
    BY <1>6, <1>t DEF EndJob, Usable, TypeOK
  <2> QED
    BY <1>6, <1>t, <2>1, AssetsAlone DEF EndJob
<1>7. ASSUME NEW p \in Processes, NEW d \in Drafts, UploadDraft(p, d) \/ MarkDraft(p, d)
      PROVE  AssetInv'
  <2>1. \A a \in Assets : disk[a] \subseteq disk'[a]
    BY <1>7, <1>t DEF UploadDraft, MarkDraft, TypeOK, Assets
  <2>2. \A c \in Copies : disk'[c] = disk[c]
    BY <1>7, <1>t, AssetAssumption DEF UploadDraft, MarkDraft, TypeOK, Assets
  <2>3. \A j \in Usable : \A a \in inputs[j].assets : "bin" \in disk'[a]
    BY <1>t, <2>1 DEF AssetInv, AssetsOfJobsAreThere, TypeOK, Inputs, Usable
  <2>4. /\ Usable' = Usable /\ UNCHANGED <<inputs, node, live, thread, assetClaims>>
        /\ live \subseteq Copies
    BY <1>7, <1>t DEF UploadDraft, MarkDraft, Usable, TypeOK
  <2> QED
    BY <1>t, <2>2, <2>3, <2>4, DiskKeeps
<1>8. ASSUME NEW p \in Processes, Crash(p)
      PROVE  AssetInv'
  <2>1. /\ UNCHANGED <<job, inputs, disk, assetClaims>> /\ live' \subseteq live
        /\ Usable' = Usable
    BY <1>8 DEF Crash, Usable
  <2>2. \A c \in Copies : node'[c] # "over" => node'[c] = node[c]
    BY <1>8, <1>t DEF Crash, TypeOK
  <2>3. \A q \in Processes : thread'[q].held.assets \subseteq thread[q].held.assets
    BY <1>8, <1>r DEF Crash
  <2>4. \A c \in live' : node'[c] = node[c]
    BY <1>8 DEF Crash
  <2> QED
    BY <1>t, <2>1, <2>2, <2>3, <2>4
    DEF AssetInv, ClaimedAssets, AssetsOfJobsAreThere, PrivateCopies, OwnedCopies, TypeOK
<1>9. CASE PruneSelect
  <2>1. \A q \in Processes : thread'[q].held.assets \subseteq thread[q].held.assets
    BY <1>9, <1>r DEF PruneSelect, Thread
  <2> QED
    BY <1>9, <1>t, <2>1, AssetsAlone DEF PruneSelect, Usable
<1>10. CASE PruneCompact
  <2>1. \A q \in Processes : thread'[q].held = thread[q].held
    BY <1>10, <1>r DEF PruneCompact, ThreadType
  <2>2. Usable' \subseteq Usable
    BY <1>10, <1>t DEF PruneCompact, Usable, TypeOK
  <2> QED
    BY <1>10, <1>t, <2>1, <2>2, AssetsAlone DEF PruneCompact
<1>11. CASE ReleaseAssets
  <2>1. Usable' = Usable /\ UNCHANGED <<inputs, node, live>> /\ assetClaims' \subseteq assetClaims
    BY <1>11 DEF ReleaseAssets, Usable
  <2>2. \A q \in Processes : thread'[q].held = thread[q].held
    BY <1>11, <1>r DEF ReleaseAssets, ThreadType
  <2>3. \A j \in Usable, a \in Assets : <<j, a>> \in assetClaims => <<j, a>> \in assetClaims'
    BY <1>11 DEF ReleaseAssets, Usable
  <2>4. \A j \in Jobs, a \in Assets : <<j, a>> \in assetClaims' => disk'[a] = disk[a]
    BY <1>11, <1>t DEF ReleaseAssets, Referenced, TypeOK
  <2>5. \A j \in Usable : \A a \in inputs[j].assets : "bin" \in disk'[a]
    <3> SUFFICES ASSUME NEW j \in Usable, NEW a \in inputs[j].assets
                 PROVE  "bin" \in disk'[a]
      OBVIOUS
    <3>1. j \in Jobs /\ a \in Assets /\ <<j, a>> \in assetClaims /\ "bin" \in disk[a]
      BY <1>t DEF AssetInv, ClaimedAssets, AssetsOfJobsAreThere, TypeOK, Inputs, Usable
    <3> QED
      BY <2>3, <2>4, <3>1
  <2>6. \A c \in live : node[c] # "over" => disk'[c] = disk[c]
    <3> SUFFICES ASSUME NEW c \in live, node[c] # "over" PROVE disk'[c] = disk[c]
      OBVIOUS
    <3>1. c \in Copies /\ c \in Assets
      BY <1>t DEF TypeOK, Assets
    <3>2. \A j \in Jobs : <<j, c>> \notin assetClaims
      BY <3>1 DEF AssetInv, PrivateCopies
    <3>3. thread[Worker].ids \subseteq Jobs
      BY <1>r, <1>t DEF ThreadType
    <3> QED
      BY <1>11, <1>t, <3>1, <3>2, <3>3 DEF ReleaseAssets, TypeOK
  <2>7. \A c \in Copies : "claimed" \in disk'[c] => "claimed" \in disk[c]
    BY <1>11 DEF ReleaseAssets, Assets
  <2> QED
    BY <1>t, <2>1, <2>2, <2>3, <2>5, <2>6, <2>7, DiskKeeps
<1>12. CASE ReleaseClaims
  <2>1. \A q \in Processes : thread'[q].held.assets \subseteq thread[q].held.assets
    BY <1>12, <1>r DEF ReleaseClaims, Releasing, Thread
  <2> QED
    BY <1>12, <1>t, <2>1, AssetsAlone DEF ReleaseClaims, Usable
<1>13. ASSUME NEW b \in Blobs, ReleaseCheck(b) \/ ReleaseUnlink(b)
       PROVE  AssetInv'
  <2>1. \A q \in Processes : thread'[q].held.assets \subseteq thread[q].held.assets
    BY <1>13, <1>r DEF ReleaseCheck, ReleaseUnlink, Releasing, Thread
  <2> QED
    BY <1>13, <1>t, <2>1, AssetsAlone DEF ReleaseCheck, ReleaseUnlink, Usable
<1>14. ASSUME NEW b \in Blobs, SweepStat(b) \/ SweepRemove(b) \/ GrowOld(b)
       PROVE  AssetInv'
  BY <1>14, <1>t, AssetsAlone DEF SweepStat, SweepRemove, GrowOld, Usable
<1>15. ASSUME NEW d \in Drafts, MarkAges(d)
       PROVE  AssetInv'
  BY <1>15, <1>t, AssetsAlone DEF MarkAges, Usable
<1>16. ASSUME NEW c \in Copies, ExecutionStarts(c)
       PROVE  AssetInv'
  BY <1>16, <1>t DEF ExecutionStarts, AssetInv, ClaimedAssets, AssetsOfJobsAreThere,
     PrivateCopies, OwnedCopies, Usable, TypeOK
<1>17. ASSUME NEW c \in Copies, WriteDeletedMarker(c) \/ WriteGraphMarker(c) \/ CopyFile(c)
              \/ MoveFile(c) \/ CopyFails(c) \/ AbandonCopy(c)
       PROVE  AssetInv'
  <2>1. /\ c \in live /\ node[c] \in {"owned", "copied", "stored"} => "graph" \in disk[c]
        /\ node[c] # "over" => "claimed" \notin disk[c]
    BY DEF AssetInv, OwnedCopies, PrivateCopies
  <2>2. CASE WriteDeletedMarker(c)
    <3>1. CopyStep(c, "started", "marked", disk[c] \cup {"deleted"})
      BY <2>2 DEF WriteDeletedMarker
    <3>2. node[c] = "started"
      BY <3>1 DEF CopyStep
    <3> QED
      BY <1>t, <2>1, <3>1, <3>2, CopyStepKeeps
  <2>3. CASE WriteGraphMarker(c)
    <3>1. CopyStep(c, "marked", "owned", disk[c] \cup {"graph"})
      BY <2>3 DEF WriteGraphMarker
    <3>2. node[c] = "marked"
      BY <3>1 DEF CopyStep
    <3> QED
      BY <1>t, <2>1, <3>1, <3>2, CopyStepKeeps
  <2>4. CASE CopyFile(c)
    <3>1. CopyStep(c, "owned", "copied", disk[c] \cup {"part"})
      BY <2>4 DEF CopyFile
    <3>2. node[c] = "owned"
      BY <3>1 DEF CopyStep
    <3> QED
      BY <1>t, <2>1, <3>1, <3>2, CopyStepKeeps
  <2>5. CASE MoveFile(c)
    <3>1. CopyStep(c, "copied", "stored", (disk[c] \ {"part"}) \cup {"bin"})
      BY <2>5 DEF MoveFile
    <3>2. node[c] = "copied"
      BY <3>1 DEF CopyStep
    <3> QED
      BY <1>t, <2>1, <3>1, <3>2, CopyStepKeeps
  <2>6. CASE CopyFails(c)
    BY <1>t, <2>6, CopyStepKeeps DEF CopyFails
  <2>7. CASE AbandonCopy(c)
    BY <1>t, <2>7, CopyStepKeeps DEF AbandonCopy
  <2> QED
    BY <1>17, <2>2, <2>3, <2>4, <2>5, <2>6, <2>7
<1>18. ASSUME NEW c \in Copies, NEW j \in Jobs, EnqueueCopy(c, j)
       PROVE  AssetInv'
  <2> DEFINE held == [blobs |-> {}, assets |-> {c}]
  <2>1. held \in Inputs /\ job[j] = "none" /\ Register(j, held) /\ UNCHANGED <<live, thread>>
    BY <1>18 DEF EnqueueCopy, IsNext, Inputs, Assets
  <2>2. node'[c] = "over" /\ \A k \in Copies : node'[k] = node[k] \/ node'[k] = "over"
    BY <1>18, <1>t DEF EnqueueCopy, TypeOK
  <2>3. \A k \in held.assets \cap Copies : node'[k] = "over"
    BY <2>2
  <2>4. \A p \in Processes : thread'[p].held.assets \subseteq thread[p].held.assets
    BY <2>1
  <2> HIDE DEF held
  <2> QED
    BY <1>t, <2>1, <2>2, <2>3, <2>4, RegisterKeeps
<1>19. ASSUME NEW c \in Copies, ExecutionEnds(c)
       PROVE  AssetInv'
  <2>1. /\ UNCHANGED <<job, inputs, disk, assetClaims, thread>> /\ live' \subseteq live
        /\ Usable' = Usable
        /\ \A k \in Copies : node'[k] # "over" => node'[k] = node[k]
    BY <1>19, <1>t DEF ExecutionEnds, Usable, TypeOK
  <2>2. \A k \in live' : node'[k] = node[k]
    BY <1>19, <1>t DEF ExecutionEnds, TypeOK
  <2> QED
    BY <1>t, <2>1, <2>2
    DEF AssetInv, ClaimedAssets, AssetsOfJobsAreThere, PrivateCopies, OwnedCopies, TypeOK
<1>20. ASSUME NEW a \in Assets, CollectLook(a)
       PROVE  AssetInv'
  BY <1>20, <1>t, AssetsAlone DEF CollectLook, Usable
<1>21. ASSUME NEW a \in Assets, CollectRemove(a)
       PROVE  AssetInv'
  <2>1. Usable' = Usable /\ UNCHANGED <<inputs, node, live, thread, assetClaims>>
    BY <1>21 DEF CollectRemove, Usable
  <2>2. \A k \in Assets : k # a => disk'[k] = disk[k]
    BY <1>21, <1>t DEF CollectRemove, TypeOK
  <2>3. disk'[a] # disk[a] => Collectable(a)
    BY <1>21 DEF CollectRemove
  <2>4. \A j \in Usable : \A k \in inputs[j].assets : "bin" \in disk'[k]
    <3> SUFFICES ASSUME NEW j \in Usable, NEW k \in inputs[j].assets
                 PROVE  "bin" \in disk'[k]
      OBVIOUS
    <3>1. j \in Jobs /\ k \in Assets /\ <<j, k>> \in assetClaims /\ "bin" \in disk[k]
      BY <1>t DEF AssetInv, ClaimedAssets, AssetsOfJobsAreThere, TypeOK, Inputs, Usable
    <3> QED
      BY <2>2, <2>3, <3>1 DEF Collectable, Referenced
  <2>5. \A c \in live : node[c] # "over" => disk'[c] = disk[c]
    <3> SUFFICES ASSUME a \in live, node[a] # "over" PROVE disk'[a] = disk[a]
      BY <1>t, <2>2 DEF TypeOK, Assets
    <3>1. a \in Copies
      BY <1>t DEF TypeOK
    <3>2. "claimed" \notin disk[a] /\ live # {}
      BY <3>1 DEF AssetInv, PrivateCopies
    <3> QED
      BY <2>3, <3>2 DEF Collectable
  <2>6. \A c \in Copies : "claimed" \in disk'[c] => "claimed" \in disk[c]
    BY <1>21, <1>t DEF CollectRemove, TypeOK, Assets
  <2> QED
    BY <1>t, <2>1, <2>4, <2>5, <2>6, DiskKeeps
<1> QED
  BY <1>1, <1>2, <1>3, <1>4, <1>5, <1>6, <1>7, <1>8, <1>9, <1>10, <1>11, <1>12, <1>13, <1>14,
     <1>15, <1>16, <1>17, <1>18, <1>19, <1>20, <1>21
  DEF Next, Enqueueing, Pruning, Sweeping, Copying, Collecting, Ageing

LEMMA AssetStutter == AssetInv /\ UNCHANGED vars => AssetInv'
  BY TypedStutter
  DEF AssetInv, ClaimedAssets, AssetsOfJobsAreThere, PrivateCopies, OwnedCopies, Usable

\* The invariant about assets holds in every reachable state, whatever the
\* number of processes.
THEOREM AssetInvariance == Spec => []AssetInv
<1>1. AssetInv /\ [Next]_vars => AssetInv'
  BY AssetSteps, AssetStutter
<1> QED
  BY <1>1, InitAssets, PTL DEF Spec

\* Every asset of a job that may run or be retried is on the disk.
THEOREM AssetsAreSafe == Spec => []AssetsOfJobsAreThere
<1>1. AssetInv => AssetsOfJobsAreThere
  BY DEF AssetInv
<1> QED
  BY <1>1, AssetInvariance, PTL

\* A copy stays until its node enqueues it or its execution ends.
THEOREM CopiesWait == Spec => []CopyWaitsForItsNode
<1>1. AssetInv => CopyWaitsForItsNode
  BY DEF AssetInv, OwnedCopies, CopyWaitsForItsNode
<1> QED
  BY <1>1, AssetInvariance, PTL

----------------------------------------------------------------------------
(* Drafts: what a step may remove.                                          *)

\* The marker of a graph's copy is never beside a draft.
PlainDrafts == TypeOK /\ \A d \in Drafts : "graph" \notin disk[d]

\* Only the collector removes a draft, and then for the reasons of a draft.
LEMMA DraftSteps ==
  ASSUME PlainDrafts, Next
  PROVE  /\ PlainDrafts'
         /\ \A d \in Drafts : disk[d] # {} /\ disk'[d] = {} => live = {} /\ d \in aged
<1>t. TypeOK /\ TypeOK'
  BY TypedSteps DEF PlainDrafts
<1> DEFINE Kept(d) == /\ "graph" \notin disk'[d]
                      /\ disk[d] # {} /\ disk'[d] = {} => live = {} /\ d \in aged
<1> SUFFICES ASSUME NEW d \in Drafts PROVE Kept(d)
  BY <1>t DEF PlainDrafts
<1>d. d \in Assets /\ d \notin Copies /\ "graph" \notin disk[d]
  BY AssetAssumption DEF Assets, PlainDrafts
<1>1. ASSUME NEW j \in Jobs, NEW held, Register(j, held) PROVE Kept(d)
  BY <1>1, <1>d DEF Register
<1>2. ASSUME ReleaseAssets PROVE Kept(d)
  BY <1>2, <1>d DEF ReleaseAssets
<1>3. ASSUME NEW p \in Processes, NEW e \in Drafts, UploadDraft(p, e) \/ MarkDraft(p, e)
      PROVE  Kept(d)
  BY <1>3, <1>d, <1>t DEF UploadDraft, MarkDraft, TypeOK
<1>4. ASSUME NEW c \in Copies, NEW from, NEW to, NEW files, CopyStep(c, from, to, files)
      PROVE  Kept(d)
  BY <1>4, <1>d, <1>t DEF CopyStep, TypeOK
<1>5. ASSUME NEW c \in Copies, WriteDeletedMarker(c) \/ WriteGraphMarker(c) \/ CopyFile(c)
              \/ MoveFile(c) \/ CopyFails(c) \/ AbandonCopy(c)
      PROVE  Kept(d)
  BY ONLY <1>4, <1>5
  DEF WriteDeletedMarker, WriteGraphMarker, CopyFile, MoveFile, CopyFails, AbandonCopy
<1>6. ASSUME NEW a \in Assets, CollectRemove(a) PROVE Kept(d)
  BY <1>6, <1>d, <1>t DEF CollectRemove, Collectable, TypeOK
<1>7. ASSUME UNCHANGED disk PROVE Kept(d)
  BY <1>7, <1>d
<1>8. ASSUME NEW p \in Processes, NEW j \in Jobs, CreateJob(p, j) PROVE Kept(d)
  BY <1>1, <1>8 DEF CreateJob
<1>9. ASSUME NEW c \in Copies, NEW j \in Jobs, EnqueueCopy(c, j) PROVE Kept(d)
  BY <1>1, <1>9 DEF EnqueueCopy
<1>10. CASE Enqueueing
  BY <1>3, <1>7, <1>8, <1>10
  DEF Enqueueing, BeginEnqueue, StoreBlob, BeginRetry, RefuseJob, EndJob, Crash
<1>11. CASE Pruning
  BY <1>2, <1>7, <1>11
  DEF Pruning, PruneSelect, PruneCompact, ReleaseClaims, ReleaseCheck, ReleaseUnlink
<1>12. CASE Copying
  BY <1>5, <1>7, <1>9, <1>12 DEF Copying, ExecutionStarts, ExecutionEnds
<1>13. CASE Collecting
  BY <1>6, <1>7, <1>13 DEF Collecting, CollectLook
<1>14. CASE Sweeping \/ Ageing
  BY <1>7, <1>14 DEF Sweeping, SweepStat, SweepRemove, Ageing, GrowOld, MarkAges
<1> QED
  BY <1>10, <1>11, <1>12, <1>13, <1>14 DEF Next

\* A removed draft stays while any execution goes on.
THEOREM DraftsStay == Spec => DraftOutlivesExecutions
<1> DEFINE Step == \A d \in Drafts : disk[d] # {} /\ disk'[d] = {} => live = {} /\ d \in aged
<1>1. Init => PlainDrafts
  BY InitTyped DEF Init, PlainDrafts, Assets
<1>2. PlainDrafts /\ [Next]_vars => PlainDrafts'
  BY DraftSteps, TypedStutter DEF PlainDrafts
<1>3. PlainDrafts /\ [Next]_vars => [Step]_vars
  BY DraftSteps
<1> QED
  BY <1>1, <1>2, <1>3, PTL DEF Spec, DraftOutlivesExecutions

----------------------------------------------------------------------------
(* Blobs, where the worker is the only process.                             *)

\* The parts of the invariant that a step changes, of the only thread.
LEMMA OneTurn ==
  ASSUME Processes = {Worker}, TypeOK',
         ClaimedBlobs', BlobsOfJobsAreThere',
         thread'[Worker].at = "storing" =>
            \A b \in thread'[Worker].held.blobs : file'[b] # "absent",
         thread'[Worker].at = "selected" => thread'[Worker].ids \subseteq Prunable',
         thread'[Worker].at \in {"compacted", "releasing"} => thread'[Worker].ids \cap Usable' = {},
         thread'[Worker].at = "unlinking" =>
            \A b \in thread'[Worker].held.blobs : ~Referenced(b, claims)'
  PROVE  BlobInv'
  BY DEF BlobInv, TurnIsCurrent

\* Rows, claims and files as they were, or files that come to be there.
LEMMA BlobsAlone ==
  ASSUME BlobInv, Processes = {Worker}, TypeOK', UNCHANGED <<jobVars, claims, thread>>,
         \A b \in Blobs : file[b] # "absent" => file'[b] # "absent"
  PROVE  BlobInv'
<1>1. /\ Usable' = Usable /\ Prunable' = Prunable
      /\ thread[Worker].held.blobs \subseteq Blobs
      /\ \A j \in Usable : inputs[j].blobs \subseteq Blobs
  BY DEF Usable, Prunable, Recent, BlobInv, TypeOK, Inputs
<1>2. ClaimedBlobs' /\ BlobsOfJobsAreThere'
  BY <1>1 DEF BlobInv, ClaimedBlobs, BlobsOfJobsAreThere
<1> QED
  BY <1>1, <1>2 DEF BlobInv, TurnIsCurrent, Referenced

\* The same with the thread at rest.
LEMMA BlobsIdle ==
  ASSUME BlobInv, Processes = {Worker}, TypeOK', UNCHANGED <<inputs, claims>>,
         Usable' = Usable, thread'[Worker] = Idle,
         \A b \in Blobs : Referenced(b, claims) => (file'[b] = "absent" => file[b] = "absent")
  PROVE  BlobInv'
<1>1. ClaimedBlobs'
  BY DEF BlobInv, ClaimedBlobs
<1>2. \A j \in Usable : \A b \in inputs[j].blobs : b \in Blobs /\ Referenced(b, claims)
  BY DEF BlobInv, ClaimedBlobs, Referenced, TypeOK, Inputs, Usable
<1>3. BlobsOfJobsAreThere'
  BY <1>2 DEF BlobInv, BlobsOfJobsAreThere
<1>4. thread'[Worker].at = "idle"
  BY DEF Idle
<1> QED
  BY <1>1, <1>3, <1>4, OneTurn

\* A new row claims the blobs its turn has stored or read from a usable row.
LEMMA BlobsRegistered ==
  ASSUME BlobInv, Processes = {Worker}, TypeOK', NEW j \in Jobs, NEW held \in Inputs,
         job[j] = "none", Register(j, held), UNCHANGED file, thread'[Worker] = Idle,
         \A b \in held.blobs : file[b] # "absent"
  PROVE  BlobInv'
<1>1. /\ inputs'[j] = held
      /\ \A k \in Jobs : k # j => inputs'[k] = inputs[k]
      /\ Usable' = Usable \cup {j}
      /\ claims' = claims \cup ({j} \X held.blobs)
  BY DEF BlobInv, Register, TypeOK, Usable
<1>2. ASSUME NEW k \in Usable', NEW b \in inputs'[k].blobs
      PROVE  <<k, b>> \in claims' /\ file'[b] # "absent"
  <2>1. CASE k = j
    BY <1>1, <2>1
  <2>2. CASE k # j
    <3>1. k \in Usable /\ b \in inputs[k].blobs
      BY <1>1, <1>2, <2>2 DEF Usable
    <3> QED
      BY <1>1, <3>1 DEF BlobInv, ClaimedBlobs, BlobsOfJobsAreThere
  <2> QED
    BY <2>1, <2>2
<1>3. ClaimedBlobs' /\ BlobsOfJobsAreThere'
  BY <1>2 DEF ClaimedBlobs, BlobsOfJobsAreThere
<1>4. thread'[Worker].at = "idle"
  BY DEF Idle
<1> QED
  BY <1>3, <1>4, OneTurn

\* Nothing comes between the reads of a turn and what it does with them.
LEMMA BlobSteps == Processes = {Worker} /\ BlobInv /\ Next => BlobInv'
<1> SUFFICES ASSUME Processes = {Worker}, BlobInv, Next PROVE BlobInv'
  OBVIOUS
<1>t. TypeOK /\ TypeOK'
  BY TypedSteps DEF BlobInv
<1>r. /\ thread \in [Processes -> ThreadType] /\ thread[Worker] \in ThreadType
      /\ Nothing.blobs = {} /\ Idle.held = Nothing /\ Idle.at = "idle"
  BY <1>t DEF TypeOK, ThreadType, Phases, Nothing, Idle
<1>c. ClaimedBlobs /\ BlobsOfJobsAreThere
  BY DEF BlobInv
<1>u. ASSUME UNCHANGED <<job, inputs>>
      PROVE  /\ Usable' = Usable
             /\ claims' = claims => ClaimedBlobs'
             /\ file' = file => BlobsOfJobsAreThere'
  BY <1>u, <1>c DEF Usable, ClaimedBlobs, BlobsOfJobsAreThere
<1>1. ASSUME NEW B \in SUBSET Blobs, NEW A \in SUBSET Drafts, BeginEnqueue(Worker, B, A)
      PROVE  BlobInv'
  <2>1. thread'[Worker].at = "storing" /\ thread'[Worker].held.blobs = {}
    BY <1>1, <1>r DEF BeginEnqueue, Thread
  <2> QED
    BY <1>1, <1>t, <1>u, <2>1, OneTurn DEF BeginEnqueue
<1>2. ASSUME NEW b \in Blobs, StoreBlob(Worker, b)
      PROVE  BlobInv'
  <2>1. /\ thread'[Worker].at = "storing" /\ thread[Worker].at = "storing"
        /\ thread'[Worker].held.blobs = thread[Worker].held.blobs \cup {b}
    BY <1>2, <1>r DEF StoreBlob, Thread
  <2>2. \A k \in Blobs : file'[k] = "absent" => file[k] = "absent" /\ k # b
    BY <1>2, <1>t DEF StoreBlob, TypeOK
  <2>3. thread'[Worker].held.blobs \subseteq Blobs
    BY <2>1, <1>r DEF ThreadType, Inputs
  <2>4. BlobsOfJobsAreThere'
    BY <1>2, <1>c, <1>t, <2>2 DEF StoreBlob, BlobsOfJobsAreThere, Usable, TypeOK, Inputs
  <2>5. \A k \in thread'[Worker].held.blobs : file'[k] # "absent"
    BY <2>1, <2>2, <2>3 DEF BlobInv, TurnIsCurrent
  <2> QED
    BY <1>2, <1>t, <1>u, <2>1, <2>4, <2>5, OneTurn DEF StoreBlob
<1>3. ASSUME NEW j \in Jobs, BeginRetry(Worker, j)
      PROVE  BlobInv'
  <2>1. thread'[Worker].at = "storing" /\ thread'[Worker].held = inputs[j] /\ j \in Usable
    BY <1>3, <1>r DEF BeginRetry, Thread, Usable
  <2> QED
    BY <1>3, <1>t, <1>c, <1>u, <2>1, OneTurn DEF BeginRetry, BlobsOfJobsAreThere
<1>4. ASSUME NEW j \in Jobs, CreateJob(Worker, j)
      PROVE  BlobInv'
  <2>1. \A b \in thread[Worker].held.blobs : file[b] # "absent"
    BY <1>4 DEF CreateJob, BlobInv, TurnIsCurrent
  <2> QED
    BY <1>4, <1>t, <1>r, <2>1, BlobsRegistered DEF CreateJob, IsNext, ThreadType
<1>5. ASSUME RefuseJob(Worker) \/ Crash(Worker)
      PROVE  BlobInv'
  <2>1. UNCHANGED <<inputs, claims, file>> /\ thread'[Worker] = Idle /\ Usable' = Usable
    BY <1>5, <1>r DEF RefuseJob, Crash, Usable
  <2> QED
    BY <1>t, <2>1, BlobsIdle
<1>6. ASSUME NEW j \in Jobs, NEW s \in {"completed", "failed"}, EndJob(Worker, j, s)
      PROVE  BlobInv'
  <2>1. Usable' = Usable /\ UNCHANGED <<inputs, claims, file>> /\ thread'[Worker] = Idle
    BY <1>6, <1>t DEF EndJob, Usable, TypeOK
  <2> QED
    BY <1>t, <2>1, BlobsIdle
<1>7. ASSUME NEW d \in Drafts, UploadDraft(Worker, d) \/ MarkDraft(Worker, d)
      PROVE  BlobInv'
  BY <1>7, <1>t, BlobsAlone DEF UploadDraft, MarkDraft
<1>8. CASE PruneSelect
  <2>1. thread'[Worker].at = "selected" /\ thread'[Worker].ids = Prunable
    BY <1>8, <1>r DEF PruneSelect, Thread
  <2>2. Prunable' = Prunable
    BY <1>8 DEF PruneSelect, Prunable, Recent
  <2> QED
    BY <1>8, <1>t, <1>u, <2>1, <2>2, OneTurn DEF PruneSelect
<1>9. CASE PruneCompact
  <2>1. thread'[Worker].at = "compacted" /\ thread'[Worker].ids = thread[Worker].ids
    BY <1>9, <1>r DEF PruneCompact, ThreadType
  <2>2. thread[Worker].ids \subseteq Prunable /\ Prunable \subseteq Jobs
    BY <1>9 DEF PruneCompact, BlobInv, TurnIsCurrent, Prunable
  <2>3. Usable' \subseteq Usable /\ Usable' \cap Prunable = {}
    BY <1>9, <1>t DEF PruneCompact, Usable, TypeOK
  <2>4. ClaimedBlobs' /\ BlobsOfJobsAreThere'
    BY <1>9, <1>c, <2>3 DEF PruneCompact, ClaimedBlobs, BlobsOfJobsAreThere
  <2> QED
    BY <1>t, <2>1, <2>2, <2>3, <2>4, OneTurn
<1>10. CASE ReleaseAssets
  <2>1. /\ thread'[Worker].at = "releasing" /\ thread'[Worker].ids = thread[Worker].ids
        /\ thread[Worker].at = "compacted"
    BY <1>10, <1>r DEF ReleaseAssets, ThreadType
  <2>2. thread[Worker].ids \cap Usable = {}
    BY <2>1 DEF BlobInv, TurnIsCurrent
  <2> QED
    BY <1>10, <1>t, <1>u, <2>1, <2>2, OneTurn DEF ReleaseAssets
<1>11. CASE ReleaseClaims
  <2>1. thread'[Worker].at \in {"idle", "unlinking"} /\ thread'[Worker].held = Nothing
    BY <1>11, <1>r DEF ReleaseClaims, Releasing, Thread
  <2>2. thread[Worker].ids \cap Usable = {}
    BY <1>11 DEF ReleaseClaims, BlobInv, TurnIsCurrent
  <2>3. ClaimedBlobs'
    BY <1>11, <1>c, <2>2 DEF ReleaseClaims, ClaimedBlobs, Usable
  <2> QED
    BY <1>11, <1>t, <1>r, <1>u, <2>1, <2>3, OneTurn DEF ReleaseClaims
<1>12. ASSUME NEW b \in Blobs, ReleaseCheck(b)
       PROVE  BlobInv'
  <2>1. CASE Referenced(b, claims)
    <3>1. thread'[Worker].at \in {"idle", "unlinking"} /\ thread'[Worker].held = Nothing
      BY <1>12, <1>r, <2>1 DEF ReleaseCheck, Releasing, Thread
    <3> QED
      BY <1>12, <1>t, <1>r, <1>u, <3>1, OneTurn DEF ReleaseCheck
  <2>2. CASE ~Referenced(b, claims)
    <3>1. thread'[Worker].at = "unlinking" /\ thread'[Worker].held.blobs = {b}
      BY <1>12, <1>r, <2>2 DEF ReleaseCheck, Thread
    <3>2. \A k \in thread'[Worker].held.blobs : ~Referenced(k, claims)'
      BY <1>12, <2>2, <3>1 DEF ReleaseCheck, Referenced
    <3> QED
      BY <1>12, <1>t, <1>u, <3>1, <3>2, OneTurn DEF ReleaseCheck
  <2> QED
    BY <2>1, <2>2
<1>13. ASSUME NEW b \in Blobs, ReleaseUnlink(b)
       PROVE  BlobInv'
  <2>1. thread'[Worker].at \in {"idle", "unlinking"} /\ thread'[Worker].held = Nothing
    BY <1>13, <1>r DEF ReleaseUnlink, Releasing, Thread
  <2>2. ~Referenced(b, claims)
    BY <1>13 DEF ReleaseUnlink, BlobInv, TurnIsCurrent
  <2>3. BlobsOfJobsAreThere'
    <3> SUFFICES ASSUME NEW j \in Usable, NEW k \in inputs[j].blobs PROVE file'[k] # "absent"
      BY <1>13 DEF ReleaseUnlink, BlobsOfJobsAreThere, Usable
    <3>1. k \in Blobs /\ k # b /\ file[k] # "absent"
      BY <1>c, <1>t, <2>2 DEF ClaimedBlobs, BlobsOfJobsAreThere, Referenced, TypeOK, Inputs, Usable
    <3> QED
      BY <1>13, <1>t, <3>1 DEF ReleaseUnlink, TypeOK
  <2> QED
    BY <1>13, <1>t, <1>r, <1>u, <2>1, <2>3, OneTurn DEF ReleaseUnlink
<1>14. ASSUME NEW b \in Blobs, SweepStat(b) \/ GrowOld(b)
       PROVE  BlobInv'
  BY <1>14, <1>t, BlobsAlone DEF SweepStat, GrowOld, TypeOK
<1>15. ASSUME NEW b \in Blobs, SweepRemove(b)
       PROVE  BlobInv'
  <2>1. UNCHANGED <<inputs, claims>> /\ Usable' = Usable /\ thread'[Worker] = Idle
    BY <1>15 DEF SweepRemove, Usable
  <2>2. \A k \in Blobs : Referenced(k, claims) => file'[k] = file[k]
    BY <1>15, <1>t DEF SweepRemove, TypeOK
  <2> QED
    BY <1>t, <2>1, <2>2, BlobsIdle
<1>16. ASSUME NEW d \in Drafts, MarkAges(d)
       PROVE  BlobInv'
  BY <1>16, <1>t, BlobsAlone DEF MarkAges
<1>17. ASSUME NEW c \in Copies, ExecutionStarts(c) \/ ExecutionEnds(c)
       PROVE  BlobInv'
  BY <1>17, <1>t, BlobsAlone DEF ExecutionStarts, ExecutionEnds
<1>18. ASSUME NEW c \in Copies, NEW from, NEW to, NEW files, CopyStep(c, from, to, files)
       PROVE  BlobInv'
  BY <1>18, <1>t, BlobsAlone DEF CopyStep
<1>19. ASSUME NEW c \in Copies, WriteDeletedMarker(c) \/ WriteGraphMarker(c) \/ CopyFile(c)
              \/ MoveFile(c) \/ CopyFails(c) \/ AbandonCopy(c)
       PROVE  BlobInv'
  BY ONLY <1>18, <1>19
  DEF WriteDeletedMarker, WriteGraphMarker, CopyFile, MoveFile, CopyFails, AbandonCopy
<1>20. ASSUME NEW c \in Copies, NEW j \in Jobs, EnqueueCopy(c, j)
       PROVE  BlobInv'
  <2> DEFINE held == [blobs |-> {}, assets |-> {c}]
  <2>1. held \in Inputs /\ held.blobs = {}
    BY DEF Inputs, Assets
  <2>2. job[j] = "none" /\ Register(j, held) /\ UNCHANGED file /\ thread'[Worker] = Idle
    BY <1>20 DEF EnqueueCopy, IsNext
  <2> HIDE DEF held
  <2> QED
    BY <1>t, <2>1, <2>2, BlobsRegistered
<1>21. ASSUME NEW a \in Assets, CollectLook(a) \/ CollectRemove(a)
       PROVE  BlobInv'
  BY <1>21, <1>t, BlobsAlone DEF CollectLook, CollectRemove
<1>22. CASE Enqueueing
  BY <1>1, <1>2, <1>3, <1>4, <1>5, <1>6, <1>7, <1>22 DEF Enqueueing
<1> QED
  BY <1>8, <1>9, <1>10, <1>11, <1>12, <1>13, <1>14, <1>15, <1>16, <1>17, <1>19, <1>20,
     <1>21, <1>22
  DEF Next, Pruning, Sweeping, Copying, Collecting, Ageing

\* Where one process does everything, every blob of a job that may run or be
\* retried is on the disk: neither the release nor the sweep takes it.
THEOREM BlobsAreSafe ==
  ASSUME Processes = {Worker}
  PROVE  Spec => [](BlobInv /\ BlobsOfJobsAreThere)
<1>1. Init => BlobInv
  BY InitTyped, WorkerAssumption
  DEF Init, BlobInv, ClaimedBlobs, BlobsOfJobsAreThere, TurnIsCurrent, Usable, Idle, Nothing
<1>2. BlobInv /\ [Next]_vars => BlobInv'
  <2>1. BlobInv /\ UNCHANGED vars => BlobInv'
    BY TypedStutter DEF BlobInv, ClaimedBlobs, BlobsOfJobsAreThere, TurnIsCurrent, Usable,
       Prunable, Recent, Referenced
  <2> QED
    BY <2>1, BlobSteps
<1>3. BlobInv => BlobsOfJobsAreThere
  BY DEF BlobInv
<1> QED
  BY <1>1, <1>2, <1>3, PTL DEF Spec

============================================================================
