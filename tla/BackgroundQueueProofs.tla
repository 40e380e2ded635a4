----------------------- MODULE BackgroundQueueProofs -----------------------
(* Proofs about BackgroundQueue, for any number of files, sizes of batches  *)
(* and bounds: no wake-up is lost, whoever waits for an outcome waits for a *)
(* task there is, a failed extraction stays private, and an extraction is   *)
(* queued or active at most once.                                           *)
EXTENDS BackgroundQueue, FiniteSetTheorems, SequenceTheorems, TLAPS

\* What the steps need to know of the shape of the state.
Shape ==
    /\ status \in [Files -> {"none", "pending", "completed", "failed"}]
    /\ post \in [Files -> {"none", "pending", "ready", "failed"}]
    /\ scheduled \in BOOLEAN /\ lockRetry \in BOOLEAN

\* These three properties are inductive together with the shape.
QueueInv ==
    /\ Shape
    /\ NoLostWakeup
    /\ AwaitedIsThere
    /\ FailedStaysPrivate

USE DEF rows, queues, timers, jobVars, vars

----------------------------------------------------------------------------
(* The turns of the loop.                                                   *)

\* A turn of processQueue leaves nothing queued without a loop or a timer.
LEMMA RunWakes ==
  ASSUME NEW mq, NEW pq, NEW retry \in BOOLEAN, Run(mq, pq, retry)
  PROVE  /\ metadataQueue' # <<>> \/ promptQueue' # <<>> => loop' # "idle" \/ lockRetry'
         /\ lockRetry' \in BOOLEAN
  BY DEF Run

\* So does a call of it, whoever else is in the loop.
LEMMA CallWakes ==
  ASSUME NEW mq, NEW pq, NEW retry \in BOOLEAN, Call(mq, pq, retry)
  PROVE  /\ metadataQueue' # <<>> \/ promptQueue' # <<>> => loop' # "idle" \/ lockRetry'
         /\ lockRetry' \in BOOLEAN
<1>1. CASE loop = "idle" /\ Run(mq, pq, retry)
  BY <1>1, RunWakes
<1>2. CASE loop # "idle" /\ lockRetry' = retry /\ UNCHANGED loop
  BY <1>2
<1> QED
  BY <1>1, <1>2 DEF Call

\* What an extraction writes is private when it fails.
LEMMA FinishIsPrivate ==
  ASSUME Shape, FailedStaysPrivate, NEW f, NEW h,
         NEW outcome \in {"completed", "failed"}, Finish(f, h, outcome)
  PROVE  /\ status' \in [Files -> {"none", "pending", "completed", "failed"}]
         /\ post' \in [Files -> {"none", "pending", "ready", "failed"}]
         /\ FailedStaysPrivate'
  BY DEF Shape, FailedStaysPrivate, Finish

\* A row becomes visible only where the status says completed.
LEMMA MarkReadyIsPrivate ==
  ASSUME Shape, FailedStaysPrivate, NEW f, NEW h, MarkReady(f, h), UNCHANGED status
  PROVE  /\ post' \in [Files -> {"none", "pending", "ready", "failed"}]
         /\ FailedStaysPrivate'
  BY DEF Shape, FailedStaysPrivate, MarkReady

\* Adding nothing to an empty queue leaves it empty.
LEMMA AddNothing ==
  ASSUME NEW s \in Orders({})
  PROVE  <<>> \o [i \in DOMAIN s |-> Task("metadata", s[i], 0)] = <<>>
<1>1. DOMAIN s = 1..0
  BY FS_EmptySet DEF Orders
<1> DEFINE t == [i \in DOMAIN s |-> Task("metadata", s[i], 0)]
<1>2. t = <<>>
  BY <1>1
<1> QED
  BY <1>2

\* An addition is heard: by the loop, or by the setImmediate it sets.
LEMMA AddAllIsHeard ==
  ASSUME Shape, NoLostWakeup, NEW S, AddAll(S), UNCHANGED <<loop, lockRetry>>
  PROVE  /\ NoLostWakeup' /\ scheduled' \in BOOLEAN
         /\ metadataTasks' = metadataTasks \cup S
<1>1. metadataTasks' = metadataTasks \cup S /\ scheduled' \in BOOLEAN
  BY DEF AddAll, Shape
<1>2. CASE S \ metadataTasks = {}
  <2>1. PICK s \in Orders(S \ metadataTasks) :
           metadataQueue' = metadataQueue \o [i \in DOMAIN s |-> Task("metadata", s[i], 0)]
    BY DEF AddAll
  <2>2. CASE loop = "idle" /\ ~scheduled /\ ~lockRetry
    <3>1. metadataQueue = <<>> /\ promptQueue = <<>>
      BY <2>2 DEF NoLostWakeup
    <3> QED
      BY <1>1, <1>2, <2>1, <2>2, <3>1, AddNothing DEF AddAll, NoLostWakeup
  <2> QED
    BY <1>1, <2>2 DEF AddAll, NoLostWakeup
<1>3. CASE S \ metadataTasks # {}
  BY <1>3 DEF AddAll, NoLostWakeup
<1> QED
  BY <1>1, <1>2, <1>3

----------------------------------------------------------------------------
(* Every action.                                                            *)

\* Steps that leave the queues and their timers alone.
LEMMA RestedSteps ==
  ASSUME QueueInv, Rested
  PROVE  NoLostWakeup' /\ scheduled' \in BOOLEAN /\ lockRetry' \in BOOLEAN
  BY DEF QueueInv, Shape, Rested, NoLostWakeup

\* Steps of one task of the batch: the loop goes on.
LEMMA WorkingSteps ==
  ASSUME QueueInv, NEW i \in 1..BatchSize, Working(i)
  PROVE  QueueInv'
<1> DEFINE f == batch[i].task.file
           h == batch[i].task.hash
           Kept == loop' = "batch" /\ UNCHANGED <<timers, metadataTasks, awaiting>>
<1>1. Kept
  BY DEF Working, Write, Return, Refuse, Reject, Collect, Reaches
<1>2. \/ \E outcome \in {"completed", "failed"} : Finish(f, h, outcome)
      \/ MarkReady(f, h) /\ UNCHANGED status
      \/ UNCHANGED <<status, post>>
  BY DEF Working, Write, Return, Refuse, Reject, Collect
<1> HIDE DEF f, h
<1>3. Shape' /\ FailedStaysPrivate'
  BY <1>1, <1>2, FinishIsPrivate, MarkReadyIsPrivate DEF QueueInv, Shape, FailedStaysPrivate
<1>4. NoLostWakeup' /\ AwaitedIsThere'
  BY <1>1 DEF NoLostWakeup, AwaitedIsThere, QueueInv
<1> QED
  BY <1>3, <1>4 DEF QueueInv

\* The turn after a batch: what is answered leaves the map with those who wait.
LEMMA SettleSteps ==
  ASSUME QueueInv, NEW done, SettleEntries(done), loop' \in {"pause", "thrown"}
  PROVE  QueueInv'
<1>1. Shape'
  BY DEF QueueInv, Shape, SettleEntries
<1>2. AwaitedIsThere' /\ NoLostWakeup'
  BY DEF QueueInv, SettleEntries, AwaitedIsThere, NoLostWakeup
<1>3. FailedStaysPrivate'
  BY DEF QueueInv, SettleEntries, FailedStaysPrivate
<1> QED
  BY <1>1, <1>2, <1>3 DEF QueueInv

\* Adding extractions keeps the invariant if what is waited for is among them.
LEMMA AddingSteps ==
  ASSUME QueueInv, NEW S, AddAll(S), UNCHANGED <<status, post, loop, lockRetry>>,
         awaiting' \subseteq metadataTasks \cup S
  PROVE  QueueInv'
<1>1. NoLostWakeup' /\ scheduled' \in BOOLEAN /\ metadataTasks' = metadataTasks \cup S
  BY AddAllIsHeard DEF QueueInv
<1> QED
  BY <1>1 DEF QueueInv, Shape, AwaitedIsThere, FailedStaysPrivate

\* A turn of the loop that only takes work.
LEMMA TurningSteps ==
  ASSUME QueueInv, NEW mq, NEW pq, NEW retry \in BOOLEAN, Call(mq, pq, retry),
         UNCHANGED <<metadataTasks, awaiting>>, scheduled' \in BOOLEAN,
         FailedStaysPrivate',
         status' \in [Files -> {"none", "pending", "completed", "failed"}],
         post' \in [Files -> {"none", "pending", "ready", "failed"}]
  PROVE  QueueInv'
  BY CallWakes DEF QueueInv, Shape, AwaitedIsThere, NoLostWakeup

\* Import at once: the same writes beside the loop.
LEMMA ImportingSteps == ASSUME QueueInv, NEW f \in Files, Importing(f) PROVE QueueInv'
<1>1. CASE ImportQueues(f)
  BY <1>1, AddingSteps DEF ImportQueues, Imports, QueueInv, AwaitedIsThere
<1>2. CASE ImportWrites(f) \/ ImportRefuses(f)
  <2>1. /\ \E outcome \in {"completed", "failed"} : Finish(f, import[f].hash, outcome)
        /\ Rested /\ UNCHANGED awaiting
    BY <1>2 DEF ImportWrites, ImportRefuses, Imports
  <2>2. /\ status' \in [Files -> {"none", "pending", "completed", "failed"}]
        /\ post' \in [Files -> {"none", "pending", "ready", "failed"}]
        /\ FailedStaysPrivate'
    BY <2>1, FinishIsPrivate DEF QueueInv
  <2> QED
    BY <2>1, <2>2, RestedSteps DEF QueueInv, Shape, AwaitedIsThere, Rested
<1>3. CASE ImportReturns(f)
  <2>1. /\ MarkReady(f, import[f].hash)
        /\ UNCHANGED <<status, metadataTasks, scheduled, awaiting>>
    BY <1>3 DEF ImportReturns, Imports
  <2>2. post' \in [Files -> {"none", "pending", "ready", "failed"}] /\ FailedStaysPrivate'
    BY <2>1, MarkReadyIsPrivate DEF QueueInv
  <2>3. CASE Call(metadataQueue, Append(promptQueue, Task("prompt", <<f, import[f].hash>>, 0)),
                  lockRetry)
    BY <2>1, <2>2, <2>3, TurningSteps DEF QueueInv, Shape
  <2>4. CASE UNCHANGED <<loop, batch, metadataQueue, promptQueue, lockRetry>>
    BY <2>1, <2>2, <2>4 DEF QueueInv, Shape, AwaitedIsThere, NoLostWakeup
  <2> QED
    BY <1>3, <2>3, <2>4 DEF ImportReturns
<1> QED
  BY <1>1, <1>2, <1>3 DEF Importing

\* Every step of the specification.
LEMMA QueueSteps == QueueInv /\ [Next]_vars => QueueInv'
<1> SUFFICES ASSUME QueueInv, [Next]_vars PROVE QueueInv'
  OBVIOUS
<1>s. Shape /\ lockRetry \in BOOLEAN /\ scheduled \in BOOLEAN
  BY DEF QueueInv, Shape
<1>p. ASSUME UNCHANGED <<status, post>>
      PROVE  /\ status' \in [Files -> {"none", "pending", "completed", "failed"}]
             /\ post' \in [Files -> {"none", "pending", "ready", "failed"}]
             /\ FailedStaysPrivate'
  BY <1>p DEF QueueInv, Shape, FailedStaysPrivate
<1>r. ASSUME Rested, awaiting' \subseteq awaiting,
             status' \in [Files -> {"none", "pending", "completed", "failed"}],
             post' \in [Files -> {"none", "pending", "ready", "failed"}],
             FailedStaysPrivate'
      PROVE  QueueInv'
  BY <1>r, RestedSteps DEF QueueInv, Shape, AwaitedIsThere, Rested
<1>1. CASE ScheduledRun
  BY <1>1, <1>s, <1>p, TurningSteps DEF ScheduledRun
<1>2. CASE LockRetryFires
  BY <1>2, <1>s, <1>p, TurningSteps DEF LockRetryFires
<1>3. CASE PauseEnds
  <2>1. NoLostWakeup' /\ lockRetry' \in BOOLEAN
    BY <1>3, <1>s, RunWakes DEF PauseEnds, NoLostWakeup
  <2> QED
    BY <1>3, <1>s, <1>p, <2>1 DEF PauseEnds, QueueInv, Shape, AwaitedIsThere
<1>4. CASE Settle
  BY <1>4, SettleSteps DEF Settle
<1>5. ASSUME NEW i \in 1..BatchSize, Working(i) \/ SettleThrows(i) PROVE QueueInv'
  BY <1>5, WorkingSteps, SettleSteps DEF SettleThrows
<1>6. ASSUME NEW f \in Files, Register(f) PROVE QueueInv'
  <2>1. /\ status' \in [Files -> {"none", "pending", "completed", "failed"}]
        /\ post' \in [Files -> {"none", "pending", "ready", "failed"}]
        /\ FailedStaysPrivate'
    BY <1>6, <1>s DEF Register, QueueInv, Shape, FailedStaysPrivate
  <2> QED
    BY <1>6, <1>r, <2>1 DEF Register
<1>7. ASSUME NEW f \in Files, Importing(f) PROVE QueueInv'
  BY <1>7, ImportingSteps
<1>8. ASSUME NEW f \in Files, Remap(f) PROVE QueueInv'
  BY <1>8, <1>p, <1>r DEF Remap
<1>9. CASE ReleaseReady
  <2>1. /\ status' \in [Files -> {"none", "pending", "completed", "failed"}]
        /\ post' \in [Files -> {"none", "pending", "ready", "failed"}]
        /\ FailedStaysPrivate'
    BY <1>9, <1>s DEF ReleaseReady, QueueInv, Shape, FailedStaysPrivate
  <2> QED
    BY <1>9, <1>r, <2>1 DEF ReleaseReady
<1>10. CASE Recover
  BY <1>10, AddingSteps DEF Recover, QueueInv, AwaitedIsThere
<1>11. CASE JobReads \/ JobEnds \/ Lock \/ Unlock
  BY <1>11, <1>p, <1>r DEF JobReads, JobEnds, Lock, Unlock
<1>12. CASE JobTracks
  BY <1>12, AddingSteps DEF JobTracks
<1>13. CASE Restart
  BY <1>13, <1>p DEF Restart, QueueInv, Shape, NoLostWakeup, AwaitedIsThere
<1>14. CASE UNCHANGED vars
  BY <1>14, <1>p DEF QueueInv, Shape, NoLostWakeup, AwaitedIsThere
<1>15. ASSUME NEW f \in Files, TaggingEnds(f) PROVE QueueInv'
  <2>1. /\ MarkReady(f, hash[f]) /\ UNCHANGED status
        /\ Rested /\ UNCHANGED awaiting
    BY <1>15 DEF TaggingEnds
  <2>2. /\ post' \in [Files -> {"none", "pending", "ready", "failed"}]
        /\ FailedStaysPrivate'
    BY <2>1, MarkReadyIsPrivate DEF QueueInv
  <2> QED
    BY <1>r, <1>s, <2>1, <2>2 DEF Shape
<1> QED
  BY <1>1, <1>2, <1>3, <1>4, <1>5, <1>6, <1>7, <1>8, <1>9, <1>10, <1>11, <1>12, <1>13, <1>14, <1>15
  DEF Next, Looping

\* The invariant holds in every reachable state, also when bookkeeping fails.
THEOREM QueueInvariance == Spec => []QueueInv
<1>1. Init => QueueInv
  BY DEF Init, QueueInv, Shape, NoLostWakeup, AwaitedIsThere, FailedStaysPrivate
<1> QED
  BY <1>1, QueueSteps, PTL DEF Spec

\* Queued work is never forgotten, whatever additions, retries, turns that meet the
\* lock and restarts come between.
THEOREM NothingIsForgotten == Spec => []NoLostWakeup
<1>1. QueueInv => NoLostWakeup
  BY DEF QueueInv
<1> QED
  BY <1>1, QueueInvariance, PTL

\* Nobody waits for an extraction that is not queued or active.
THEOREM WaitersHaveTasks == Spec => []AwaitedIsThere
<1>1. QueueInv => AwaitedIsThere
  BY DEF QueueInv
<1> QED
  BY <1>1, QueueInvariance, PTL

\* A row whose extraction failed is not public.
THEOREM FailedIsPrivate == Spec => []FailedStaysPrivate
<1>1. QueueInv => FailedStaysPrivate
  BY DEF QueueInv
<1> QED
  BY <1>1, QueueInvariance, PTL

----------------------------------------------------------------------------
(* One task per key: orders, queues and batches.                            *)

Entries == [task : Tasks, at : {"running", "written"} \cup Answered]

\* The places of the extractions in a batch, and keys by place.
Active(b) == {i \in DOMAIN b : b[i].task.kind = "metadata"}
ActiveKeys(b) == {Key(b[i].task) : i \in Active(b)}
QueuedKeys(q) == {Key(q[i]) : i \in DOMAIN q}

\* A queue of extractions with different keys.
Extractions(q) ==
    /\ q \in Seq(Tasks)
    /\ \A i \in DOMAIN q : q[i].kind = "metadata"
    /\ \A i, j \in DOMAIN q : Key(q[i]) = Key(q[j]) => i = j

Prompts(q) == q \in Seq(Tasks) /\ \A i \in DOMAIN q : q[i].kind = "prompt"

\* The books of queue q, batch b and map t.
Books(q, b, t) ==
    /\ Extractions(q)
    /\ b \in Seq(Entries)
    /\ \A i, j \in Active(b) : Key(b[i].task) = Key(b[j].task) => i = j
    /\ QueuedKeys(q) \cap ActiveKeys(b) = {}
    /\ QueuedKeys(q) \cup ActiveKeys(b) = t

LEMMA FiniteInterval ==
  ASSUME NEW n \in Nat
  PROVE  IsFiniteSet(1..n) /\ Cardinality(1..n) = n
<1>1. 1 \in Int /\ n \in Int /\ n - 1 + 1 = n
  OBVIOUS
<1>2. CASE n = 0
  <2>1. 1..n = {}
    BY <1>2
  <2> QED
    BY <1>2, <2>1, FS_EmptySet
<1>3. CASE n # 0
  <2>1. ~(1 > n)
    BY <1>3
  <2> QED
    BY <1>1, <2>1, FS_Interval
<1> QED
  BY <1>2, <1>3

\* As many different elements of a finite set as it has are all of them.
LEMMA AllAreListed ==
  ASSUME NEW S, IsFiniteSet(S), NEW s \in [1..Cardinality(S) -> S],
         \A i, j \in DOMAIN s : s[i] = s[j] => i = j
  PROVE  /\ Cardinality(S) \in Nat
         /\ \A x \in S : \E i \in DOMAIN s : s[i] = x
<1>1. Cardinality(S) \in Nat
  BY FS_CardinalityType
<1>2. s \in Injection(1..Cardinality(S), S)
  BY DEF Injection, IsInjective
<1>3. Cardinality(1..Cardinality(S)) = Cardinality(S)
  BY <1>1, FiniteInterval
<1>4. s \in Surjection(1..Cardinality(S), S)
  BY <1>2, <1>3, FS_Injection
<1> QED
  BY <1>1, <1>4 DEF Surjection

\* Different extractions appended to a queue, none of whose keys it has.
LEMMA Appended ==
  ASSUME NEW q, Extractions(q), NEW a, Extractions(a),
         QueuedKeys(q) \cap QueuedKeys(a) = {}
  PROVE  Extractions(q \o a) /\ QueuedKeys(q \o a) = QueuedKeys(q) \cup QueuedKeys(a)
<1> DEFINE c == q \o a
<1>1. q \in Seq(Tasks) /\ a \in Seq(Tasks) /\ Len(q) \in Nat /\ Len(a) \in Nat
  BY DEF Extractions
<1>2. /\ c \in Seq(Tasks) /\ Len(c) = Len(q) + Len(a)
      /\ DOMAIN c = 1..(Len(q) + Len(a)) /\ DOMAIN q = 1..Len(q) /\ DOMAIN a = 1..Len(a)
      /\ \A i \in 1..Len(q) : c[i] = q[i]
      /\ \A i \in 1..Len(a) : c[Len(q) + i] = a[i]
  BY <1>1
<1>3. \A i \in DOMAIN c : i \in DOMAIN q \/ (i - Len(q) \in DOMAIN a /\ i > Len(q))
  BY <1>1, <1>2
<1>4. \A i \in DOMAIN c : i - Len(q) \in DOMAIN a => c[i] = a[i - Len(q)]
  <2> SUFFICES ASSUME NEW i \in DOMAIN c, i - Len(q) \in DOMAIN a
               PROVE  c[i] = a[i - Len(q)]
    OBVIOUS
  <2>1. Len(q) + (i - Len(q)) = i
    BY <1>1, <1>2
  <2> QED
    BY <1>2, <2>1
<1> HIDE DEF c
<1>5. \A i \in DOMAIN c : c[i].kind = "metadata"
  BY <1>2, <1>3, <1>4 DEF Extractions
<1>6. ASSUME NEW i \in DOMAIN c, NEW j \in DOMAIN c, Key(c[i]) = Key(c[j])
      PROVE  i = j
  <2>1. CASE i \in DOMAIN q /\ j \in DOMAIN q
    BY <1>2, <1>6, <2>1 DEF Extractions
  <2>2. CASE i - Len(q) \in DOMAIN a /\ j - Len(q) \in DOMAIN a
    <3>1. i - Len(q) = j - Len(q)
      BY <1>4, <1>6, <2>2 DEF Extractions
    <3> QED
      BY <1>1, <1>2, <3>1
  <2>3. \A k \in DOMAIN c : k \in DOMAIN q => Key(c[k]) \in QueuedKeys(q)
    BY <1>2 DEF QueuedKeys
  <2>4. \A k \in DOMAIN c : k - Len(q) \in DOMAIN a => Key(c[k]) \in QueuedKeys(a)
    BY <1>4 DEF QueuedKeys
  <2> QED
    BY <1>3, <1>6, <2>1, <2>2, <2>3, <2>4
<1>7. QueuedKeys(c) \subseteq QueuedKeys(q) \cup QueuedKeys(a)
  BY <1>2, <1>3, <1>4 DEF QueuedKeys
<1>8. QueuedKeys(q) \subseteq QueuedKeys(c)
  BY <1>1, <1>2 DEF QueuedKeys
<1>9. QueuedKeys(a) \subseteq QueuedKeys(c)
  <2> SUFFICES ASSUME NEW i \in DOMAIN a PROVE Key(a[i]) \in QueuedKeys(c)
    BY DEF QueuedKeys
  <2>1. Len(q) + i \in DOMAIN c /\ c[Len(q) + i] = a[i]
    BY <1>1, <1>2
  <2> QED
    BY <2>1 DEF QueuedKeys
<1> QED
  BY <1>2, <1>5, <1>6, <1>7, <1>8, <1>9 DEF Extractions, c

\* What an addition puts into the queue: one task for each new key.
LEMMA NewTasks ==
  ASSUME NEW S \in SUBSET Keys, NEW s \in Orders(S)
  PROVE  LET a == [i \in DOMAIN s |-> Task("metadata", s[i], 0)]
         IN Extractions(a) /\ QueuedKeys(a) = S
<1> DEFINE a == [i \in DOMAIN s |-> Task("metadata", s[i], 0)]
<1>1. IsFiniteSet(S)
  <2>1. IsFiniteSet(Hashes) /\ IsFiniteSet(Files)
    <3>1. 0 \in Int /\ MaxRemaps \in Int
      BY FilesAssumption
    <3> QED
      BY <3>1, FilesAssumption, FS_Interval DEF Hashes
  <2>2. IsFiniteSet(Keys)
    BY <2>1, FS_Product DEF Keys
  <2> QED
    BY <2>2, FS_Subset
<1>2. /\ s \in [1..Cardinality(S) -> S]
      /\ \A i, j \in DOMAIN s : s[i] = s[j] => i = j
  BY DEF Orders
<1>3. Cardinality(S) \in Nat /\ \A x \in S : \E i \in DOMAIN s : s[i] = x
  BY <1>1, <1>2, AllAreListed
<1>4. \A i \in DOMAIN s : a[i] \in Tasks /\ a[i].kind = "metadata" /\ Key(a[i]) = s[i]
  <2> SUFFICES ASSUME NEW i \in DOMAIN s
               PROVE  a[i] \in Tasks /\ a[i].kind = "metadata" /\ Key(a[i]) = s[i]
    OBVIOUS
  <2>1. s[i] \in Files \X Hashes /\ 0 \in 0..MaxRetries
    BY <1>2, BatchAssumption DEF Keys
  <2>2. a[i] = [kind |-> "metadata", file |-> s[i][1], hash |-> s[i][2], retries |-> 0]
    BY DEF Task
  <2> HIDE DEF a
  <2> QED
    BY <2>1, <2>2 DEF Tasks, Key
<1>5. /\ a = [i \in DOMAIN s |-> a[i]]
      /\ DOMAIN a = DOMAIN s /\ DOMAIN s = 1..Cardinality(S)
  BY <1>2
<1> HIDE DEF a
<1>6. a \in Seq(Tasks)
  <2>1. a \in [1..Cardinality(S) -> Tasks]
    BY <1>4, <1>5
  <2> QED
    BY <1>3, <2>1
<1>7. Extractions(a)
  BY <1>2, <1>4, <1>5, <1>6 DEF Extractions
<1>8. QueuedKeys(a) = S
  BY <1>2, <1>3, <1>4, <1>5 DEF QueuedKeys
<1> QED
  BY <1>7, <1>8 DEF a

\* An addition keeps the books, whoever asks for what is there already.
LEMMA AddAllKeepsBooks ==
  ASSUME Books(metadataQueue, batch, metadataTasks), NEW S \in SUBSET Keys,
         AddAll(S), UNCHANGED batch
  PROVE  Books(metadataQueue, batch, metadataTasks)'
<1> DEFINE new == S \ metadataTasks
<1>1. PICK s \in Orders(new) :
         metadataQueue' = metadataQueue \o [i \in DOMAIN s |-> Task("metadata", s[i], 0)]
  BY DEF AddAll
<1> DEFINE a == [i \in DOMAIN s |-> Task("metadata", s[i], 0)]
<1>2. new \in SUBSET Keys /\ new \cap metadataTasks = {} /\ metadataTasks' = metadataTasks \cup new
  BY DEF AddAll
<1> HIDE DEF new
<1>3. Extractions(a) /\ QueuedKeys(a) = new
  BY <1>2, NewTasks
<1> HIDE DEF a
<1>4. QueuedKeys(metadataQueue) \subseteq metadataTasks /\ ActiveKeys(batch) \subseteq metadataTasks
  BY DEF Books
<1>5. /\ Extractions(metadataQueue \o a)
      /\ QueuedKeys(metadataQueue \o a) = QueuedKeys(metadataQueue) \cup new
  BY <1>2, <1>3, <1>4, Appended DEF Books
<1>6. metadataQueue' = metadataQueue \o a /\ batch' = batch
  BY <1>1 DEF a
<1>7. Extractions(metadataQueue') /\ QueuedKeys(metadataQueue') = QueuedKeys(metadataQueue) \cup new
  BY <1>5, <1>6
<1>8. ActiveKeys(batch') = ActiveKeys(batch) /\ Active(batch') = Active(batch)
  BY <1>6
<1>9. /\ batch' \in Seq(Entries)
      /\ \A i, j \in Active(batch') : Key(batch'[i].task) = Key(batch'[j].task) => i = j
  BY <1>6 DEF Books
<1>10. /\ QueuedKeys(metadataQueue') \cap ActiveKeys(batch') = {}
       /\ QueuedKeys(metadataQueue') \cup ActiveKeys(batch') = metadataTasks'
  BY <1>2, <1>4, <1>7, <1>8 DEF Books
<1>11. Books(metadataQueue', batch', metadataTasks')
  BY <1>7, <1>9, <1>10 DEF Books
<1> QED
  BY <1>11

\* The two parts of a sequence cut at m.
LEMMA TakenOff ==
  ASSUME NEW T, NEW q \in Seq(T), NEW m \in Nat, m <= Len(q)
  PROVE  /\ SubSeq(q, 1, m) \in Seq(T) /\ Len(SubSeq(q, 1, m)) = m
         /\ \A i \in 1..m : SubSeq(q, 1, m)[i] = q[i]
         /\ SubSeq(q, m + 1, Len(q)) \in Seq(T) /\ Len(SubSeq(q, m + 1, Len(q))) = Len(q) - m
         /\ \A i \in 1..(Len(q) - m) : SubSeq(q, m + 1, Len(q))[i] = q[m + i]
<1>1. /\ SubSeq(q, 1, m) \in Seq(T) /\ Len(SubSeq(q, 1, m)) = m
      /\ \A i \in 1..m : SubSeq(q, 1, m)[i] = q[i]
  <2>1. 1 \in 1..(Len(q) + 1) /\ m \in 0..Len(q)
    OBVIOUS
  <2> QED
    BY <2>1, SubSeqProperties
<1>2. /\ SubSeq(q, m + 1, Len(q)) \in Seq(T) /\ Len(SubSeq(q, m + 1, Len(q))) = Len(q) - m
      /\ \A i \in 1..(Len(q) - m) : SubSeq(q, m + 1, Len(q))[i] = q[m + i]
  <2>1. m + 1 \in 1..(Len(q) + 1) /\ Len(q) \in m..Len(q)
    OBVIOUS
  <2> QED
    BY <2>1, SubSeqProperties
<1> QED
  BY <1>1, <1>2

\* A turn of processQueue moves the head of the queue into the batch.
LEMMA RunKeepsBooks ==
  ASSUME NEW mq, NEW pq, NEW retry, NEW t, Books(mq, <<>>, t), Prompts(pq), Run(mq, pq, retry)
  PROVE  Books(metadataQueue', batch', t) /\ Prompts(promptQueue')
<1> DEFINE m == Least(BatchSize, Len(mq))
           p == Least(BatchSize - m, Len(pq))
           heads == SubSeq(mq, 1, m)
           others == SubSeq(pq, 1, p)
           taken == heads \o others
           rest == SubSeq(mq, m + 1, Len(mq))
           later == SubSeq(pq, p + 1, Len(pq))
<1>1. CASE ~((mq # <<>> \/ pq # <<>>) /\ ~locked)
  <2>1. batch' = <<>> /\ metadataQueue' = mq /\ promptQueue' = pq
    BY <1>1 DEF Run
  <2> QED
    BY <2>1
<1>2. CASE (mq # <<>> \/ pq # <<>>) /\ ~locked
  <2>1. /\ batch' = [i \in DOMAIN taken |-> [task |-> taken[i], at |-> "running"]]
        /\ metadataQueue' = rest /\ promptQueue' = later
    BY <1>2 DEF Run
  <2>2. /\ mq \in Seq(Tasks) /\ pq \in Seq(Tasks) /\ Len(mq) \in Nat /\ Len(pq) \in Nat
        /\ DOMAIN mq = 1..Len(mq) /\ DOMAIN pq = 1..Len(pq)
    BY DEF Books, Extractions, Prompts
  <2>3. m \in Nat /\ m <= Len(mq) /\ m <= BatchSize
    BY <2>2, BatchAssumption DEF Least
  <2>4. p \in Nat /\ p <= Len(pq)
    <3> HIDE DEF m
    <3>1. BatchSize - m \in Nat
      BY <2>3, BatchAssumption
    <3> QED
      BY <2>2, <3>1 DEF Least
  <2> HIDE DEF m, p
  <2>5. /\ heads \in Seq(Tasks) /\ Len(heads) = m /\ \A i \in 1..m : heads[i] = mq[i]
        /\ rest \in Seq(Tasks) /\ Len(rest) = Len(mq) - m
        /\ \A i \in 1..(Len(mq) - m) : rest[i] = mq[m + i]
    BY <2>2, <2>3, TakenOff DEF heads, rest
  <2>6. /\ others \in Seq(Tasks) /\ Len(others) = p /\ \A i \in 1..p : others[i] = pq[i]
        /\ later \in Seq(Tasks) /\ Len(later) = Len(pq) - p
        /\ \A i \in 1..(Len(pq) - p) : later[i] = pq[p + i]
    BY <2>2, <2>4, TakenOff DEF others, later
  <2> HIDE DEF heads, others, rest, later
  <2>7. /\ taken \in Seq(Tasks) /\ DOMAIN taken = 1..(m + p)
        /\ \A i \in 1..m : taken[i] = mq[i]
        /\ \A i \in 1..(m + p) : i > m => taken[i] = pq[i - m] /\ i - m \in DOMAIN pq
    <3>1. /\ taken \in Seq(Tasks) /\ DOMAIN taken = 1..(m + p)
          /\ \A i \in 1..m : taken[i] = heads[i]
          /\ \A i \in 1..(m + p) : i > m => taken[i] = others[i - m]
      <4>1. /\ taken \in Seq(Tasks) /\ Len(taken) = m + p
            /\ \A i \in 1..(m + p) : taken[i] = IF i <= m THEN heads[i] ELSE others[i - m]
        <5>1. /\ taken \in Seq(Tasks) /\ Len(taken) = Len(heads) + Len(others)
              /\ \A i \in 1..(Len(heads) + Len(others)) :
                    taken[i] = IF i <= Len(heads) THEN heads[i] ELSE others[i - Len(heads)]
          <6>1. heads \in Seq(Tasks) /\ others \in Seq(Tasks)
            BY <2>5, <2>6
          <6> QED
            BY <6>1, ConcatProperties
        <5> HIDE DEF taken
        <5> QED
          BY <2>5, <2>6, <5>1
      <4> HIDE DEF taken
      <4>2. \A i \in 1..m : i \in 1..(m + p) /\ i <= m
        BY <2>3, <2>4
      <4>3. \A i \in 1..(m + p) : i > m => ~(i <= m)
        BY <2>3, <2>4
      <4>4. DOMAIN taken = 1..(m + p)
        BY <4>1
      <4> QED
        BY <4>1, <4>2, <4>3, <4>4
    <3>2. \A i \in 1..(m + p) : i > m => i - m \in 1..p /\ i - m \in DOMAIN pq
      BY <2>2, <2>3, <2>4
    <3> HIDE DEF taken
    <3> QED
      BY <2>5, <2>6, <3>1, <3>2
  <2> HIDE DEF taken
  <2>8. /\ batch' \in Seq(Entries) /\ DOMAIN batch' = 1..(m + p)
        /\ \A i \in 1..(m + p) : batch'[i].task = taken[i]
    <3>1. \A i \in DOMAIN taken : [task |-> taken[i], at |-> "running"] \in Entries
      <4>1. \A i \in DOMAIN taken : taken[i] \in Tasks
        BY <2>7, ElementOfSeq, LenProperties
      <4> QED
        BY <4>1 DEF Entries
    <3>2. m + p \in Nat
      BY <2>3, <2>4
    <3>3. batch' \in [1..(m + p) -> Entries]
      BY <2>1, <2>7, <3>1
    <3> QED
      BY <2>1, <2>7, <3>2, <3>3
  <2>9. Active(batch') = 1..m
    <3>1. \A i \in 1..m : i \in DOMAIN mq /\ i \in 1..(m + p)
      BY <2>2, <2>3, <2>4
    <3>2. \A i \in 1..m : batch'[i].task = mq[i] /\ mq[i].kind = "metadata"
      BY <2>7, <2>8, <3>1 DEF Books, Extractions
    <3>3. \A i \in 1..(m + p) : i > m => batch'[i].task.kind = "prompt"
      BY <2>7, <2>8 DEF Prompts
    <3>4. \A i \in 1..(m + p) : i > m \/ i \in 1..m
      BY <2>3, <2>4
    <3> QED
      BY <2>8, <3>1, <3>2, <3>3, <3>4 DEF Active
  <2>10. \A i \in 1..m : batch'[i].task = mq[i] /\ i \in DOMAIN mq
    BY <2>2, <2>3, <2>4, <2>7, <2>8
  <2>11. \A i \in DOMAIN rest : rest[i] = mq[m + i] /\ m + i \in DOMAIN mq /\ m + i > m
    BY <2>2, <2>3, <2>5
  <2>12. DOMAIN rest \subseteq Nat
    BY <2>5
  <2>13. Extractions(rest)
    <3>1. \A i \in DOMAIN rest : rest[i].kind = "metadata"
      BY <2>11 DEF Books, Extractions
    <3>2. ASSUME NEW i \in DOMAIN rest, NEW j \in DOMAIN rest, Key(rest[i]) = Key(rest[j])
          PROVE  i = j
      <4>1. m + i = m + j
        BY <2>11, <3>2 DEF Books, Extractions
      <4> QED
        BY <2>3, <2>12, <4>1
    <3> QED
      BY <2>5, <3>1, <3>2 DEF Extractions
  <2>14. \A i, j \in Active(batch') : Key(batch'[i].task) = Key(batch'[j].task) => i = j
    BY <2>9, <2>10 DEF Books, Extractions
  <2>15. QueuedKeys(rest) \cap ActiveKeys(batch') = {}
    <3> SUFFICES ASSUME NEW i \in DOMAIN rest, NEW j \in 1..m, Key(rest[i]) = Key(batch'[j].task)
                 PROVE  FALSE
      BY <2>9 DEF QueuedKeys, ActiveKeys
    <3>1. m + i = j
      BY <2>10, <2>11 DEF Books, Extractions
    <3> QED
      BY <2>3, <2>11, <3>1
  <2>16. QueuedKeys(rest) \cup ActiveKeys(batch') = t
    <3>1. QueuedKeys(mq) = t
      BY DEF Books, ActiveKeys, Active
    <3>2. QueuedKeys(rest) \subseteq QueuedKeys(mq)
      BY <2>11 DEF QueuedKeys
    <3>3. ActiveKeys(batch') \subseteq QueuedKeys(mq)
      BY <2>9, <2>10 DEF QueuedKeys, ActiveKeys
    <3>4. ASSUME NEW i \in DOMAIN mq
          PROVE  Key(mq[i]) \in QueuedKeys(rest) \cup ActiveKeys(batch')
      <4>1. CASE i <= m
        <5>1. i \in 1..m
          BY <2>2, <2>3, <4>1
        <5> QED
          BY <2>9, <2>10, <5>1 DEF ActiveKeys
      <4>2. CASE i > m
        <5>1. i - m \in DOMAIN rest /\ m + (i - m) = i
          BY <2>2, <2>3, <2>5, <4>2
        <5> QED
          BY <2>11, <5>1 DEF QueuedKeys
      <4> QED
        BY <2>2, <2>3, <4>1, <4>2
    <3> QED
      BY <3>1, <3>2, <3>3, <3>4 DEF QueuedKeys
  <2>17. Prompts(later)
    <3>1. DOMAIN later = 1..(Len(pq) - p)
      BY <2>6
    <3>2. \A i \in DOMAIN later : later[i] = pq[p + i] /\ p + i \in DOMAIN pq
      BY <2>2, <2>4, <2>6, <3>1
    <3> QED
      BY <2>6, <3>2 DEF Prompts
  <2> QED
    BY <2>1, <2>8, <2>13, <2>14, <2>15, <2>16, <2>17 DEF Books
<1> QED
  BY <1>1, <1>2

\* What a batch gives back to a queue: a task with the same key for each of the
\* places that go again, and for no other.
LEMMA RetriedTasks ==
  ASSUME NEW b \in Seq(Entries), NEW kind \in {"metadata", "prompt"},
         NEW place \in InOrder(Places(b, kind))
  PROVE  LET a == Retried(b, kind, place)
             P == Places(b, kind)
         IN /\ a \in Seq(Tasks) /\ DOMAIN a = DOMAIN place
            /\ \A n \in DOMAIN a : /\ a[n].kind = kind /\ place[n] \in P
                                   /\ Key(a[n]) = Key(b[place[n]].task)
            /\ \A n, k \in DOMAIN a : place[n] = place[k] => n = k
            /\ \A i \in P : \E n \in DOMAIN a : place[n] = i
<1> DEFINE a == Retried(b, kind, place)
           P == Places(b, kind)
<1>1. DOMAIN b = 1..Len(b) /\ Len(b) \in Nat /\ \A i \in DOMAIN b : b[i] \in Entries
  BY ElementOfSeq, LenProperties
<1>2. P \subseteq 1..Len(b) /\ IsFiniteSet(P)
  <2>1. P \subseteq 1..Len(b)
    BY <1>1 DEF Places
  <2>2. IsFiniteSet(1..Len(b))
    BY <1>1, FiniteInterval
  <2> QED
    BY <2>1, <2>2, FS_Subset
<1>3. Cardinality(P) \in Nat
  BY <1>2, FS_CardinalityType
<1>4. place \in [1..Cardinality(P) -> P] /\ \A i, j \in DOMAIN place : i < j => place[i] < place[j]
  BY DEF InOrder
<1>5. ASSUME NEW i \in P
      PROVE  /\ b[i].task \in Tasks /\ b[i].task.kind = kind
             /\ b[i].task.retries + 1 \in 0..MaxRetries
  <2>1. b[i] \in Entries /\ Again(b[i]) /\ b[i].task.kind = kind
    BY <1>1 DEF Places
  <2>2. b[i].task \in Tasks
    BY <2>1 DEF Entries
  <2>3. b[i].task.retries \in 0..MaxRetries
    BY <2>2 DEF Tasks
  <2>4. b[i].task.retries + 1 < MaxRetries
    BY <2>1 DEF Again
  <2> QED
    BY <2>1, <2>2, <2>3, <2>4, BatchAssumption
<1>6. ASSUME NEW n \in DOMAIN place
      PROVE  /\ a[n] \in Tasks /\ a[n].kind = kind
             /\ Key(a[n]) = Key(b[place[n]].task)
  <2> DEFINE t == b[place[n]].task
  <2>1. place[n] \in P
    BY <1>4
  <2>2. t \in Tasks /\ t.retries + 1 \in 0..MaxRetries
    BY <1>5, <2>1
  <2>3. a[n] = [kind |-> kind, file |-> t.file, hash |-> t.hash, retries |-> t.retries + 1]
    BY DEF Retried, Task, Key
  <2> HIDE DEF a, t
  <2>4. t.file \in Files /\ t.hash \in Hashes
    BY <2>2 DEF Tasks
  <2>5. a[n] \in Tasks /\ a[n].kind = kind /\ Key(a[n]) = Key(t)
    BY <2>2, <2>3, <2>4 DEF Tasks, Key
  <2> QED
    BY <2>5 DEF t
<1>7. DOMAIN a = 1..Cardinality(P) /\ DOMAIN place = 1..Cardinality(P) /\ a = [n \in DOMAIN a |-> a[n]]
  BY <1>4 DEF Retried
<1>8. a \in Seq(Tasks)
  <2> HIDE DEF a
  <2>1. a \in [1..Cardinality(P) -> Tasks]
    BY <1>6, <1>7
  <2> QED
    BY <1>3, <2>1
<1>9. ASSUME NEW n \in DOMAIN place, NEW k \in DOMAIN place, place[n] = place[k]
      PROVE  n = k
  <2>1. n \in Nat /\ k \in Nat /\ place[n] \in Nat /\ place[k] \in Nat
    BY <1>2, <1>4
  <2>2. ~(n < k) /\ ~(k < n)
    BY <1>4, <1>9, <2>1
  <2> QED
    BY <2>1, <2>2
<1>10. \A i \in P : \E n \in DOMAIN place : place[n] = i
  BY <1>2, <1>4, <1>9, AllAreListed
<1> HIDE DEF a, P
<1>11. \A n \in DOMAIN place : place[n] \in P
  BY <1>4
<1> QED
  BY <1>6, <1>7, <1>8, <1>9, <1>10, <1>11 DEF a, P

\* The turn after a batch: an extraction that goes again is queued under its key,
\* any other leaves the map.
LEMMA SettleKeepsBooks ==
  ASSUME NEW q, NEW b, NEW t, Books(q, b, t),
         NEW place \in InOrder(Places(b, "metadata"))
  PROVE  Books(q \o Retried(b, "metadata", place), <<>>, t \ Over(b))
<1> DEFINE a == Retried(b, "metadata", place)
           P == Places(b, "metadata")
           again == {Key(b[i].task) : i \in P}
           over == Over(b)
<1>1. /\ a \in Seq(Tasks) /\ DOMAIN a = DOMAIN place
      /\ \A n \in DOMAIN a : /\ a[n].kind = "metadata" /\ place[n] \in P
                             /\ Key(a[n]) = Key(b[place[n]].task)
      /\ \A n, k \in DOMAIN a : place[n] = place[k] => n = k
      /\ \A i \in P : \E n \in DOMAIN a : place[n] = i
  BY RetriedTasks DEF Books
<1>2. P \subseteq Active(b)
  BY DEF Places, Active
<1>3. over = {Key(b[i].task) : i \in Active(b) \ P}
  BY DEF Over, Active, Places
<1> HIDE DEF a, P, over
<1>4. Extractions(a)
  <2>1. \A n, k \in DOMAIN a : Key(a[n]) = Key(a[k]) => n = k
    BY <1>1, <1>2 DEF Books
  <2> QED
    BY <1>1, <2>1 DEF Extractions
<1>5. QueuedKeys(a) = again
  BY <1>1 DEF QueuedKeys
<1>6. ActiveKeys(b) = again \cup over
  BY <1>2, <1>3 DEF ActiveKeys
<1>7. again \cap over = {}
  BY <1>2, <1>3 DEF Books
<1>8. QueuedKeys(q) \cap (again \cup over) = {} /\ t = QueuedKeys(q) \cup again \cup over
  BY <1>6 DEF Books
<1>9. Extractions(q \o a) /\ QueuedKeys(q \o a) = QueuedKeys(q) \cup again
  BY <1>4, <1>5, <1>8, Appended DEF Books
<1>10. ActiveKeys(<<>>) = {} /\ Active(<<>>) = {} /\ <<>> \in Seq(Entries)
  BY DEF ActiveKeys, Active
<1> HIDE DEF again
<1>11. Books(q \o a, <<>>, t \ over)
  BY <1>7, <1>8, <1>9, <1>10 DEF Books
<1> QED
  BY <1>11 DEF a, over

\* Prompts that go again, or that an extraction has found.
LEMMA MorePrompts ==
  ASSUME NEW q, Prompts(q), NEW a, Prompts(a)
  PROVE  Prompts(q \o a)
<1>1. q \in Seq(Tasks) /\ a \in Seq(Tasks)
  BY DEF Prompts
<1>2. /\ q \o a \in Seq(Tasks)
      /\ Len(q \o a) = Len(q) + Len(a)
      /\ \A i \in 1..(Len(q) + Len(a)) : (q \o a)[i] = IF i <= Len(q) THEN q[i] ELSE a[i - Len(q)]
  BY <1>1, ConcatProperties
<1>3. /\ Len(q) \in Nat /\ Len(a) \in Nat /\ DOMAIN q = 1..Len(q) /\ DOMAIN a = 1..Len(a)
      /\ DOMAIN (q \o a) = 1..(Len(q) + Len(a))
  BY <1>1, <1>2, LenProperties
<1>4. \A i \in 1..(Len(q) + Len(a)) : IF i <= Len(q) THEN i \in DOMAIN q ELSE i - Len(q) \in DOMAIN a
  BY <1>3
<1> DEFINE c == q \o a
<1> HIDE DEF c
<1>5. c \in Seq(Tasks) /\ \A i \in DOMAIN c : c[i].kind = "prompt"
  BY <1>2, <1>3, <1>4 DEF Prompts, c
<1> QED
  BY <1>5 DEF Prompts, c

\* The task of a prompt that was found.
LEMMA OnePrompt ==
  ASSUME NEW q, Prompts(q), NEW key \in Keys
  PROVE  Prompts(Append(q, Task("prompt", key, 0)))
<1> DEFINE e == Task("prompt", key, 0)
<1>1. e \in Tasks /\ e.kind = "prompt"
  <2>1. key[1] \in Files /\ key[2] \in Hashes /\ 0 \in 0..MaxRetries
    BY BatchAssumption DEF Keys
  <2> QED
    BY <2>1 DEF Task, Tasks
<1> HIDE DEF e
<1>2. Prompts(<<e>>)
  BY <1>1 DEF Prompts
<1>3. Append(q, e) = q \o <<e>>
  BY <1>1, AppendIsConcat DEF Prompts
<1> QED
  BY <1>2, <1>3, MorePrompts DEF e

----------------------------------------------------------------------------
(* The books are kept by every step, until a statement of theirs fails.     *)

RowTypes ==
    /\ hash \in [Files -> Hashes]
    /\ status \in [Files -> {"none", "pending", "completed", "failed"}]
    /\ post \in [Files -> {"none", "pending", "ready", "failed"}]

OtherTypes ==
    /\ locked \in BOOLEAN
    /\ import \in [Files -> [at : {"no", "due", "written"}, hash : Hashes]]
    /\ job \in {"idle", "waiting", "ready", "tracking"}
    /\ page \subseteq Keys
    /\ awaiting \subseteq Keys

QueueBooks ==
    /\ metadataQueue \in Seq(Tasks) /\ metadataTasks \subseteq Keys
    /\ Prompts(promptQueue)
    /\ batch \in Seq(Entries)
    /\ loop \in {"idle", "batch", "pause", "thrown"}
    /\ scheduled \in BOOLEAN /\ lockRetry \in BOOLEAN
    /\ loop \in {"idle", "pause"} => batch = <<>>
    /\ loop # "thrown" => Books(metadataQueue, batch, metadataTasks)

BooksInv == RowTypes /\ OtherTypes /\ QueueBooks

\* Additions, whoever asks.
LEMMA AddingBooks ==
  ASSUME QueueBooks, NEW S \in SUBSET Keys, AddAll(S), UNCHANGED <<loop, batch, lockRetry>>
  PROVE  QueueBooks'
<1>1. PICK s \in Orders(S \ metadataTasks) :
         metadataQueue' = metadataQueue \o [i \in DOMAIN s |-> Task("metadata", s[i], 0)]
  BY DEF AddAll
<1> DEFINE a == [i \in DOMAIN s |-> Task("metadata", s[i], 0)]
<1>2. a \in Seq(Tasks)
  <2>1. S \ metadataTasks \in SUBSET Keys
    OBVIOUS
  <2>2. Extractions(a)
    BY <2>1, NewTasks
  <2> QED
    BY <2>2 DEF Extractions
<1> HIDE DEF a
<1>3. metadataQueue' \in Seq(Tasks)
  <2>1. metadataQueue' = metadataQueue \o a
    BY <1>1 DEF a
  <2> QED
    BY <1>2, <2>1, ConcatProperties DEF QueueBooks
<1>4. /\ metadataTasks' \subseteq Keys /\ Prompts(promptQueue)' /\ scheduled' \in BOOLEAN
  BY DEF AddAll, QueueBooks
<1>5. loop' # "thrown" => Books(metadataQueue, batch, metadataTasks)'
  BY AddAllKeepsBooks DEF QueueBooks
<1> QED
  BY <1>3, <1>4, <1>5 DEF QueueBooks

\* A turn of the loop, from its pause or when there is none.
LEMMA RunningBooks ==
  ASSUME QueueBooks, loop \in {"idle", "pause"}, NEW pq, Prompts(pq), NEW retry \in BOOLEAN,
         Run(metadataQueue, pq, retry), UNCHANGED metadataTasks, scheduled' \in BOOLEAN
  PROVE  QueueBooks'
<1>1. Books(metadataQueue, <<>>, metadataTasks)
  BY DEF QueueBooks
<1>2. Books(metadataQueue', batch', metadataTasks) /\ Prompts(promptQueue')
  BY <1>1, RunKeepsBooks
<1>3. /\ loop' \in {"idle", "batch"} /\ lockRetry' \in BOOLEAN
      /\ loop' = "idle" => batch' = <<>>
  BY DEF Run
<1>4. metadataQueue' \in Seq(Tasks) /\ batch' \in Seq(Entries)
  BY <1>2 DEF Books, Extractions
<1>5. Books(metadataQueue', batch', metadataTasks')
  BY <1>2
<1> QED
  BY <1>2, <1>3, <1>4, <1>5 DEF QueueBooks

\* The same when processQueue is called beside a loop that goes on.
LEMMA CallingBooks ==
  ASSUME QueueBooks, NEW pq, Prompts(pq), NEW retry \in BOOLEAN,
         Call(metadataQueue, pq, retry), UNCHANGED metadataTasks, scheduled' \in BOOLEAN
  PROVE  QueueBooks'
<1>1. CASE loop = "idle" /\ Run(metadataQueue, pq, retry)
  BY <1>1, RunningBooks
<1>2. CASE /\ loop # "idle"
           /\ metadataQueue' = metadataQueue /\ promptQueue' = pq /\ lockRetry' = retry
           /\ UNCHANGED <<loop, batch>>
  BY <1>2 DEF QueueBooks
<1> QED
  BY <1>1, <1>2 DEF Call

\* Steps that leave the queue alone.
LEMMA RestingBooks == ASSUME QueueBooks, Rested PROVE QueueBooks'
  BY DEF QueueBooks, Rested

\* A task of the batch gets further, under the same key.
LEMMA WorkingBooks ==
  ASSUME QueueBooks, NEW i, Working(i)
  PROVE  QueueBooks'
<1>1. PICK to \in {"written"} \cup Answered : \E from : Reaches(i, from, to)
  BY DEF Working, Write, Return, Refuse, Reject, Collect, Answered
<1>2. /\ loop = "batch" /\ i \in DOMAIN batch
      /\ batch' = [batch EXCEPT ![i].at = to]
      /\ UNCHANGED <<loop, metadataQueue, metadataTasks, timers>>
  BY <1>1 DEF Reaches
<1>3. /\ batch \in [1..Len(batch) -> Entries] /\ DOMAIN batch = 1..Len(batch)
      /\ Len(batch) \in Nat
  BY LenProperties DEF QueueBooks
<1>4. batch[i] \in Entries /\ [batch[i] EXCEPT !.at = to] \in Entries
      /\ [batch[i] EXCEPT !.at = to].task = batch[i].task
  BY <1>2, <1>3 DEF Entries
<1>5. batch' = [batch EXCEPT ![i] = [batch[i] EXCEPT !.at = to]]
  BY <1>2
<1>6. /\ batch' \in [1..Len(batch) -> Entries] /\ DOMAIN batch' = DOMAIN batch
      /\ \A k \in DOMAIN batch : batch'[k].task = batch[k].task
  BY <1>3, <1>4, <1>5
<1>7. batch' \in Seq(Entries)
  BY <1>3, <1>6
<1>8. Active(batch') = Active(batch) /\ ActiveKeys(batch') = ActiveKeys(batch)
  <2>1. Active(batch') = Active(batch)
    BY <1>6 DEF Active
  <2>2. \A k \in Active(batch) : Key(batch'[k].task) = Key(batch[k].task)
    BY <1>6 DEF Active
  <2> QED
    BY <2>1, <2>2 DEF ActiveKeys
<1>9. Books(metadataQueue', batch', metadataTasks')
  <2>1. Books(metadataQueue, batch, metadataTasks)
    BY <1>2 DEF QueueBooks
  <2>2. \A k, n \in Active(batch') : Key(batch'[k].task) = Key(batch'[n].task) => k = n
    BY <1>6, <1>8, <2>1 DEF Books, Active
  <2> QED
    BY <1>2, <1>7, <1>8, <2>1, <2>2 DEF Books
<1>10. Prompts(promptQueue)'
  <2>1. CASE UNCHANGED promptQueue
    BY <2>1 DEF QueueBooks
  <2>2. CASE promptQueue' = Append(promptQueue, Task("prompt", Key(batch[i].task), 0))
    <3>1. Key(batch[i].task) \in Keys
      BY <1>4 DEF Entries, Tasks, Key, Keys
    <3>2. Prompts(promptQueue)
      BY DEF QueueBooks
    <3> QED
      BY <2>2, <3>1, <3>2, OnePrompt
  <2> QED
    BY <2>1, <2>2 DEF Working, Write, Return, Refuse, Reject, Collect
<1> QED
  BY <1>2, <1>7, <1>9, <1>10 DEF QueueBooks

\* What a turn after a batch adds is well formed, as far as it comes.
LEMMA SettlingTypes ==
  ASSUME QueueBooks, NEW done \in Seq(Entries), SettleEntries(done)
  PROVE  metadataQueue' \in Seq(Tasks) /\ metadataTasks' \subseteq Keys /\ Prompts(promptQueue)'
<1>1. PICK mplace \in InOrder(Places(done, "metadata")) :
         metadataQueue' = metadataQueue \o Retried(done, "metadata", mplace)
  BY DEF SettleEntries
<1>2. PICK pplace \in InOrder(Places(done, "prompt")) :
         promptQueue' = promptQueue \o Retried(done, "prompt", pplace)
  BY DEF SettleEntries
<1>3. Retried(done, "metadata", mplace) \in Seq(Tasks)
  BY RetriedTasks
<1>4. Prompts(Retried(done, "prompt", pplace))
  BY RetriedTasks DEF Prompts
<1>5. metadataQueue' \in Seq(Tasks)
  BY <1>1, <1>3, ConcatProperties DEF QueueBooks
<1>6. Prompts(promptQueue')
  <2>1. Prompts(promptQueue)
    BY DEF QueueBooks
  <2> QED
    BY <1>2, <1>4, <2>1, MorePrompts
<1>7. metadataTasks' \subseteq Keys
  BY DEF SettleEntries, QueueBooks
<1> QED
  BY <1>5, <1>6, <1>7

LEMMA SettlingBooks == ASSUME QueueBooks, Settle PROVE QueueBooks'
<1>1. SettleEntries(batch) /\ loop' = "pause" /\ batch' = <<>> /\ batch \in Seq(Entries)
  BY DEF Settle, QueueBooks
<1>2. metadataQueue' \in Seq(Tasks) /\ metadataTasks' \subseteq Keys /\ Prompts(promptQueue)'
  BY <1>1, SettlingTypes
<1>3. PICK place \in InOrder(Places(batch, "metadata")) :
         metadataQueue' = metadataQueue \o Retried(batch, "metadata", place)
  BY <1>1 DEF SettleEntries
<1>4. loop = "batch" /\ metadataTasks' = metadataTasks \ Over(batch) /\ UNCHANGED timers
  BY <1>1 DEF SettleEntries
<1>5. Books(metadataQueue, batch, metadataTasks)
  BY <1>4 DEF QueueBooks
<1>6. Books(metadataQueue', batch', metadataTasks')
  BY <1>1, <1>3, <1>4, <1>5, SettleKeepsBooks
<1> QED
  BY <1>1, <1>2, <1>4, <1>6 DEF QueueBooks

\* When a final failure cannot be recorded the queue is stopped, and well formed.
LEMMA ThrowingBooks == ASSUME QueueBooks, NEW i \in Nat, SettleThrows(i) PROVE QueueBooks'
<1>1. /\ SettleEntries(SubSeq(batch, 1, i - 1)) /\ loop' = "thrown" /\ UNCHANGED batch
      /\ UNCHANGED timers /\ i \in DOMAIN batch
  BY DEF SettleThrows, SettleEntries
<1>2. SubSeq(batch, 1, i - 1) \in Seq(Entries)
  <2>1. batch \in Seq(Entries) /\ i \in 1..Len(batch) /\ Len(batch) \in Nat
    BY <1>1, LenProperties DEF QueueBooks
  <2>2. i - 1 \in Nat /\ i - 1 <= Len(batch)
    BY <2>1
  <2> QED
    BY <2>1, <2>2, TakenOff
<1>3. metadataQueue' \in Seq(Tasks) /\ metadataTasks' \subseteq Keys /\ Prompts(promptQueue)'
  BY <1>1, <1>2, SettlingTypes
<1> QED
  BY <1>1, <1>3 DEF QueueBooks

\* A restart loses the queue with its books.
LEMMA EmptyBooks == Books(<<>>, <<>>, {}) /\ Prompts(<<>>)
  BY DEF Books, Extractions, Prompts, QueuedKeys, ActiveKeys, Active

LEMMA RestartingBooks == ASSUME Restart PROVE QueueBooks'
<1>1. /\ metadataQueue' = <<>> /\ promptQueue' = <<>> /\ metadataTasks' = {}
      /\ loop' = "idle" /\ batch' = <<>> /\ scheduled' = FALSE /\ lockRetry' = FALSE
  BY DEF Restart
<1>2. Books(metadataQueue', batch', metadataTasks') /\ Prompts(promptQueue')
  BY <1>1, EmptyBooks
<1>3. metadataQueue' \in Seq(Tasks) /\ batch' \in Seq(Entries)
  BY <1>1
<1> QED
  BY <1>1, <1>2, <1>3 DEF QueueBooks

\* What the extraction of one file writes.
LEMMA FinishTypes ==
  ASSUME RowTypes, NEW f, NEW h, NEW outcome \in {"completed", "failed"},
         Finish(f, h, outcome), UNCHANGED hash
  PROVE  RowTypes'
  BY DEF RowTypes, Finish

LEMMA MarkReadyTypes ==
  ASSUME RowTypes, NEW f, NEW h, MarkReady(f, h), UNCHANGED <<hash, status>>
  PROVE  RowTypes'
  BY DEF RowTypes, MarkReady

\* The key of an import, or of a row.
LEMMA FileKeys ==
  ASSUME RowTypes, OtherTypes, NEW f \in Files
  PROVE  /\ import[f].hash \in Hashes /\ <<f, import[f].hash>> \in Keys
         /\ hash[f] \in Hashes /\ <<f, hash[f]>> \in Keys
  BY DEF RowTypes, OtherTypes, Keys

\* Import at once: the same writes beside the loop.
LEMMA ImportingBooks == ASSUME BooksInv, NEW f \in Files, Importing(f) PROVE BooksInv'
<1> DEFINE key == <<f, import[f].hash>>
<1>1. key \in Keys /\ import[f].hash \in Hashes
  BY FileKeys DEF BooksInv
<1>2. /\ \E to \in {"no", "written"} :
            import' = [import EXCEPT ![f] = [at |-> to, hash |-> import[f].hash]]
      /\ UNCHANGED <<hash, locked, jobVars>>
  BY DEF Importing, ImportQueues, ImportWrites, ImportReturns, ImportRefuses, Imports
<1>3. OtherTypes'
  <2>1. import' \in [Files -> [at : {"no", "due", "written"}, hash : Hashes]]
    BY <1>1, <1>2 DEF BooksInv, OtherTypes
  <2> QED
    BY <1>2, <2>1 DEF BooksInv, OtherTypes
<1>4. CASE ImportQueues(f)
  <2>1. AddAll({key}) /\ UNCHANGED <<status, post, loop, batch, lockRetry>>
    BY <1>4 DEF ImportQueues
  <2>2. {key} \in SUBSET Keys
    BY <1>1
  <2>3. QueueBooks'
    BY <2>1, <2>2, AddingBooks DEF BooksInv
  <2>4. RowTypes'
    BY <1>2, <2>1 DEF BooksInv, RowTypes
  <2> QED
    BY <1>3, <2>3, <2>4 DEF BooksInv
<1>5. CASE ImportWrites(f) \/ ImportRefuses(f)
  <2>1. /\ \E outcome \in {"completed", "failed"} : Finish(f, import[f].hash, outcome)
        /\ Rested
    BY <1>5 DEF ImportWrites, ImportRefuses
  <2>2. RowTypes'
    BY <1>2, <2>1, FinishTypes DEF BooksInv
  <2> QED
    BY <1>3, <2>1, <2>2, RestingBooks DEF BooksInv
<1>6. CASE ImportReturns(f)
  <2>1. MarkReady(f, import[f].hash) /\ UNCHANGED <<status, metadataTasks, scheduled>>
    BY <1>6 DEF ImportReturns
  <2>2. RowTypes'
    BY <1>2, <2>1, MarkReadyTypes DEF BooksInv
  <2>3. CASE Call(metadataQueue, Append(promptQueue, Task("prompt", key, 0)), lockRetry)
    <3>1. Prompts(Append(promptQueue, Task("prompt", key, 0)))
      BY <1>1, OnePrompt DEF BooksInv, QueueBooks
    <3>2. lockRetry \in BOOLEAN /\ scheduled' \in BOOLEAN
      BY <2>1 DEF BooksInv, QueueBooks
    <3> QED
      BY <1>3, <2>1, <2>2, <2>3, <3>1, <3>2, CallingBooks DEF BooksInv
  <2>4. CASE UNCHANGED <<loop, batch, metadataQueue, promptQueue, lockRetry>>
    <3>1. QueueBooks'
      BY <2>1, <2>4 DEF BooksInv, QueueBooks
    <3> QED
      BY <1>3, <2>2, <3>1 DEF BooksInv
  <2> QED
    BY <1>6, <2>3, <2>4 DEF ImportReturns
<1> QED
  BY <1>4, <1>5, <1>6 DEF Importing

\* Every step of the specification.
LEMMA BooksSteps == BooksInv /\ [Next]_vars => BooksInv'
<1> SUFFICES ASSUME BooksInv, [Next]_vars PROVE BooksInv'
  OBVIOUS
<1> USE DEF BooksInv
<1>b. /\ scheduled \in BOOLEAN /\ lockRetry \in BOOLEAN
      /\ FALSE \in BOOLEAN /\ Prompts(promptQueue)
  BY DEF QueueBooks
<1>r. UNCHANGED rows => RowTypes'
  BY DEF RowTypes
<1>o. UNCHANGED <<locked, import, jobVars>> => OtherTypes'
  BY DEF OtherTypes
<1>1. CASE ScheduledRun
  BY <1>1, <1>b, <1>r, <1>o, CallingBooks DEF ScheduledRun
<1>2. CASE LockRetryFires
  BY <1>2, <1>b, <1>r, <1>o, CallingBooks DEF LockRetryFires
<1>3. CASE PauseEnds
  BY <1>3, <1>b, <1>r, <1>o, RunningBooks DEF PauseEnds
<1>4. CASE Settle
  <2>1. RowTypes'
    BY <1>4 DEF Settle, SettleEntries, RowTypes
  <2>2. OtherTypes'
    BY <1>4 DEF Settle, SettleEntries, OtherTypes
  <2> QED
    BY <1>4, <2>1, <2>2, SettlingBooks
<1>5. ASSUME NEW i \in 1..BatchSize, SettleThrows(i) PROVE BooksInv'
  <2>1. RowTypes'
    BY <1>5 DEF SettleThrows, SettleEntries, RowTypes
  <2>2. OtherTypes'
    BY <1>5 DEF SettleThrows, SettleEntries, OtherTypes
  <2>3. i \in Nat
    BY BatchAssumption
  <2> QED
    BY <1>5, <2>1, <2>2, <2>3, ThrowingBooks
<1>6. ASSUME NEW i \in 1..BatchSize, Working(i) PROVE BooksInv'
  <2> DEFINE f == batch[i].task.file
             h == batch[i].task.hash
  <2>1. UNCHANGED <<hash, locked, import, jobVars>>
    BY <1>6 DEF Working, Write, Return, Refuse, Reject, Collect, Reaches
  <2>2. \/ \E outcome \in {"completed", "failed"} : Finish(f, h, outcome)
        \/ MarkReady(f, h) /\ UNCHANGED status
        \/ UNCHANGED <<status, post>>
    BY <1>6 DEF Working, Write, Return, Refuse, Reject, Collect
  <2> HIDE DEF f, h
  <2>3. RowTypes'
    BY <1>r, <2>1, <2>2, FinishTypes, MarkReadyTypes
  <2> QED
    BY <1>6, <1>o, <2>1, <2>3, WorkingBooks
<1>7. ASSUME NEW f \in Files, Register(f) PROVE BooksInv'
  <2>1. RowTypes'
    BY <1>7 DEF Register, RowTypes
  <2>2. hash[f] \in Hashes
    BY FileKeys
  <2>3. OtherTypes'
    BY <1>7, <2>2 DEF Register, OtherTypes
  <2> QED
    BY <1>7, <2>1, <2>3, RestingBooks DEF Register
<1>8. ASSUME NEW f \in Files, Importing(f) PROVE BooksInv'
  BY <1>8, ImportingBooks
<1>9. ASSUME NEW f \in Files, Remap(f) PROVE BooksInv'
  <2>1. hash' \in [Files -> Hashes]
    <3>1. hash \in [Files -> Hashes] /\ hash[f] < MaxRemaps
      BY <1>9 DEF Remap, RowTypes
    <3>2. hash[f] + 1 \in Hashes
      BY <3>1, FilesAssumption DEF Hashes
    <3> QED
      BY <1>9, <3>1, <3>2 DEF Remap
  <2>2. RowTypes'
    BY <1>9, <2>1 DEF Remap, RowTypes
  <2> QED
    BY <1>9, <1>o, <2>2, RestingBooks DEF Remap
<1>10. CASE ReleaseReady
  <2>1. RowTypes'
    BY <1>10 DEF ReleaseReady, RowTypes
  <2> QED
    BY <1>10, <1>o, <2>1, RestingBooks DEF ReleaseReady
<1>11. CASE Recover
  <2>1. {<<f, hash[f]>> : f \in {g \in Files : status[g] = "pending"}} \in SUBSET Keys
    BY FileKeys
  <2> QED
    BY <1>11, <1>r, <1>o, <2>1, AddingBooks DEF Recover
<1>12. CASE JobReads
  <2>1. page' \subseteq Keys
    BY <1>12, FileKeys DEF JobReads, Known
  <2>2. OtherTypes'
    BY <1>12, <2>1 DEF JobReads, OtherTypes
  <2> QED
    BY <1>12, <1>r, <2>2, RestingBooks DEF JobReads
<1>13. CASE JobTracks
  <2>1. OtherTypes'
    BY <1>13 DEF JobTracks, OtherTypes
  <2>2. page \in SUBSET Keys
    BY DEF OtherTypes
  <2> QED
    BY <1>13, <1>r, <2>1, <2>2, AddingBooks DEF JobTracks
<1>14. CASE JobEnds \/ Lock \/ Unlock
  <2>1. OtherTypes'
    BY <1>14 DEF JobEnds, Lock, Unlock, OtherTypes
  <2> QED
    BY <1>14, <1>r, <2>1, RestingBooks DEF JobEnds, Lock, Unlock
<1>15. CASE Restart
  <2>1. 0 \in Hashes
    BY FilesAssumption DEF Hashes
  <2>2. OtherTypes'
    BY <1>15, <2>1 DEF Restart, OtherTypes
  <2> QED
    BY <1>15, <1>r, <2>2, RestartingBooks DEF Restart
<1>16. CASE UNCHANGED vars
  BY <1>16, <1>r, <1>o DEF QueueBooks
<1>17. ASSUME NEW f \in Files, TaggingEnds(f) PROVE BooksInv'
  <2>1. /\ MarkReady(f, hash[f]) /\ UNCHANGED <<hash, status, locked, import, jobVars>>
        /\ Rested
    BY <1>17 DEF TaggingEnds
  <2>2. RowTypes'
    BY <2>1, MarkReadyTypes
  <2> QED
    BY <1>o, <2>1, <2>2, RestingBooks
<1> QED
  BY <1>1, <1>2, <1>3, <1>4, <1>5, <1>6, <1>7, <1>8, <1>9, <1>10, <1>11, <1>12, <1>13,
     <1>14, <1>15, <1>16, <1>17
  DEF Next, Looping

----------------------------------------------------------------------------
(* Whoever waits for room is told of it.                                    *)

Size == Len(metadataQueue) + Len(promptQueue) + Len(batch)

LEMMA Lengths ==
  ASSUME QueueBooks
  PROVE  Len(metadataQueue) \in Nat /\ Len(promptQueue) \in Nat /\ Len(batch) \in Nat
  BY LenProperties DEF QueueBooks, Prompts

\* A queue that does not shrink has no room it did not have.
LEMMA NoRoomMade ==
  ASSUME QueueBooks, QueueBooks', RoomIsTold, Size <= Size', job' = "waiting" => job = "waiting"
  PROVE  RoomIsTold'
<1>1. Size \in Nat /\ Size' \in Nat
  <2>1. /\ Len(metadataQueue) \in Nat /\ Len(promptQueue) \in Nat /\ Len(batch) \in Nat
        /\ Len(metadataQueue') \in Nat /\ Len(promptQueue') \in Nat /\ Len(batch') \in Nat
    BY LenProperties DEF QueueBooks, Prompts
  <2> QED
    BY <2>1 DEF Size
<1>2. HasCapacity <=> Size <= Room
  BY DEF HasCapacity, Size
<1>3. HasCapacity' <=> Size' <= Room
  BY DEF HasCapacity, Size
<1>4. Size' <= Room => Size <= Room
  BY <1>1, RoomAssumption
<1> QED
  BY <1>2, <1>3, <1>4 DEF RoomIsTold

\* Appended to, a queue is longer.
LEMMA Longer ==
  ASSUME NEW T, NEW q \in Seq(T), NEW a \in Seq(T)
  PROVE  Len(q) <= Len(q \o a) /\ Len(q) \in Nat /\ Len(q \o a) \in Nat
<1>1. Len(q \o a) = Len(q) + Len(a) /\ Len(q) \in Nat /\ Len(a) \in Nat
  BY ConcatProperties, LenProperties
<1> QED
  BY <1>1

LEMMA AddingSize ==
  ASSUME QueueBooks, NEW S \in SUBSET Keys, AddAll(S), UNCHANGED batch
  PROVE  Size <= Size'
<1>1. PICK s \in Orders(S \ metadataTasks) :
         metadataQueue' = metadataQueue \o [i \in DOMAIN s |-> Task("metadata", s[i], 0)]
  BY DEF AddAll
<1> DEFINE a == [i \in DOMAIN s |-> Task("metadata", s[i], 0)]
<1>2. a \in Seq(Tasks)
  <2>1. S \ metadataTasks \in SUBSET Keys
    OBVIOUS
  <2>2. Extractions(a)
    BY <2>1, NewTasks
  <2> QED
    BY <2>2 DEF Extractions
<1>3. metadataQueue' = metadataQueue \o a /\ promptQueue' = promptQueue
  BY <1>1 DEF AddAll
<1> HIDE DEF a
<1>4. Len(metadataQueue) <= Len(metadataQueue') /\ Len(metadataQueue') \in Nat
  BY <1>2, <1>3, Longer DEF QueueBooks
<1> QED
  BY <1>3, <1>4, Lengths DEF Size

\* A turn of the loop moves tasks from the queues to the batch and drops none.
LEMMA RunSize ==
  ASSUME NEW mq \in Seq(Tasks), NEW pq \in Seq(Tasks), NEW retry, Run(mq, pq, retry)
  PROVE  Size' = Len(mq) + Len(pq)
<1> DEFINE m == Least(BatchSize, Len(mq))
           p == Least(BatchSize - m, Len(pq))
           heads == SubSeq(mq, 1, m)
           others == SubSeq(pq, 1, p)
           taken == heads \o others
<1>1. Len(mq) \in Nat /\ Len(pq) \in Nat
  BY LenProperties
<1>2. CASE ~((mq # <<>> \/ pq # <<>>) /\ ~locked)
  <2>1. batch' = <<>> /\ metadataQueue' = mq /\ promptQueue' = pq
    BY <1>2 DEF Run
  <2>2. Len(batch') = 0 /\ Len(metadataQueue') = Len(mq) /\ Len(promptQueue') = Len(pq)
    BY <2>1
  <2> QED
    BY <1>1, <2>2 DEF Size
<1>3. CASE (mq # <<>> \/ pq # <<>>) /\ ~locked
  <2>1. /\ batch' = [i \in DOMAIN taken |-> [task |-> taken[i], at |-> "running"]]
        /\ metadataQueue' = SubSeq(mq, m + 1, Len(mq))
        /\ promptQueue' = SubSeq(pq, p + 1, Len(pq))
    BY <1>3 DEF Run
  <2>2. m \in Nat /\ m <= Len(mq) /\ m <= BatchSize
    BY <1>1, BatchAssumption DEF Least
  <2>3. p \in Nat /\ p <= Len(pq)
    <3> HIDE DEF m
    <3>1. BatchSize - m \in Nat
      BY <2>2, BatchAssumption
    <3> QED
      BY <1>1, <3>1 DEF Least
  <2> HIDE DEF m, p
  <2>4. heads \in Seq(Tasks) /\ Len(heads) = m /\ Len(metadataQueue') = Len(mq) - m
    BY <2>1, <2>2, TakenOff
  <2>5. others \in Seq(Tasks) /\ Len(others) = p /\ Len(promptQueue') = Len(pq) - p
    BY <2>1, <2>3, TakenOff
  <2> HIDE DEF heads, others
  <2>6. taken \in Seq(Tasks) /\ Len(taken) = m + p
    BY <2>4, <2>5, ConcatProperties
  <2>7. Len(batch') = m + p
    <3>1. DOMAIN taken = 1..(m + p)
      BY <2>6, LenProperties
    <3> HIDE DEF taken
    <3>2. batch' = [i \in 1..(m + p) |-> [task |-> taken[i], at |-> "running"]]
      BY <2>1, <3>1
    <3>3. m + p \in Nat
      BY <2>2, <2>3
    <3> QED
      BY <3>2, <3>3
  <2>8. (Len(mq) - m) + (Len(pq) - p) + (m + p) = Len(mq) + Len(pq)
    BY <1>1, <2>2, <2>3
  <2> QED
    BY <2>4, <2>5, <2>7, <2>8 DEF Size
<1> QED
  BY <1>2, <1>3

\* So does a call of it, whether or not a loop goes on.
LEMMA CallingSize ==
  ASSUME QueueBooks, NEW pq \in Seq(Tasks), Len(promptQueue) <= Len(pq), NEW retry,
         \/ Call(metadataQueue, pq, retry)
         \/ loop = "pause" /\ Run(metadataQueue, pq, retry)
  PROVE  Size <= Size'
<1>1. Len(pq) \in Nat
  BY LenProperties
<1>2. CASE loop \in {"idle", "pause"} /\ Run(metadataQueue, pq, retry)
  <2>1. Size' = Len(metadataQueue) + Len(pq)
    BY <1>2, RunSize DEF QueueBooks
  <2>2. Len(batch) = 0
    BY <1>2 DEF QueueBooks
  <2> QED
    BY <1>1, <2>1, <2>2, Lengths DEF Size
<1>3. CASE metadataQueue' = metadataQueue /\ promptQueue' = pq /\ UNCHANGED batch
  BY <1>1, <1>3, Lengths DEF Size
<1> QED
  BY <1>2, <1>3 DEF Call

LEMMA WorkingSize ==
  ASSUME QueueBooks, NEW i, Working(i)
  PROVE  Size <= Size' /\ UNCHANGED job
<1>1. PICK to : \E from : Reaches(i, from, to)
  BY DEF Working, Write, Return, Refuse, Reject, Collect
<1>2. /\ i \in DOMAIN batch /\ batch' = [batch EXCEPT ![i].at = to]
      /\ UNCHANGED <<metadataQueue, job>>
  BY <1>1 DEF Reaches
<1>3. Len(batch') = Len(batch)
  <2>1. batch \in [1..Len(batch) -> Entries] /\ Len(batch) \in Nat
    BY LenProperties DEF QueueBooks
  <2>2. DOMAIN batch' = 1..Len(batch)
    BY <1>2, <2>1
  <2>3. batch' = [k \in 1..Len(batch) |-> batch'[k]]
    BY <1>2, <2>1, <2>2
  <2> HIDE <1>2
  <2> QED
    BY <2>1, <2>2, <2>3
<1>4. Len(promptQueue) <= Len(promptQueue') /\ Len(promptQueue') \in Nat
  <2>1. CASE UNCHANGED promptQueue
    BY <2>1, Lengths
  <2>2. CASE promptQueue' = Append(promptQueue, Task("prompt", Key(batch[i].task), 0))
    <3>1. promptQueue \in Seq(Tasks) /\ Task("prompt", Key(batch[i].task), 0) \in Tasks
      <4>1. batch[i] \in Entries
        BY <1>2, ElementOfSeq, LenProperties DEF QueueBooks
      <4>2. Key(batch[i].task) \in Keys
        BY <4>1 DEF Entries, Tasks, Key, Keys
      <4> QED
        BY <4>2, BatchAssumption DEF QueueBooks, Prompts, Task, Tasks, Keys
    <3>2. Len(promptQueue') = Len(promptQueue) + 1
      BY <2>2, <3>1, AppendProperties
    <3> QED
      BY <3>2, Lengths
  <2> QED
    BY <2>1, <2>2 DEF Working, Write, Return, Refuse, Reject, Collect
<1> QED
  BY <1>2, <1>3, <1>4, Lengths DEF Size

LEMMA ThrowingSize ==
  ASSUME QueueBooks, NEW i \in Nat, SettleThrows(i)
  PROVE  Size <= Size' /\ UNCHANGED job
<1> DEFINE done == SubSeq(batch, 1, i - 1)
<1>1. SettleEntries(done) /\ UNCHANGED <<batch, job>> /\ i \in DOMAIN batch
  BY DEF SettleThrows
<1>2. done \in Seq(Entries)
  <2>1. batch \in Seq(Entries) /\ i \in 1..Len(batch) /\ Len(batch) \in Nat
    BY <1>1, LenProperties DEF QueueBooks
  <2>2. i - 1 \in Nat /\ i - 1 <= Len(batch)
    BY <2>1
  <2> QED
    BY <2>1, <2>2, TakenOff
<1> HIDE DEF done
<1>3. PICK mplace \in InOrder(Places(done, "metadata")) :
         metadataQueue' = metadataQueue \o Retried(done, "metadata", mplace)
  BY <1>1 DEF SettleEntries
<1>4. PICK pplace \in InOrder(Places(done, "prompt")) :
         promptQueue' = promptQueue \o Retried(done, "prompt", pplace)
  BY <1>1 DEF SettleEntries
<1>5. Len(metadataQueue) <= Len(metadataQueue') /\ Len(metadataQueue') \in Nat
  BY <1>2, <1>3, RetriedTasks, Longer DEF QueueBooks
<1>6. Len(promptQueue) <= Len(promptQueue') /\ Len(promptQueue') \in Nat
  BY <1>2, <1>4, RetriedTasks, Longer DEF QueueBooks, Prompts
<1> QED
  BY <1>1, <1>5, <1>6, Lengths DEF Size

\* Only the end of a batch makes room, and it tells of it.
LEMMA RoomSteps == BooksInv /\ RoomIsTold /\ [Next]_vars => RoomIsTold'
<1> SUFFICES ASSUME BooksInv, RoomIsTold, [Next]_vars PROVE RoomIsTold'
  OBVIOUS
<1> USE DEF BooksInv
<1>1. QueueBooks /\ QueueBooks' /\ RowTypes /\ OtherTypes
  BY BooksSteps
<1>2. ASSUME Size <= Size', job' = "waiting" => job = "waiting" PROVE RoomIsTold'
  BY <1>1, <1>2, NoRoomMade
<1>3. promptQueue \in Seq(Tasks) /\ Len(promptQueue) <= Len(promptQueue)
  BY <1>1, Lengths DEF QueueBooks, Prompts
<1>4. ASSUME Rested PROVE Size <= Size' /\ (HasCapacity' <=> HasCapacity)
  BY <1>1, <1>4, Lengths DEF Rested, Size, HasCapacity
<1>5. CASE ScheduledRun \/ LockRetryFires \/ PauseEnds
  <2>1. Size <= Size'
    BY <1>1, <1>3, <1>5, CallingSize DEF ScheduledRun, LockRetryFires, PauseEnds
  <2> QED
    BY <1>2, <1>5, <2>1 DEF ScheduledRun, LockRetryFires, PauseEnds
<1>6. CASE Settle
  BY <1>6 DEF Settle, RoomIsTold
<1>7. ASSUME NEW i \in 1..BatchSize, Working(i) \/ SettleThrows(i) PROVE RoomIsTold'
  BY <1>1, <1>2, <1>7, WorkingSize, ThrowingSize
<1>8. ASSUME NEW f \in Files, Register(f) \/ Remap(f) \/ ImportWrites(f) \/ ImportRefuses(f)
      PROVE  RoomIsTold'
  BY <1>2, <1>4, <1>8 DEF Register, Remap, ImportWrites, ImportRefuses, Imports
<1>9. ASSUME NEW f \in Files, ImportQueues(f) \/ ImportReturns(f) PROVE RoomIsTold'
  <2>1. <<f, import[f].hash>> \in Keys
    BY <1>1, FileKeys
  <2>2. CASE ImportQueues(f)
    <3>1. Size <= Size'
      BY <1>1, <2>1, <2>2, AddingSize DEF ImportQueues
    <3> QED
      BY <1>2, <2>2, <3>1 DEF ImportQueues, Imports
  <2>3. CASE ImportReturns(f)
    <3> DEFINE t == Task("prompt", <<f, import[f].hash>>, 0)
    <3>1. t \in Tasks
      BY <2>1, BatchAssumption DEF Task, Tasks, Keys
    <3> HIDE DEF t
    <3>2. /\ Append(promptQueue, t) \in Seq(Tasks)
          /\ Len(promptQueue) <= Len(Append(promptQueue, t))
      BY <1>3, <3>1, AppendProperties, LenProperties
    <3>3. CASE Call(metadataQueue, Append(promptQueue, t), lockRetry)
      BY <1>1, <1>2, <2>3, <3>2, <3>3, CallingSize DEF ImportReturns, Imports
    <3>4. CASE UNCHANGED <<loop, batch, metadataQueue, promptQueue, lockRetry>>
      <4>1. Size <= Size'
        BY <1>1, <3>4, Lengths DEF Size
      <4> QED
        BY <1>2, <2>3, <4>1 DEF ImportReturns, Imports
    <3> QED
      BY <2>3, <3>3, <3>4 DEF ImportReturns, t
  <2> QED
    BY <1>9, <2>2, <2>3
<1>10. CASE ReleaseReady \/ Lock \/ Unlock \/ JobEnds \/ \E f \in Files : TaggingEnds(f)
  BY <1>2, <1>4, <1>10 DEF ReleaseReady, TaggingEnds, Lock, Unlock, JobEnds
<1>11. CASE Recover
  <2> DEFINE S == {<<f, hash[f]>> : f \in {g \in Files : status[g] = "pending"}}
  <2>1. S \in SUBSET Keys
    BY <1>1, FileKeys
  <2>2. AddAll(S) /\ UNCHANGED <<batch, job>>
    BY <1>11 DEF Recover
  <2> HIDE DEF S
  <2> QED
    BY <1>1, <1>2, <2>1, <2>2, AddingSize
<1>12. CASE JobReads
  BY <1>4, <1>12 DEF JobReads, RoomIsTold
<1>13. CASE JobTracks \/ Restart
  BY <1>13 DEF JobTracks, Restart, RoomIsTold
<1>14. CASE UNCHANGED vars
  <2>1. Size <= Size'
    BY <1>1, <1>14, Lengths DEF Size
  <2> QED
    BY <1>2, <1>14, <2>1
<1> QED
  BY <1>5, <1>6, <1>7, <1>8, <1>9, <1>10, <1>11, <1>12, <1>13, <1>14 DEF Next, Looping, Importing

----------------------------------------------------------------------------

\* As many values as places, when no two places have the same.
LEMMA DifferentValues ==
  ASSUME NEW P, IsFiniteSet(P), NEW g, DOMAIN g = P, g = [i \in P |-> g[i]],
         \A i, j \in P : g[i] = g[j] => i = j
  PROVE  Cardinality({g[i] : i \in P}) = Cardinality(P)
<1> DEFINE K == {g[i] : i \in P}
<1>1. g \in Bijection(P, K)
  BY DEF Bijection, Injection, Surjection, IsInjective
<1>2. ExistsBijection(P, K)
  BY <1>1 DEF ExistsBijection
<1> QED
  BY <1>2, FS_Bijection

\* The books say that there is one task per key, counted as the property counts.
LEMMA BooksCount ==
  ASSUME Books(metadataQueue, batch, metadataTasks)
  PROVE  OneTaskPerKey
<1> DEFINE queued == [i \in DOMAIN metadataQueue |-> Key(metadataQueue[i])]
           active == Active(batch)
           keys == [i \in active |-> Key(batch[i].task)]
<1>1. /\ DOMAIN metadataQueue = 1..Len(metadataQueue) /\ Len(metadataQueue) \in Nat
      /\ DOMAIN batch = 1..Len(batch) /\ Len(batch) \in Nat
  BY LenProperties DEF Books, Extractions
<1>2. Cardinality({queued[i] : i \in DOMAIN queued}) = Len(queued)
  <2>1. IsFiniteSet(DOMAIN queued) /\ Cardinality(DOMAIN queued) = Len(metadataQueue)
    BY <1>1, FiniteInterval
  <2>2. \A i, j \in DOMAIN queued : queued[i] = queued[j] => i = j
    BY DEF Books, Extractions
  <2>3. Len(queued) = Len(metadataQueue)
    BY <1>1
  <2>4. queued = [i \in DOMAIN queued |-> queued[i]]
    OBVIOUS
  <2> HIDE DEF queued
  <2>5. Cardinality({queued[i] : i \in DOMAIN queued}) = Cardinality(DOMAIN queued)
    BY <2>1, <2>2, <2>4, DifferentValues
  <2> QED
    BY <2>1, <2>3, <2>5
<1>3. Cardinality(ActiveKeys(batch)) = Cardinality(active)
  <2>1. IsFiniteSet(active)
    <3>1. active \subseteq 1..Len(batch)
      BY <1>1 DEF Active
    <3> QED
      BY <1>1, <3>1, FiniteInterval, FS_Subset
  <2>2. \A i, j \in active : keys[i] = keys[j] => i = j
    BY DEF Books
  <2>3. DOMAIN keys = active /\ keys = [i \in active |-> keys[i]]
    OBVIOUS
  <2>4. ActiveKeys(batch) = {keys[i] : i \in active}
    BY DEF ActiveKeys
  <2> HIDE DEF keys, active
  <2> QED
    BY <2>1, <2>2, <2>3, <2>4, DifferentValues
<1>4. QueuedKeys(metadataQueue) = {queued[i] : i \in DOMAIN queued}
  BY DEF QueuedKeys
<1> HIDE DEF queued
<1>5. /\ QueuedKeys(metadataQueue) \cap ActiveKeys(batch) = {}
      /\ QueuedKeys(metadataQueue) \cup ActiveKeys(batch) = metadataTasks
  BY DEF Books
<1> QED
  BY <1>2, <1>3, <1>4, <1>5 DEF OneTaskPerKey, ActiveKeys, Active, queued

\* However it is asked for, an extraction is queued or active at most once, exactly
\* while the map has its key; whoever waits for one waits for one there is, and nobody
\* waits for room there is.
THEOREM OneExtractionPerKey == Spec => []TasksInv
<1>1. Init => BooksInv
  <2> SUFFICES ASSUME Init PROVE BooksInv
    OBVIOUS
  <2>1. 0 \in Hashes
    BY FilesAssumption DEF Hashes
  <2>2. RowTypes /\ OtherTypes
    BY <2>1 DEF Init, RowTypes, OtherTypes
  <2>3. QueueBooks
    <3>1. /\ metadataQueue = <<>> /\ promptQueue = <<>> /\ metadataTasks = {}
          /\ loop = "idle" /\ batch = <<>> /\ scheduled = FALSE /\ lockRetry = FALSE
      BY DEF Init
    <3>2. Books(metadataQueue, batch, metadataTasks) /\ Prompts(promptQueue)
      BY <3>1, EmptyBooks
    <3>3. metadataQueue \in Seq(Tasks) /\ batch \in Seq(Entries)
      BY <3>1
    <3> QED
      BY <3>1, <3>2, <3>3 DEF QueueBooks
  <2> QED
    BY <2>2, <2>3 DEF BooksInv
<1>2. BooksInv => TypeOK
  BY DEF BooksInv, RowTypes, OtherTypes, QueueBooks, Prompts, Entries, TypeOK
<1>3. BooksInv => OneTaskPerKey
  <2> SUFFICES ASSUME BooksInv, loop # "thrown" PROVE OneTaskPerKey
    BY DEF OneTaskPerKey
  <2> QED
    BY BooksCount DEF BooksInv, QueueBooks
<1>4. BooksInv /\ AwaitedIsThere /\ RoomIsTold => TasksInv
  BY <1>2, <1>3 DEF TasksInv
<1>5. Init => RoomIsTold
  BY DEF Init, RoomIsTold
<1> QED
  BY <1>1, <1>4, <1>5, BooksSteps, RoomSteps, WaitersHaveTasks, PTL DEF Spec
=============================================================================
