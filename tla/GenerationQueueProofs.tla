----------------------- MODULE GenerationQueueProofs -----------------------
(***************************************************************************)
(* Proofs about the generation queue, for any number of jobs, services,    *)
(* priorities, worker limits and crashes.                                  *)
(*                                                                         *)
(* Every action but a handful moves one job.  For each of them one lemma   *)
(* says what it does to that job (JobInv holds again) and that it leaves   *)
(* the others alone (Same); OneJobMoves lifts this to the invariant.       *)
(***************************************************************************)
EXTENDS GenerationQueueInvariant, TLAPS

\* A job that a step leaves alone.
Same(k) ==
  /\ status'[k] = status[k] /\ cancelRequested'[k] = cancelRequested[k]
  /\ submitState'[k] = submitState[k] /\ retryOf'[k] = retryOf[k]
  /\ worker'[k] = worker[k] /\ upstream'[k] = upstream[k] /\ posts'[k] = posts[k]
  /\ (k \in owned') = (k \in owned) /\ (k \in aborted') = (k \in aborted)
  /\ (k \in cancelling') = (k \in cancelling)
  /\ (k \in reconciling') = (k \in reconciling)
  /\ (k \in waiters') = (k \in waiters)

\* A job that an unforced retry may have copied.
Settled(o) == /\ status[o] \in {"failed", "cancelled"}
              /\ upstream[o] = "none" \/ submitState[o] = "accepted"

\* What a step that moves only j owes to the invariant.
Moves(j) ==
  /\ TypeOK'
  /\ JobInv(j)'
  /\ ServiceOf[j] = "novelai" /\ Settled(j) => Settled(j)'
  /\ \A k \in Jobs : k # j => Same(k)
  /\ retryOf' = retryOf
  /\ mode' = mode /\ probing' = probing

\* A step that moves one job keeps the invariant.
LEMMA OneJobMoves ==
  ASSUME IInv, NEW j \in Jobs, Moves(j)
  PROVE  IInv'
<1>1. ASSUME NEW k \in Jobs PROVE JobInv(k)'
  <2>1. CASE k = j
    BY <2>1 DEF Moves
  <2>2. CASE k # j
    <3>1. Same(k) /\ JobInv(k) /\ mode' = mode /\ probing' = probing
      BY <2>2 DEF Moves, IInv
    <3>2. Ownership(k)'
      BY <3>1 DEF Same, JobInv, Ownership
    <3>3. Progress(k)'
      BY <3>1 DEF Same, JobInv, Progress
    <3>4. OnRecord(k)'
      BY <3>1 DEF Same, JobInv, OnRecord
    <3>5. NaiSubmitState(k)'
      BY <3>1 DEF Same, JobInv, NaiSubmitState
    <3> QED
      BY <3>2, <3>3, <3>4, <3>5 DEF JobInv
  <2> QED
    BY <2>1, <2>2
<1>2. ASSUME NEW k \in Jobs PROVE RetrySettled(k)'
  <2>1. RetrySettled(k) /\ retryOf'[k] = retryOf[k] /\ retryOf[k] \in {0} \union Jobs
    BY DEF IInv, TypeOK, Moves
  <2>2. CASE retryOf[k] = 0 \/ ServiceOf[k] # "novelai"
    BY <2>1, <2>2 DEF RetrySettled
  <2>3. CASE retryOf[k] # 0 /\ ServiceOf[k] = "novelai"
    <3> DEFINE o == retryOf[k]
    <3>1. o \in Jobs /\ ServiceOf[o] = "novelai" /\ Settled(o)
      BY <2>1, <2>3 DEF RetrySettled, Settled
    <3>2. Settled(o)'
      BY <3>1 DEF Moves, Same, Settled
    <3> QED
      BY <2>1, <3>1, <3>2 DEF RetrySettled, Settled
  <2> QED
    BY <2>2, <2>3
<1> QED
  BY <1>1, <1>2 DEF IInv, Moves

\* A transition keeps the row well formed.
LEMMA TransitionTypeOK ==
  ASSUME TypeOK, NEW j \in Jobs, NEW next \in Terminal, NEW submit \in SubmitStates,
         NEW code \in FailureCodes, TransitionJob(j, next, submit, code)
  PROVE  /\ status' \in [Jobs -> Statuses]
         /\ submitState' \in [Jobs -> SubmitStates]
         /\ cancelRequested' \in [Jobs -> BOOLEAN]
         /\ failureCode' \in [Jobs -> FailureCodes]
         /\ waiters' \in SUBSET Jobs
<1>1. SubmitAfter(next, submit) \in SubmitStates
  BY DEF SubmitAfter, SubmitStates
<1>2. next \in Statuses /\ "none" \in FailureCodes
  BY DEF Statuses, FailureCodes
<1> QED
  BY <1>1, <1>2 DEF TypeOK, TransitionJob

\* What the worker of a job does keeps the invariant, up to the end of the job.
LEMMA WorkerAwaits ==
  ASSUME IInv, NEW j \in Jobs, WorkerStep(j), ~Complete(j), ~Finish(j)
  PROVE  Moves(j)
<1> USE DEF IInv, TypeOK, JobInv, Ownership, Progress, OnRecord, NaiSubmitState,
            Moves, Same, Settled, Goto, MarkSubmit, UnchangedByWorker, processVars, signalVars,
            upstreamVars, Active, Running, Statuses, SubmitStates, Stages, UpstreamStates
<1>1. CASE PrepareFails(j)
  BY <1>1 DEF PrepareFails
<1>2. CASE Submit(j)
  BY <1>2 DEF Submit
<1>3. CASE Send(j)
  BY <1>3 DEF Send
<1>4. CASE Spawn(j)
  BY <1>4 DEF Spawn
<1>5. CASE NotSent(j)
  BY <1>5 DEF NotSent, CatchSubmitFailure
<1>6. CASE Refused(j)
  BY <1>6 DEF Refused, CatchSubmitFailure
<1>7. CASE AnswerLost(j)
  BY <1>7 DEF AnswerLost, CatchSubmitFailure
<1>8. CASE Answered(j)
  BY <1>8 DEF Answered, Accepted
<1>9. CASE CompensateConfirms(j)
  BY <1>9 DEF CompensateConfirms
<1>10. CASE CompensateGivesUp(j)
  BY <1>10 DEF CompensateGivesUp
<1>11. CASE Collect(j)
  BY <1>11 DEF Collect
<1>12. CASE SeesCancelComfy(j)
  BY <1>12 DEF SeesCancelComfy
<1>13. CASE SeesCancel(j)
  BY <1>13 DEF SeesCancel
<1>14. CASE CodexKilled(j)
  BY <1>14 DEF CodexKilled
<1>15. CASE ExecutionFails(j)
  BY <1>15 DEF ExecutionFails
<1>16. CASE Abandon(j)
  BY <1>16 DEF Abandon
<1>17. CASE SavingFails(j)
  BY <1>17 DEF SavingFails
<1> QED
  BY <1>1, <1>2, <1>3, <1>4, <1>5, <1>6, <1>7, <1>8, <1>9, <1>10, <1>11, <1>12, <1>13,
     <1>14, <1>15, <1>16, <1>17 DEF WorkerStep

\* So does the end of the job: a live worker finds its row running.
LEMMA WorkerEnds ==
  ASSUME IInv, NEW j \in Jobs, Complete(j) \/ Finish(j)
  PROVE  Moves(j)
<1> USE DEF IInv, TypeOK, JobInv, Ownership, Progress, OnRecord, NaiSubmitState,
            Moves, Same, Settled, Goto, Release, TransitionJob, AllowedTransitions,
            SubmitAfter, UnresolvedSubmitStates, processVars, upstreamVars, Active, Running, Terminal,
            Statuses, SubmitStates, Stages, FailureCodes
<1>1. CASE Complete(j)
  BY <1>1 DEF Complete
<1>2. CASE Finish(j)
  <2> USE <1>2 DEF Finish, Unwinding
  <2>1. TypeOK'
    <3>1. CASE status[j] \in Active
      <4>1. PICK next \in Terminal, code \in FailureCodes :
              TransitionJob(j, next, submitState[j], code)
        BY <3>1
      <4>2. submitState[j] \in SubmitStates
        OBVIOUS
      <4> QED
        BY <4>1, <4>2, TransitionTypeOK
    <3>2. CASE status[j] \notin Active
      BY <3>2
    <3> QED
      BY <3>1, <3>2
  <2>2. Ownership(j)'
    OBVIOUS
  <2>3. Progress(j)' /\ OnRecord(j)'
    OBVIOUS
  <2>4. NaiSubmitState(j)'
    OBVIOUS
  <2>5. Settled(j) => Settled(j)'
    OBVIOUS
  <2>6. ASSUME NEW k \in Jobs, k # j PROVE Same(k)
    BY <2>6
  <2> QED
    BY <2>1, <2>2, <2>3, <2>4, <2>5, <2>6
<1> QED
  BY <1>1, <1>2

\* The dispatcher and the callers of the queue.
LEMMA ServiceMoves ==
  ASSUME IInv, NEW j \in Jobs,
         \/ Enqueue(j) \/ ClaimNextJob(j) \/ FailUnroutable(j)
         \/ WaitForTerminalJob(j) \/ WaiterTimesOut(j) \/ UpstreamStep(j)
  PROVE  Moves(j)
<1> USE DEF IInv, TypeOK, JobInv, Ownership, Progress, OnRecord, NaiSubmitState,
            Moves, Same, Settled, rowVars, processVars, signalVars, upstreamVars,
            Active, Running, Statuses, UpstreamStates
<1>1. CASE Enqueue(j)
  BY <1>1 DEF Enqueue, NextId
<1>2. CASE ClaimNextJob(j)
  <2> USE <1>2 DEF ClaimNextJob, Dispatching, Claimable, Goto, Stages
  <2>1. TypeOK'
    OBVIOUS
  <2>2. Ownership(j)'
    OBVIOUS
  <2>3. Progress(j)' /\ OnRecord(j)'
    OBVIOUS
  <2>4. NaiSubmitState(j)'
    OBVIOUS
  <2>5. Settled(j) => Settled(j)'
    OBVIOUS
  <2>6. ASSUME NEW k \in Jobs, k # j PROVE Same(k)
    BY <2>6
  <2> QED
    BY <2>1, <2>2, <2>3, <2>4, <2>5, <2>6
<1>3. CASE FailUnroutable(j)
  BY <1>3 DEF FailUnroutable, TransitionJob, AllowedTransitions, SubmitAfter, Terminal,
              SubmitStates, FailureCodes
<1>4. CASE WaitForTerminalJob(j)
  BY <1>4 DEF WaitForTerminalJob
<1>5. CASE WaiterTimesOut(j)
  BY <1>5 DEF WaiterTimesOut
<1>6. CASE UpstreamStep(j)
  BY <1>6 DEF UpstreamStep
<1> QED
  BY <1>1, <1>2, <1>3, <1>4, <1>5, <1>6

\* The route, the sweeper and the reconciler: none of them ends a job that has a
\* worker, and none of them clears the record of upstream work.
LEMMA CancellationMoves ==
  ASSUME IInv, NEW j \in Jobs,
         \/ RequestCancellation(j) \/ CancellationAnswered(j)
         \/ FinalizeAbandoned(j) \/ ReconcileOneCandidate(j)
  PROVE  Moves(j)
<1> USE DEF IInv, TypeOK, JobInv, Ownership, Progress, OnRecord, NaiSubmitState,
            Moves, Same, Settled, MarkSubmit, processVars, signalVars, upstreamVars,
            Active, Running, Statuses, SubmitStates, UpstreamStates
<1>1. CASE RequestCancellation(j)
  <2> USE <1>1 DEF RequestCancellation, TransitionJob, AllowedTransitions, SubmitAfter,
             UnresolvedSubmitStates, Terminal, FailureCodes
  <2>1. TypeOK'
    <3>1. CASE status[j] = "queued"
      <4>1. /\ TransitionJob(j, "cancelled", submitState[j], "none")
            /\ "cancelled" \in Terminal /\ "none" \in FailureCodes
            /\ submitState[j] \in SubmitStates
        BY <1>1, <3>1 DEF RequestCancellation, Terminal, FailureCodes
      <4> QED
        BY <1>1, <3>1, <4>1, TransitionTypeOK DEF RequestCancellation
    <3>2. CASE status[j] # "queued"
      <4>1. cancelRequested' \in [Jobs -> BOOLEAN]
        BY <1>1, <3>2 DEF RequestCancellation
      <4>2. aborted' \in SUBSET Jobs /\ cancelling' \in SUBSET Jobs
        BY <1>1, <3>2 DEF RequestCancellation
      <4> QED
        BY <1>1, <3>2, <4>1, <4>2 DEF RequestCancellation
    <3> QED
      BY <3>1, <3>2
  <2>2. Ownership(j)'
    OBVIOUS
  <2>3. Progress(j)' /\ OnRecord(j)'
    OBVIOUS
  <2>4. NaiSubmitState(j)'
    OBVIOUS
  <2>5. Settled(j) => Settled(j)'
    OBVIOUS
  <2>6. ASSUME NEW k \in Jobs, k # j PROVE Same(k)
    BY <2>6
  <2> QED
    BY <2>1, <2>2, <2>3, <2>4, <2>5, <2>6
<1>2. CASE CancellationAnswered(j)
  BY <1>2 DEF CancellationAnswered
<1>3. CASE FinalizeAbandoned(j)
  BY <1>3 DEF FinalizeAbandoned, TransitionJob, AllowedTransitions, SubmitAfter,
              UnresolvedSubmitStates, Terminal, FailureCodes
<1>4. CASE ReconcileOneCandidate(j)
  BY <1>4 DEF ReconcileOneCandidate
<1> QED
  BY <1>1, <1>2, <1>3, <1>4

----------------------------------------------------------------------------
(* The steps that move more than one job.                                  *)

\* A retry creates a row and remembers what it copied: an unforced retry of a
\* NovelAI job copies a settled one.
LEMMA RetryKeeps ==
  ASSUME IInv, NEW o \in Jobs, NEW j \in Jobs, NEW force \in BOOLEAN,
         RetryJob(o, j, force)
  PROVE  IInv'
<1> USE DEF RetryJob, NextId, processVars, signalVars, upstreamVars
<1>1. TypeOK'
  BY DEF IInv, TypeOK, Statuses, Active
<1>2. status[j] = "absent" /\ j # o
  OBVIOUS
<1>3. ASSUME NEW k \in Jobs PROVE JobInv(k)'
  BY <1>2 DEF IInv, TypeOK, JobInv, Ownership, Progress, OnRecord, NaiSubmitState,
              Active, Running
<1>4. ASSUME NEW k \in Jobs PROVE RetrySettled(k)'
  <2>1. CASE k = j
    <3>1. ~force /\ ServiceOf[o] = "novelai" => Settled(o)
      BY DEF AmbiguousNaiSubmit, IInv, JobInv, NaiSubmitState, Settled
    <3> QED
      BY <1>2, <2>1, <3>1 DEF IInv, TypeOK, RetrySettled, Settled
  <2>2. CASE k # j
    BY <1>2, <2>2 DEF IInv, TypeOK, RetrySettled
  <2> QED
    BY <2>1, <2>2
<1> QED
  BY <1>1, <1>3, <1>4 DEF IInv

\* A step of the process itself leaves settled jobs settled and copies nothing.
ProcessMoves ==
  /\ TypeOK'
  /\ \A k \in Jobs : JobInv(k)'
  /\ \A k \in Jobs : ServiceOf[k] = "novelai" /\ Settled(k) => Settled(k)'
  /\ retryOf' = retryOf

\* Such a step keeps the invariant.
LEMMA ProcessMovesKeep ==
  ASSUME IInv, ProcessMoves
  PROVE  IInv'
BY DEF ProcessMoves, IInv, TypeOK, RetrySettled, Settled

\* Stopping aborts every worker before it forgets them.
LEMMA StopMoves ==
  ASSUME IInv, Stop
  PROVE  ProcessMoves
BY DEF Stop, ProcessMoves, IInv, TypeOK, JobInv, Ownership, Progress, OnRecord,
       NaiSubmitState, Settled, rowVars, upstreamVars

\* A dispatch pass moves no job.
LEMMA ProbeMoves ==
  ASSUME IInv, StartProbe \/ EndProbe
  PROVE  ProcessMoves
<1>1. probing' \in BOOLEAN
  BY DEF StartProbe, EndProbe
<1> QED
  BY <1>1 DEF StartProbe, EndProbe, ProcessMoves, IInv, TypeOK, JobInv, Ownership,
     Progress, OnRecord, NaiSubmitState, Settled, rowVars, signalVars, upstreamVars

\* A pass starts with the suspected orphans.
LEMMA StartReconcileMoves ==
  ASSUME IInv, StartReconcile
  PROVE  ProcessMoves
BY DEF StartReconcile, ReconcileStates, ProcessMoves, IInv, TypeOK, JobInv, Ownership,
       Progress, OnRecord, NaiSubmitState, Settled, rowVars, processVars, signalVars, upstreamVars

\* A crash leaves the rows and the upstream service as they are.
LEMMA CrashMoves ==
  ASSUME IInv, Crash
  PROVE  ProcessMoves
<1>1. probing' \in BOOLEAN
  BY DEF Crash, ProcessEnds
<1> QED
  BY <1>1 DEF Crash, ProcessEnds, ProcessMoves, IInv, TypeOK, JobInv, Ownership, Progress,
     OnRecord, NaiSubmitState, Settled, upstreamVars, Stages

\* What a step cut in two leaves behind is a row that recovery settles.
LEMMA TornCrashMoves ==
  ASSUME IInv, NEW j \in Jobs, TornCrash(j)
  PROVE  ProcessMoves
<1> USE DEF TornCrash, MarkSubmit, ProcessEnds, IInv, TypeOK, upstreamVars, Running
<1>1. TypeOK'
  <2>1. status' \in [Jobs -> Statuses]
    BY DEF Active, Statuses
  <2>2. cancelRequested' \in [Jobs -> BOOLEAN]
    OBVIOUS
  <2>3. submitState' \in [Jobs -> SubmitStates]
    BY DEF SubmitStates
  <2>4. probing' \in BOOLEAN
    OBVIOUS
  <2> QED
    BY <2>1, <2>2, <2>3, <2>4 DEF Stages
<1>2. ASSUME NEW k \in Jobs PROVE JobInv(k)'
  <2> USE DEF JobInv, Ownership, Progress, OnRecord, NaiSubmitState
  <2>1. CASE k = j
    BY <2>1
  <2>2. CASE k # j
    BY <2>2
  <2> QED
    BY <2>1, <2>2
<1>3. ASSUME NEW k \in Jobs, ServiceOf[k] = "novelai", Settled(k) PROVE Settled(k)'
  BY <1>3 DEF Settled
<1> QED
  BY <1>1, <1>2, <1>3 DEF ProcessMoves

\* Recovery fails, cancels or marks the interrupted jobs; no worker is left.
LEMMA RestartMoves ==
  ASSUME IInv, Restart
  PROVE  ProcessMoves
<1>1. PICK expired \in SUBSET {j \in Jobs : status[j] \in Running /\ submitState[j] # "none"} :
        /\ status' = [j \in Jobs |-> RecoveredStatus(j, expired)]
        /\ submitState' = [j \in Jobs |-> RecoveredSubmitState(j, expired)]
        /\ cancelRequested' = [j \in Jobs |-> cancelRequested[j] \/ Suspected(j, expired)]
        /\ failureCode' = [j \in Jobs |-> RecoveredFailureCode(j, expired)]
        /\ reconciling' = {j \in Jobs : RecoveredSubmitState(j, expired) \in ReconcileStates}
  BY DEF Restart
<1> USE DEF IInv, TypeOK, Restart, processVars, signalVars, upstreamVars, Running
<1>2. TypeOK'
  <2>1. ASSUME NEW k \in Jobs
        PROVE  /\ RecoveredStatus(k, expired) \in Statuses
               /\ RecoveredSubmitState(k, expired) \in SubmitStates
               /\ RecoveredFailureCode(k, expired) \in FailureCodes
               /\ (cancelRequested[k] \/ Suspected(k, expired)) \in BOOLEAN
    BY DEF RecoveredStatus, RecoveredSubmitState, RecoveredFailureCode, Suspected, Statuses,
           Terminal, SubmitStates, FailureCodes
  <2> QED
    BY <1>1, <2>1
<1>3. ASSUME NEW k \in Jobs PROVE JobInv(k)'
  <2>1. mode = "down" /\ mode' = "up" /\ worker'[k] = "idle"
    BY DEF JobInv, Ownership
  <2>2. status'[k] = RecoveredStatus(k,
  expired) /\ submitState'[k] = RecoveredSubmitState(k, expired)
    BY <1>1
  <2> USE DEF JobInv, RecoveredStatus, RecoveredSubmitState, Suspected,
  RecoverableSubmitStates
  <2>3. Ownership(k)'
    BY <2>1 DEF Ownership
  <2>4. Progress(k)'
    BY <2>1, <2>2 DEF Progress
  <2>5. OnRecord(k)'
    BY <2>2 DEF OnRecord
  <2>6. NaiSubmitState(k)'
    BY <1>1, <2>1, <2>2 DEF NaiSubmitState, OnRecord, Progress, ReconcileStates
  <2> QED
    BY <2>3, <2>4, <2>5, <2>6
<1>4. ASSUME NEW k \in Jobs, Settled(k) PROVE Settled(k)'
  BY <1>1, <1>4 DEF Settled, RecoveredStatus, RecoveredSubmitState, Suspected
<1> QED
  BY <1>2, <1>3, <1>4 DEF ProcessMoves

----------------------------------------------------------------------------
(* The invariant, and the properties that follow from it.                  *)

\* The invariant holds of an empty queue.
LEMMA InitKeeps ==
  ASSUME Init
  PROVE  IInv
BY DEF Init, IInv, TypeOK, JobInv, Ownership, Progress, OnRecord, NaiSubmitState,
       RetrySettled, Statuses, SubmitStates, FailureCodes, Stages, UpstreamStates, Running

\* Every step keeps the invariant.
LEMMA NextKeeps ==
  ASSUME IInv, [Next]_vars
  PROVE  IInv'
<1>1. ASSUME NEW j \in Jobs, WorkerStep(j) PROVE IInv'
  BY <1>1, WorkerAwaits, WorkerEnds, OneJobMoves
<1>2. ASSUME NEW j \in Jobs, JobStep(j) PROVE IInv'
  <2>1. CASE \E o \in Jobs, force \in BOOLEAN : RetryJob(o, j, force)
    BY <2>1, RetryKeeps
  <2>2. CASE TornCrash(j)
    BY <2>2, TornCrashMoves, ProcessMovesKeep
  <2> QED
    BY <1>1, <1>2, <2>1, <2>2, ServiceMoves, CancellationMoves, OneJobMoves DEF JobStep
<1>3. CASE StartProbe \/ EndProbe \/ StartReconcile \/ Stop \/ Crash \/ Restart
  BY <1>3, ProbeMoves, StartReconcileMoves, StopMoves, CrashMoves, RestartMoves, ProcessMovesKeep
<1>4. CASE UNCHANGED vars
  BY <1>4 DEF vars, rowVars, processVars, signalVars, upstreamVars, IInv, TypeOK, JobInv, Ownership,
              Progress, OnRecord, NaiSubmitState, RetrySettled
<1> QED
  BY <1>2, <1>3, <1>4 DEF Next

\* The invariant holds in every reachable state.
THEOREM Invariance == Spec => []IInv
<1>1. Init => IInv
  BY InitKeeps
<1>2. IInv /\ [Next]_vars => IInv'
  BY NextKeeps
<1> QED
  BY <1>1, <1>2, PTL DEF Spec

\* The rows, the process and the upstream service stay well formed.
THEOREM TypeCorrect == Spec => []TypeOK
<1>1. IInv => TypeOK
  BY DEF IInv
<1> QED
  BY <1>1, Invariance, PTL

\* A live worker's job is never ended by anybody else.
THEOREM WorkerOwnsItsJob == Spec => []WorkerHasActiveJob
<1>1. IInv => WorkerHasActiveJob
  BY DEF IInv, JobInv, Ownership, WorkerHasActiveJob
<1> QED
  BY <1>1, Invariance, PTL

\* However often the process dies, a row is submitted once at most.
THEOREM AtMostOnce == Spec => []SubmittedAtMostOnce
<1>1. IInv => SubmittedAtMostOnce
  BY DEF IInv, JobInv, Progress, SubmittedAtMostOnce
<1> QED
  BY <1>1, Invariance, PTL

\* Upstream work that is open is recorded in its row.
THEOREM UpstreamWorkIsOnRecord == Spec => []EvidenceBeforeUpstream
<1>1. IInv => EvidenceBeforeUpstream
  BY DEF IInv, JobInv, OnRecord, EvidenceBeforeUpstream
<1> QED
  BY <1>1, Invariance, PTL

\* Nobody waits for a job that has ended.
THEOREM WaitersAreWoken == Spec => []NoWaiterOnTerminalJob
<1>1. IInv => NoWaiterOnTerminalJob
  BY DEF IInv, TypeOK, JobInv, Ownership, NoWaiterOnTerminalJob
<1> QED
  BY <1>1, Invariance, PTL

\* An unforced retry never pays twice for a NovelAI job.
THEOREM NoDoubleCharge == Spec => []NoUnforcedDoubleCharge
<1>1. ASSUME IInv, NEW j \in Jobs, retryOf[j] # 0, ServiceOf[j] = "novelai"
      PROVE  upstream[retryOf[j]] = "none" \/ submitState[retryOf[j]] = "accepted"
  BY <1>1 DEF IInv, RetrySettled
<1>2. IInv => NoUnforcedDoubleCharge
  BY <1>1 DEF NoUnforcedDoubleCharge
<1> QED
  BY <1>2, Invariance, PTL

----------------------------------------------------------------------------
(* The generation queue implements JobLifecycle, and the action properties *)
(* that rest on it.                                                        *)

\* A job that a step leaves alone stutters in the lifecycle.
LEMMA SameStays ==
  ASSUME NEW k \in Jobs, Same(k)
  PROVE  Lifecycle!JobStep(k)
BY DEF Same, Lifecycle!JobStep, Lifecycle!Stays

\* The worker keeps its job active and hands it over once.
LEMMA WorkerAwaitsStep ==
  ASSUME IInv, NEW j \in Jobs, WorkerStep(j), ~Complete(j), ~Finish(j)
  PROVE  Lifecycle!JobStep(j)
<1> USE DEF IInv, TypeOK, JobInv, Ownership, Progress, Goto, MarkSubmit, UnchangedByWorker,
            upstreamVars, Running, PhaseOf,
            Lifecycle!JobStep, Lifecycle!Stays, Lifecycle!Run
<1>1. CASE Send(j) \/ Spawn(j)
  BY <1>1 DEF Send, Spawn
<1>2. CASE \/ PrepareFails(j) \/ Submit(j) \/ NotSent(j) \/ Refused(j) \/ AnswerLost(j)
           \/ Answered(j) \/ CompensateConfirms(j) \/ CompensateGivesUp(j)
  BY <1>2 DEF PrepareFails, Submit, NotSent, Refused, AnswerLost, Answered,
              CompensateConfirms, CompensateGivesUp
<1>3. CASE \/ Collect(j) \/ SeesCancelComfy(j) \/ SeesCancel(j) \/ CodexKilled(j)
           \/ ExecutionFails(j) \/ Abandon(j) \/ SavingFails(j)
  BY <1>3 DEF Collect, SeesCancelComfy, SeesCancel, CodexKilled, ExecutionFails, Abandon,
              SavingFails
<1> QED
  BY <1>1, <1>2, <1>3 DEF WorkerStep

\* Every transition to a terminal status is an end in the lifecycle.
LEMMA TransitionEnds ==
  ASSUME IInv, NEW j \in Jobs, NEW next \in Terminal, NEW submit, NEW code,
         TransitionJob(j, next, submit, code), UNCHANGED posts,
         next = "completed" => worker[j] = "saving"
  PROVE  Lifecycle!JobStep(j)
BY DEF IInv, TypeOK, JobInv, Progress, TransitionJob, AllowedTransitions, Running, Terminal,
       PhaseOf, Lifecycle!JobStep, Lifecycle!End, Lifecycle!Ended

\* The worker ends its job, or finds that its row has ended.
LEMMA WorkerEndsStep ==
  ASSUME IInv, NEW j \in Jobs, Complete(j) \/ Finish(j)
  PROVE  Lifecycle!JobStep(j)
<1>1. CASE Complete(j)
  <2>1. TransitionJob(j, "completed", submitState[j], "none") /\ worker[j] = "saving"
    BY <1>1 DEF Complete
  <2> QED
    BY <1>1, <2>1, TransitionEnds DEF Complete, Release, upstreamVars, Terminal
<1>2. CASE Finish(j)
  <2>1. CASE status[j] \in Active
    <3>1. PICK next \in {"cancelled", "failed"}, code \in FailureCodes :
            TransitionJob(j, next, submitState[j], code)
      BY <1>2, <2>1 DEF Finish, FailureCodes
    <3> QED
      BY <1>2, <3>1, TransitionEnds DEF Finish, Release, upstreamVars, Terminal
  <2>2. CASE status[j] \notin Active
    BY <1>2, <2>2 DEF Finish, Release, upstreamVars, Lifecycle!JobStep, Lifecycle!Stays
  <2> QED
    BY <2>1, <2>2
<1> QED
  BY <1>1, <1>2

\* The dispatcher and the callers.
LEMMA ServiceStep ==
  ASSUME IInv, NEW j \in Jobs,
         \/ Enqueue(j) \/ ClaimNextJob(j) \/ FailUnroutable(j)
         \/ WaitForTerminalJob(j) \/ WaiterTimesOut(j) \/ UpstreamStep(j)
  PROVE  Lifecycle!JobStep(j)
<1> USE DEF IInv, TypeOK, rowVars, upstreamVars, PhaseOf, Running, Lifecycle!JobStep
<1>1. CASE Enqueue(j)
  BY <1>1 DEF Enqueue, NextId, Lifecycle!Enter
<1>2. CASE ClaimNextJob(j)
  BY <1>2 DEF ClaimNextJob, Claimable, Lifecycle!Begin
<1>3. CASE FailUnroutable(j)
  BY <1>3, TransitionEnds DEF FailUnroutable, Terminal
<1>4. CASE WaitForTerminalJob(j) \/ WaiterTimesOut(j) \/ UpstreamStep(j)
  BY <1>4 DEF WaitForTerminalJob, WaiterTimesOut, UpstreamStep, Lifecycle!Stays
<1> QED
  BY <1>1, <1>2, <1>3, <1>4

\* The route asks, the sweeper ends.
LEMMA CancellationStep ==
  ASSUME IInv, NEW j \in Jobs,
         \/ RequestCancellation(j) \/ CancellationAnswered(j)
         \/ FinalizeAbandoned(j) \/ ReconcileOneCandidate(j)
  PROVE  Lifecycle!JobStep(j)
<1>1. CASE RequestCancellation(j)
  <2>1. CASE status[j] = "queued"
    BY <1>1, <2>1, TransitionEnds DEF RequestCancellation, upstreamVars, Terminal
  <2>2. CASE status[j] # "queued"
    BY <1>1, <2>2 DEF RequestCancellation, upstreamVars, IInv, TypeOK, Active, Running,
                      PhaseOf, Lifecycle!JobStep, Lifecycle!Ask
  <2> QED
    BY <2>1, <2>2
<1>2. CASE FinalizeAbandoned(j)
  BY <1>2, TransitionEnds DEF FinalizeAbandoned, upstreamVars, Terminal
<1>3. CASE CancellationAnswered(j) \/ ReconcileOneCandidate(j)
  BY <1>3 DEF CancellationAnswered, ReconcileOneCandidate, Lifecycle!JobStep, Lifecycle!Stays
<1> QED
  BY <1>1, <1>2, <1>3

\* A retry enters a new job.
LEMMA RetryStep ==
  ASSUME IInv, NEW o \in Jobs, NEW j \in Jobs, NEW force \in BOOLEAN, RetryJob(o, j, force),
         NEW k \in Jobs
  PROVE  Lifecycle!JobStep(k)
BY DEF IInv, TypeOK, RetryJob, NextId, upstreamVars, PhaseOf, Lifecycle!JobStep,
       Lifecycle!Enter, Lifecycle!Stays

\* Stopping, crashing and starting a pass are invisible.
LEMMA ProcessStep ==
  ASSUME IInv, NEW k \in Jobs, StartProbe \/ EndProbe \/ StartReconcile \/ Stop \/ Crash
  PROVE  Lifecycle!JobStep(k)
BY DEF StartProbe, EndProbe, StartReconcile, Stop, Crash, ProcessEnds, rowVars, upstreamVars, Lifecycle!JobStep,
       Lifecycle!Stays

\* The flag of a torn cancellation is the request, without its transition.
LEMMA TornCrashStep ==
  ASSUME IInv, NEW j \in Jobs, TornCrash(j), NEW k \in Jobs
  PROVE  Lifecycle!JobStep(k)
<1>1. CASE k = j
  BY <1>1 DEF TornCrash, ProcessEnds, MarkSubmit, IInv, TypeOK, upstreamVars, PhaseOf, Running,
              Lifecycle!JobStep, Lifecycle!Stays, Lifecycle!Ask
<1>2. CASE k # j
  BY <1>2 DEF TornCrash, ProcessEnds, MarkSubmit, IInv, TypeOK, upstreamVars,
              Lifecycle!JobStep, Lifecycle!Stays
<1> QED
  BY <1>1, <1>2

\* Recovery ends a job, marks it as cancelled, or leaves it.
LEMMA RestartStep ==
  ASSUME IInv, Restart, NEW k \in Jobs
  PROVE  Lifecycle!JobStep(k)
<1>1. PICK expired \in SUBSET {j \in Jobs : status[j] \in Running /\ submitState[j] # "none"} :
        /\ status'[k] = RecoveredStatus(k, expired)
        /\ cancelRequested'[k] = (cancelRequested[k] \/ Suspected(k, expired))
  BY DEF Restart
<1>2. posts'[k] = posts[k]
  BY DEF Restart, upstreamVars
<1> QED
  BY <1>1, <1>2 DEF IInv, TypeOK, RecoveredStatus, Suspected, RecoverableSubmitStates, PhaseOf,
     Running, Lifecycle!JobStep, Lifecycle!Stays, Lifecycle!Ask, Lifecycle!End, Lifecycle!Ended

\* Every step of the queue is a lifecycle step of each job.
LEMMA EveryJobSteps ==
  ASSUME IInv, [Next]_vars, NEW k \in Jobs
  PROVE  Lifecycle!JobStep(k)
<1>1. ASSUME NEW j \in Jobs, JobStep(j) PROVE Lifecycle!JobStep(k)
  <2>1. CASE \E o \in Jobs, force \in BOOLEAN : RetryJob(o, j, force)
    BY <2>1, RetryStep
  <2>2. CASE TornCrash(j)
    BY <2>2, TornCrashStep
  <2>3. CASE ~TornCrash(j) /\ ~\E o \in Jobs, force \in BOOLEAN : RetryJob(o, j, force)
    <3>1. Moves(j)
      BY <1>1, <2>3, WorkerAwaits, WorkerEnds, ServiceMoves, CancellationMoves DEF JobStep
    <3>2. Lifecycle!JobStep(j)
      BY <1>1, <2>3, WorkerAwaitsStep, WorkerEndsStep, ServiceStep, CancellationStep DEF JobStep
    <3>3. k # j => Lifecycle!JobStep(k)
      BY <3>1, SameStays DEF Moves
    <3> QED
      BY <3>2, <3>3
  <2> QED
    BY <2>1, <2>2, <2>3
<1>2. CASE StartProbe \/ EndProbe \/ StartReconcile \/ Stop \/ Crash \/ Restart
  BY <1>2, ProcessStep, RestartStep
<1>3. CASE UNCHANGED vars
  BY <1>3 DEF vars, rowVars, upstreamVars, Lifecycle!JobStep, Lifecycle!Stays
<1> QED
  BY <1>1, <1>2, <1>3 DEF Next

\* The lifecycle's state stays in its bounds.
LEMMA LifecycleTypeOK ==
  ASSUME IInv'
  PROVE  /\ [j \in Jobs |-> PhaseOf(status'[j])] \in [Jobs -> Lifecycle!Phases]
         /\ cancelRequested' \in [Jobs -> BOOLEAN]
         /\ posts' \in [Jobs -> 0..1]
<1>1. ASSUME NEW j \in Jobs PROVE PhaseOf(status'[j]) \in Lifecycle!Phases
  BY DEF IInv, TypeOK, PhaseOf, Statuses, Active, Running, Terminal, Lifecycle!Phases,
         Lifecycle!Ended
<1>2. ASSUME NEW j \in Jobs PROVE posts'[j] \in 0..1
  BY DEF IInv, JobInv, Progress
<1> QED
  BY <1>1, <1>2 DEF IInv, TypeOK

\* The queue implements the lifecycle: every job is taken up, handed over and
\* ended as JobLifecycle says.
THEOREM Refinement == Spec => ImplementsLifecycle
<1>1. Init => Lifecycle!Init
  BY DEF Init, PhaseOf, Lifecycle!Init
<1>2. IInv /\ IInv' /\ [Next]_vars => [Lifecycle!Next]_(Lifecycle!vars)
  <2> SUFFICES ASSUME IInv, IInv', [Next]_vars
               PROVE  Lifecycle!Next
    OBVIOUS
  <2>1. /\ [j \in Jobs |-> PhaseOf(status'[j])] \in [Jobs -> Lifecycle!Phases]
        /\ cancelRequested' \in [Jobs -> BOOLEAN]
        /\ posts' \in [Jobs -> 0..1]
    BY LifecycleTypeOK
  <2> QED
    BY <2>1, EveryJobSteps DEF Lifecycle!Next
<1> QED
  BY <1>1, <1>2, Invariance, PTL DEF Spec, ImplementsLifecycle, Lifecycle!Spec

\* No step revises a terminal status.
THEOREM TerminalStatusIsFinal == Spec => TerminalIsFinal
<1>1. ASSUME IInv, IInv', [Next]_vars, NEW j \in Jobs, status[j] \in Terminal
      PROVE  status'[j] = status[j]
  <2>1. Lifecycle!JobStep(j)
    BY <1>1, EveryJobSteps
  <2>2. PhaseOf(status'[j]) = PhaseOf(status[j])
    BY <1>1, <2>1 DEF PhaseOf, Terminal, Running, Lifecycle!JobStep, Lifecycle!Stays,
                      Lifecycle!Enter, Lifecycle!Ask, Lifecycle!Begin, Lifecycle!Run, Lifecycle!End
  <2> QED
    BY <1>1, <2>2 DEF IInv, TypeOK, PhaseOf, Statuses, Active, Running, Terminal
<1>2. IInv /\ IInv' /\ [Next]_vars
        => [\A j \in Jobs : status[j] \in Terminal => status'[j] = status[j]]_vars
  BY <1>1
<1> QED
  BY <1>2, Invariance, PTL DEF Spec, TerminalIsFinal

\* Upstream work begins only when a request is sent or a process spawned.
LEMMA OnlySubmissionsBegin ==
  ASSUME TypeOK, NEW j \in Jobs, JobStep(j), ~Send(j), ~Spawn(j),
         NEW k \in Jobs, upstream[k] = "none"
  PROVE  upstream'[k] = "none"
<1> USE DEF TypeOK, UnchangedByWorker, upstreamVars
<1>1. CASE WorkerStep(j)
  <2>1. CASE \/ PrepareFails(j) \/ Submit(j) \/ NotSent(j) \/ Refused(j) \/ AnswerLost(j)
             \/ Answered(j) \/ CompensateConfirms(j) \/ CompensateGivesUp(j)
    BY <2>1 DEF PrepareFails, Submit, NotSent, Refused, AnswerLost, Answered,
                CompensateConfirms, CompensateGivesUp
  <2>2. CASE \/ Collect(j) \/ SeesCancelComfy(j) \/ SeesCancel(j) \/ CodexKilled(j)
             \/ ExecutionFails(j) \/ Abandon(j) \/ SavingFails(j) \/ Complete(j) \/ Finish(j)
    BY <2>2 DEF Collect, SeesCancelComfy, SeesCancel, CodexKilled, ExecutionFails, Abandon,
                SavingFails, Complete, Finish, Release
  <2> QED
    BY <1>1, <2>1, <2>2 DEF WorkerStep
<1>2. CASE \/ Enqueue(j) \/ ClaimNextJob(j) \/ FailUnroutable(j) \/ WaitForTerminalJob(j)
           \/ WaiterTimesOut(j) \/ TornCrash(j) \/ UpstreamStep(j)
           \/ \E o \in Jobs, force \in BOOLEAN : RetryJob(o, j, force)
  BY <1>2 DEF Enqueue, ClaimNextJob, FailUnroutable, WaitForTerminalJob, WaiterTimesOut,
              TornCrash, ProcessEnds, UpstreamStep, RetryJob
<1>3. CASE \/ RequestCancellation(j) \/ CancellationAnswered(j)
           \/ FinalizeAbandoned(j) \/ ReconcileOneCandidate(j)
  BY <1>3 DEF RequestCancellation, CancellationAnswered, FinalizeAbandoned,
              ReconcileOneCandidate
<1> QED
  BY <1>1, <1>2, <1>3 DEF JobStep

\* Nothing is sent, nor left alive, for a job that has been asked to stop: only Send and
\* Spawn begin upstream work, and the signal of an asked worker is aborted.
THEOREM NothingStartsAfterCancel == Spec => NoSubmitAfterCancel
<1>1. ASSUME IInv, [Next]_vars, NEW k \in Jobs,
             upstream[k] = "none", upstream'[k] \in {"sending", "alive"}
      PROVE  ~cancelRequested[k]
  <2>1. ASSUME NEW j \in Jobs, JobStep(j) PROVE ~cancelRequested[k]
    <3>1. CASE Send(j) \/ Spawn(j)
      <4>1. worker[j] # "idle" /\ (cancelRequested[j] => j \in aborted)
        <5>1. worker[j] = "submitting"
          BY <3>1 DEF Send, Spawn
        <5>2. Ownership(j)
          BY <1>1 DEF IInv, JobInv
        <5> QED
          BY <5>1, <5>2 DEF Ownership
      <4>2. k = j /\ j \notin aborted
        BY <1>1, <3>1 DEF Send, Spawn, IInv, TypeOK
      <4> QED
        BY <4>1, <4>2
    <3>2. CASE ~(Send(j) \/ Spawn(j))
      BY <1>1, <2>1, <3>2, OnlySubmissionsBegin DEF IInv
    <3> QED
      BY <3>1, <3>2
  <2> QED
    BY <1>1, <2>1 DEF Next, StartProbe, EndProbe, StartReconcile, Stop, Crash, Restart, ProcessEnds, vars, upstreamVars
<1>2. IInv /\ [Next]_vars
        => [\A j \in Jobs : upstream[j] = "none" /\ upstream'[j] \in {"sending", "alive"}
                             => ~cancelRequested[j]]_vars
  BY <1>1
<1> QED
  BY <1>2, Invariance, PTL DEF Spec, NoSubmitAfterCancel
============================================================================
