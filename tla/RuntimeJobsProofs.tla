------------------------- MODULE RuntimeJobsProofs -------------------------
(***************************************************************************)
(* Proofs about the runtime jobs, for any jobs, singleton keys, kinds and  *)
(* bounds.                                                                 *)
(***************************************************************************)
EXTENDS RuntimeJobs, TLAPS

\* A step on one job keeps the invariant.
LEMMA JobSteps ==
  ASSUME IInv, NEW j \in Jobs,
                  \/ StartInline(j) \/ StartChild(j) \/ StartChildThrows(j) \/ TornStart(j)
         \/ SpawnError(j) \/ ExitSeen(j) \/ Cancel(j) \/ Prune(j) \/ Claim(j)
         \/ Heartbeat(j) \/ HeartbeatLapses(j) \/ HandlerReturns(j) \/ HandlerThrows(j) \/ ChildDies(j)
  PROVE  IInv'
<1> USE DEF IInv, TypeOK, UniqueLive, WorkerHasRow, Ownership, AbortOfLiveRow,
            QueuedHasListener, NoGhostRow, CancelledOnlyOnRequest,
            Statuses, Live, Final, Inline, Children, rowVars, serverVars, childVars
<1>1. CASE StartInline(j)
  BY <1>1 DEF StartInline, KeyIsFree
<1>2. CASE StartChild(j)
  BY <1>2 DEF StartChild, KeyIsFree
<1>3. CASE StartChildThrows(j)
  BY <1>3 DEF StartChildThrows, KeyIsFree
<1>4. CASE TornStart(j)
  BY <1>4 DEF TornStart, KeyIsFree
<1>5. CASE SpawnError(j)
  BY <1>5 DEF SpawnError, Close
<1>6. CASE ExitSeen(j)
  BY <1>6 DEF ExitSeen, Close
<1>7. CASE Cancel(j)
  BY <1>7 DEF Cancel
<1>8. CASE Prune(j)
  BY <1>8 DEF Prune
<1>9. CASE Claim(j)
  BY <1>9 DEF Claim
<1>10. CASE Heartbeat(j)
  BY <1>10 DEF Heartbeat
<1>11. CASE HeartbeatLapses(j)
  BY <1>11 DEF HeartbeatLapses
<1>12. CASE HandlerReturns(j)
  BY <1>12 DEF HandlerReturns, Close, EndExecution
<1>13. CASE HandlerThrows(j)
  BY <1>13 DEF HandlerThrows, Close, EndExecution, ThrowOutcomes
<1>14. CASE ChildDies(j)
  BY <1>14 DEF ChildDies
<1> QED
  BY <1>1, <1>2, <1>3, <1>4, <1>5, <1>6, <1>7, <1>8, <1>9, <1>10, <1>11, <1>12, <1>13, <1>14

\* So does a step of the server on all jobs.
LEMMA ServerSteps ==
  ASSUME IInv, Sweep \/ Shutdown \/ Exit \/ Crash \/ Boot
  PROVE  IInv'
<1> USE BoundsAssumption
    DEF IInv, TypeOK, UniqueLive, WorkerHasRow, Ownership, AbortOfLiveRow,
        QueuedHasListener, NoGhostRow, CancelledOnlyOnRequest,
        Statuses, Live, Final, Inline, Children, rowVars, serverVars, childVars
<1>1. CASE Sweep
  BY <1>1 DEF Sweep
<1>2. CASE Shutdown
  BY <1>2 DEF Shutdown
<1>3. CASE Exit \/ Crash
  BY <1>3 DEF Exit, Crash, ServerEnds
<1>4. CASE Boot
  <2>1. \A j \in Jobs :
          /\ status'[j] = RecoveredStatus(j)
          /\ status'[j] \in {status[j], "cancelled", "failed"}
          /\ status'[j] # "queued"
          /\ status'[j] = "cancelled" => status[j] = "cancelled" \/ cancelRequested[j]
          /\ status[j] = "running" => status'[j] = "running" \/ status'[j] = "failed"
          /\ status[j] = "absent" => status'[j] = "absent"
    BY <1>4 DEF Boot, RecoveredStatus
  <2>2. \A j \in Jobs : status'[j] = "running" => j \in Children
    BY <1>4, <2>1 DEF RecoveredStatus, LiveSubprocess
  <2>3. \A j \in Jobs : status[j] = "running" /\ status'[j] # "running" => j \in Inline \union stale
    BY <1>4, <2>1, ExecutionAssumption DEF RecoveredStatus, LiveSubprocess
  <2>4. TypeOK'
    BY <1>4, <2>1 DEF Boot
  <2>5. UniqueLive'
    BY <1>4, <2>1 DEF Boot
  <2>6. WorkerHasRow'
    BY <1>4, <2>1, <2>3 DEF Boot
  <2>7. Ownership' /\ AbortOfLiveRow' /\ QueuedHasListener'
    BY <1>4, <2>1 DEF Boot
  <2>8. NoGhostRow' /\ CancelledOnlyOnRequest'
    BY <1>4, <2>1, <2>2 DEF Boot
  <2> QED
    BY <2>4, <2>5, <2>6, <2>7, <2>8
<1> QED
  BY <1>1, <1>2, <1>3, <1>4

\* The invariant holds at first and is kept by every step.
THEOREM Invariance == Spec => []IInv
<1>1. Init => IInv
  <2> SUFFICES ASSUME Init PROVE IInv
    OBVIOUS
  <2>1. TypeOK
    BY DEF Init, TypeOK, Statuses
  <2>2. UniqueLive /\ WorkerHasRow
    BY DEF Init, UniqueLive, WorkerHasRow, Live
  <2>3. Ownership /\ AbortOfLiveRow /\ QueuedHasListener
    BY DEF Init, Ownership, AbortOfLiveRow, QueuedHasListener, Inline
  <2>4. NoGhostRow /\ CancelledOnlyOnRequest
    BY DEF Init, NoGhostRow, CancelledOnlyOnRequest
  <2> QED
    BY <2>1, <2>2, <2>3, <2>4 DEF IInv
<1>2. IInv /\ [Next]_vars => IInv'
  <2> SUFFICES ASSUME IInv, [Next]_vars PROVE IInv'
    OBVIOUS
  <2>1. CASE Next
    BY <2>1, JobSteps, ServerSteps DEF Next
  <2>2. CASE UNCHANGED vars
    BY <2>2 DEF IInv, TypeOK, UniqueLive, WorkerHasRow, Ownership, AbortOfLiveRow,
                QueuedHasListener, NoGhostRow, CancelledOnlyOnRequest,
                vars, rowVars, serverVars, childVars
  <2> QED
    BY <2>1, <2>2
<1> QED
  BY <1>1, <1>2, PTL DEF Spec

\* Every variable keeps its type.
THEOREM TypeCorrect == Spec => []TypeOK
<1>1. IInv => TypeOK
  BY DEF IInv
<1> QED
  BY <1>1, Invariance, PTL

\* Two handlers of one singleton key overlap only when the row of one of them
\* was closed under its worker (start, sweep, recovery, exit events, shutdown).
THEOREM SingletonHandlers == Spec => []OneHandlerPerKey
<1>1. IInv => OneHandlerPerKey
  BY DEF IInv, OneHandlerPerKey, WorkerHasRow, UniqueLive, Live
<1> QED
  BY <1>1, Invariance, PTL

\* While a server runs, somebody will close every live row.
THEOREM NoRowIsForgotten == Spec => []NoGhostRow
<1>1. IInv => NoGhostRow
  BY DEF IInv
<1> QED
  BY <1>1, Invariance, PTL

\* A shutdown is never recorded as a cancellation by the user.
THEOREM CancelledMeansRequested == Spec => []CancelledOnlyOnRequest
<1>1. IInv => CancelledOnlyOnRequest
  BY DEF IInv
<1> QED
  BY <1>1, Invariance, PTL

\* A closed row is never opened or closed differently, by whichever process.
THEOREM ClosedRowsStay == Spec => ClosedIsFinal
<1> DEFINE Stays == \A j \in Jobs : status[j] \in Final => status'[j] \in {status[j], "deleted"}
<1>1. IInv /\ [Next]_vars => [Stays]_vars
  <2> SUFFICES ASSUME TypeOK, Next PROVE Stays
    BY DEF IInv
  <2> USE DEF TypeOK, Live, Final, rowVars, serverVars, childVars
  <2>1. ASSUME NEW j \in Jobs,
               StartInline(j) \/ StartChild(j) \/ StartChildThrows(j) \/ TornStart(j)
        PROVE  Stays
    BY <2>1 DEF StartInline, StartChild, StartChildThrows, TornStart
  <2>2. ASSUME NEW j \in Jobs, SpawnError(j) \/ ExitSeen(j) \/ Cancel(j) \/ Prune(j)
        PROVE  Stays
    BY <2>2 DEF SpawnError, ExitSeen, Cancel, Prune, Close
  <2>3. ASSUME NEW j \in Jobs, Claim(j) \/ Heartbeat(j) \/ HeartbeatLapses(j) \/ ChildDies(j)
        PROVE  Stays
    BY <2>3 DEF Claim, Heartbeat, HeartbeatLapses, ChildDies
  <2>4. ASSUME NEW j \in Jobs, HandlerReturns(j) \/ HandlerThrows(j)
        PROVE  Stays
    BY <2>4 DEF HandlerReturns, HandlerThrows, Close
  <2>5. ASSUME Sweep \/ Shutdown \/ Exit \/ Crash \/ Boot
        PROVE  Stays
    BY <2>5 DEF Sweep, Shutdown, Exit, Crash, ServerEnds, Boot, RecoveredStatus
  <2> QED
    BY <2>1, <2>2, <2>3, <2>4, <2>5 DEF Next
<1> QED
  BY <1>1, Invariance, PTL DEF Spec, ClosedIsFinal

----------------------------------------------------------------------------
(* The runtime jobs implement SingletonJobs.                               *)

\* The row, the flag and the handler of a job around a step, as moves of the abstract
\* specification.
LEMMA PromiseMoves ==
  ASSUME NEW k \in Jobs
  PROVE  /\ status'[k] = status[k] /\ cancelRequested'[k] = cancelRequested[k]
              /\ (IsBusy(k)' => IsBusy(k)) => Promise!JobStep(k)
         /\ status[k] = "absent" /\ Promise!Alone(k) /\ ~IsBusy(k) /\ ~cancelRequested'[k]
              /\ (\/ status'[k] \in {"queued", "failed"} /\ ~IsBusy(k)'
                  \/ status'[k] = "running" /\ IsBusy(k)')
              => Promise!JobStep(k)
         /\ status[k] = "queued" /\ status'[k] = "running" /\ ~IsBusy(k) /\ IsBusy(k)'
              /\ cancelRequested'[k] = cancelRequested[k] => Promise!JobStep(k)
         /\ status[k] \in Live /\ status'[k] = status[k] /\ cancelRequested'[k]
              /\ (IsBusy(k)' <=> IsBusy(k)) => Promise!JobStep(k)
         /\ status[k] = "running" /\ status'[k] = "completed" /\ IsBusy(k) /\ ~IsBusy(k)'
              /\ cancelRequested'[k] = cancelRequested[k] => Promise!JobStep(k)
         /\ status[k] \in Live /\ cancelRequested'[k] = cancelRequested[k]
              /\ (IsBusy(k)' => IsBusy(k))
              /\ (status'[k] = "failed" \/ (status'[k] = "cancelled" /\ cancelRequested[k]))
              => Promise!JobStep(k)
         /\ status[k] \in Final /\ status'[k] = "deleted" /\ (IsBusy(k)' <=> IsBusy(k))
              /\ cancelRequested'[k] = cancelRequested[k] => Promise!JobStep(k)
<1> DEFINE B == [j \in Jobs |-> IsBusy(j)]
<1>1. B[k] = IsBusy(k) /\ B'[k] = IsBusy(k)'
  OBVIOUS
<1>2. IsBusy(k) \in BOOLEAN /\ IsBusy(k)' \in BOOLEAN
  BY DEF IsBusy
<1> QED
  BY <1>1, <1>2
     DEF Live, Final, Promise!JobStep, Promise!Stays, Promise!Create, Promise!Begin,
         Promise!Ask, Promise!Complete, Promise!Leave, Promise!Close, Promise!Delete,
         Promise!Open, Promise!Closed

\* The unique index lets no second live row of a key in, when one row is created.
LEMMA KeyAlone ==
  ASSUME TypeOK, NEW j \in Jobs, KeyIsFree(j), \A k \in Jobs \ {j} : status'[k] = status[k]
  PROVE  Promise!Alone(j)
BY DEF KeyIsFree, Live, Promise!Alone, Promise!SameKey, Promise!Open

\* A job is created, or another one is.
LEMMA StartPromise ==
  ASSUME IInv, NEW j \in Jobs,
         StartInline(j) \/ StartChild(j) \/ StartChildThrows(j) \/ TornStart(j),
         NEW k \in Jobs
  PROVE  Promise!JobStep(k)
<1>1. TypeOK /\ Ownership
  BY DEF IInv
<1>2. /\ status[j] = "absent" /\ KeyIsFree(j) /\ cancelRequested' = cancelRequested
      /\ \A i \in Jobs \ {j} : status'[i] = status[i]
      /\ \A i \in Jobs \ {j} : IsBusy(i)' => IsBusy(i)
  BY <1>1 DEF StartInline, StartChild, StartChildThrows, TornStart, IsBusy, TypeOK, childVars,
              rowVars
<1>3. CASE k # j
  BY <1>2, <1>3, PromiseMoves
<1>4. CASE k = j
  <2>1. ~IsBusy(j) /\ ~cancelRequested'[j] /\ worker[j] = "none"
    BY <1>1, <1>2 DEF Ownership, IsBusy, TypeOK
  <2>2. \/ status'[j] \in {"queued", "failed"} /\ ~IsBusy(j)'
        \/ status'[j] = "running" /\ IsBusy(j)'
    BY <1>1, <2>1
       DEF StartInline, StartChild, StartChildThrows, TornStart, IsBusy, TypeOK, childVars
  <2>3. Promise!Alone(j)
    BY <1>1, <1>2, KeyAlone
  <2> QED
    BY <1>2, <1>4, <2>1, <2>2, <2>3, PromiseMoves
<1> QED
  BY <1>3, <1>4

\* The row of a job is closed, or was closed before; its handler may be over.
LEMMA ClosePromise ==
  ASSUME TypeOK, NEW j \in Jobs, NEW outcome, Close(j, outcome),
         outcome = "failed" \/ (outcome = "cancelled" /\ cancelRequested[j]),
         cancelRequested' = cancelRequested,
         \A i \in Jobs : (IsBusy(i)' => IsBusy(i)),
         NEW k \in Jobs
  PROVE  Promise!JobStep(k)
<1>1. CASE k # j \/ status[j] \notin Live
  <2>1. status'[k] = status[k]
    BY <1>1 DEF Close, TypeOK
  <2> QED
    BY <2>1, PromiseMoves
<1>2. CASE k = j /\ status[j] \in Live
  <2>1. status'[k] = outcome
    BY <1>2 DEF Close, TypeOK
  <2> QED
    BY <1>2, <2>1, PromiseMoves
<1> QED
  BY <1>1, <1>2

\* What the process that executes a job, or the one that spawned it, does.
LEMMA WorkerPromise ==
  ASSUME IInv, NEW j \in Jobs,
         \/ SpawnError(j) \/ ExitSeen(j) \/ Claim(j) \/ HandlerReturns(j) \/ HandlerThrows(j)
         \/ ChildDies(j),
         NEW k \in Jobs
  PROVE  Promise!JobStep(k)
<1>1. TypeOK /\ WorkerHasRow /\ AbortOfLiveRow
  BY DEF IInv
<1>2. CASE SpawnError(j) \/ ExitSeen(j)
  <2>1. /\ Close(j, "failed") /\ cancelRequested' = cancelRequested
        /\ \A i \in Jobs : (IsBusy(i)' => IsBusy(i))
    BY <1>1, <1>2 DEF SpawnError, ExitSeen, IsBusy, TypeOK
  <2> QED
    BY <1>1, <2>1, ClosePromise
<1>3. CASE Claim(j)
  <2>1. /\ worker[j] = "spawned" /\ cancelRequested' = cancelRequested
        /\ \A i \in Jobs \ {j} : status'[i] = status[i] /\ (IsBusy(i)' => IsBusy(i))
    BY <1>1, <1>3 DEF Claim, IsBusy, TypeOK
  <2>2. CASE k # j
    BY <2>1, <2>2, PromiseMoves
  <2>3. CASE k = j /\ status[j] = "queued"
    <3>1. status'[k] = "running" /\ ~IsBusy(k) /\ IsBusy(k)'
      BY <1>1, <1>3, <2>1, <2>3 DEF Claim, IsBusy, TypeOK
    <3> QED
      BY <2>1, <2>3, <3>1, PromiseMoves
  <2>4. CASE k = j /\ status[j] # "queued"
    <3>1. status'[k] = status[k] /\ (IsBusy(k)' => IsBusy(k))
      BY <1>1, <1>3, <2>4 DEF Claim, IsBusy, TypeOK
    <3> QED
      BY <2>1, <3>1, PromiseMoves
  <2> QED
    BY <2>2, <2>3, <2>4
<1>4. CASE HandlerReturns(j)
  <2>1. /\ worker[j] = "running" /\ Close(j, "completed") /\ cancelRequested' = cancelRequested
        /\ worker' = [worker EXCEPT ![j] = "none"]
    BY <1>4 DEF HandlerReturns, EndExecution
  <2>2. CASE k # j \/ status[j] \notin Live
    <3>1. status'[k] = status[k] /\ (IsBusy(k)' => IsBusy(k))
      BY <1>1, <2>1, <2>2 DEF Close, IsBusy, TypeOK
    <3> QED
      BY <2>1, <3>1, PromiseMoves
  <2>3. CASE k = j /\ status[j] \in Live
    <3>1. status[j] = "running"
      BY <1>1, <2>1, <2>3 DEF Live, IInv, Ownership
    <3>2. status'[k] = "completed" /\ IsBusy(k) /\ ~IsBusy(k)'
      BY <1>1, <2>1, <2>3 DEF Close, IsBusy, TypeOK
    <3> QED
      BY <2>1, <2>3, <3>1, <3>2, PromiseMoves
  <2> QED
    BY <2>2, <2>3
<1>5. CASE HandlerThrows(j)
  <2>1. PICK outcome \in ThrowOutcomes(j) : Close(j, outcome)
    BY <1>5 DEF HandlerThrows
  <2>2. /\ cancelRequested' = cancelRequested
        /\ \A i \in Jobs : (IsBusy(i)' => IsBusy(i))
    BY <1>1, <1>5 DEF HandlerThrows, EndExecution, IsBusy, TypeOK
  <2>3. CASE status[j] \in Live
    <3>1. outcome = "failed" \/ (outcome = "cancelled" /\ cancelRequested[j])
      BY <1>1, <2>1, <2>3 DEF ThrowOutcomes, AbortOfLiveRow
    <3> QED
      BY <1>1, <2>1, <2>2, <3>1, ClosePromise
  <2>4. CASE status[j] \notin Live
    <3>1. status'[k] = status[k]
      BY <1>1, <2>1, <2>4 DEF Close, TypeOK
    <3> QED
      BY <2>2, <3>1, PromiseMoves
  <2> QED
    BY <2>3, <2>4
<1>6. CASE ChildDies(j)
  <2>1. /\ status' = status /\ cancelRequested' = cancelRequested
        /\ IsBusy(k)' => IsBusy(k)
    BY <1>1, <1>6 DEF ChildDies, IsBusy, TypeOK, rowVars
  <2> QED
    BY <2>1, PromiseMoves
<1> QED
  BY <1>2, <1>3, <1>4, <1>5, <1>6

\* Requests, heartbeats and the steps of the server.
LEMMA ServerPromise ==
  ASSUME IInv, NEW j,
         \/ j \in Jobs /\ (Cancel(j) \/ Prune(j) \/ Heartbeat(j) \/ HeartbeatLapses(j))
         \/ Sweep \/ Shutdown \/ Exit \/ Crash \/ Boot,
         NEW k \in Jobs
  PROVE  Promise!JobStep(k)
<1>1. TypeOK
  BY DEF IInv
<1>2. CASE j \in Jobs /\ Cancel(j)
  <2>1. /\ status[j] \in Live /\ status' = status /\ worker' = worker
        /\ cancelRequested' = [cancelRequested EXCEPT ![j] = TRUE]
    BY <1>2 DEF Cancel, childVars
  <2>2. (IsBusy(k)' <=> IsBusy(k)) /\ (k = j => cancelRequested'[k])
        /\ (k # j => cancelRequested'[k] = cancelRequested[k])
    BY <1>1, <1>2, <2>1 DEF IsBusy, TypeOK
  <2> QED
    BY <2>1, <2>2, PromiseMoves
<1>3. CASE j \in Jobs /\ Prune(j)
  <2>1. /\ status[j] \in Final /\ status' = [status EXCEPT ![j] = "deleted"]
        /\ cancelRequested' = cancelRequested /\ worker' = worker
    BY <1>3 DEF Prune, childVars
  <2>2. (IsBusy(k)' <=> IsBusy(k)) /\ (k = j => status'[k] = "deleted")
        /\ (k # j => status'[k] = status[k])
    BY <1>1, <1>3, <2>1 DEF IsBusy, TypeOK
  <2> QED
    BY <2>1, <2>2, PromiseMoves
<1>4. CASE j \in Jobs /\ (Heartbeat(j) \/ HeartbeatLapses(j))
  <2>1. status' = status /\ cancelRequested' = cancelRequested /\ (IsBusy(k)' <=> IsBusy(k))
    BY <1>4 DEF Heartbeat, HeartbeatLapses, IsBusy, childVars
  <2> QED
    BY <2>1, PromiseMoves
<1>5. CASE Sweep \/ Shutdown \/ Boot
  <2>1. /\ cancelRequested' = cancelRequested /\ (IsBusy(k)' <=> IsBusy(k))
        /\ \/ status'[k] = status[k]
           \/ status[k] \in Live /\ status'[k] = "failed"
           \/ status[k] \in Live /\ status'[k] = "cancelled" /\ cancelRequested[k]
    BY <1>5 DEF Sweep, Shutdown, Boot, RecoveredStatus, IsBusy, childVars, Live
  <2> QED
    BY <2>1, PromiseMoves
<1>6. CASE Exit \/ Crash
  <2>1. /\ status' = status /\ cancelRequested' = cancelRequested
        /\ IsBusy(k)' => IsBusy(k)
    BY <1>6 DEF Exit, Crash, ServerEnds, IsBusy, rowVars
  <2> QED
    BY <2>1, PromiseMoves
<1> QED
  BY <1>2, <1>3, <1>4, <1>5, <1>6

LEMMA StepPromise ==
  ASSUME IInv, [Next]_vars
  PROVE  [Promise!Next]_Promise!vars
<1>1. ASSUME NEW k \in Jobs
      PROVE  Promise!JobStep(k)
  <2>1. CASE UNCHANGED vars
    BY <2>1, PromiseMoves DEF vars, rowVars, childVars, IsBusy
  <2> QED
    BY <2>1, StartPromise, WorkerPromise, ServerPromise DEF Next
<1>2. TypeOK'
  BY JobSteps, ServerSteps DEF Next, IInv, vars, rowVars, serverVars, childVars, TypeOK
<1>3. /\ status' \in [Jobs -> Promise!Phases]
      /\ cancelRequested' \in [Jobs -> BOOLEAN]
  BY <1>2 DEF TypeOK, Statuses, Live, Final, Promise!Phases, Promise!Open, Promise!Closed
<1>4. \A k \in Jobs : IsBusy(k)' \in BOOLEAN
  BY DEF IsBusy
<1> QED
  BY <1>1, <1>3, <1>4 DEF Promise!Next

\* The server, its children, recoveries, sweeps and shutdowns together keep what
\* SingletonJobs promises of rows and handlers.
THEOREM Refinement == Spec => ImplementsPromise
<1>1. Init => Promise!Init
  BY DEF Init, Promise!Init, IsBusy
<1>2. IInv /\ [Next]_vars => [Promise!Next]_Promise!vars
  BY StepPromise
<1> QED
  BY <1>1, <1>2, Invariance, PTL DEF Spec, ImplementsPromise, Promise!Spec
============================================================================
