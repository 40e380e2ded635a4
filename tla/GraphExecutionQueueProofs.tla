--------------------- MODULE GraphExecutionQueueProofs ---------------------
(***************************************************************************)
(* Proofs about the queue of graph executions, for any number of           *)
(* executions, any triggers, schedules, lanes and limits.                  *)
(***************************************************************************)
EXTENDS GraphExecutionQueue, FiniteSetTheorems, WellFoundedInduction, TLAPS

----------------------------------------------------------------------------
(* Sets of naturals: least and greatest elements, and how many may start.  *)

\* A non-empty set of naturals has a least element.
LEMMA LeastElement ==
  ASSUME NEW T, T \subseteq Nat, T # {}
  PROVE  \E x \in T : \A y \in T : x <= y
<1> DEFINE R == {ss \in Nat \X Nat : ss[1] < ss[2]}
<1>1. IsWellFoundedOn(R, Nat)
  BY NatLessThanWellFounded DEF OpToRel
<1>2. PICK x \in T : \A y \in T : ~ (<<y, x>> \in R)
  <2> HIDE DEF R
  <2> QED
    BY <1>1, WFMin
<1>3. \A y \in T : ~ (y < x)
  BY <1>2
<1> QED
  BY <1>3

\* A non-empty set of naturals with a bound has a greatest element.
LEMMA GreatestElement ==
  ASSUME NEW N \in Nat, NEW T, T \subseteq 0..N, T # {}
  PROVE  \E x \in T : \A y \in T : y <= x
<1> DEFINE D == {N - t : t \in T}
<1>1. D \subseteq Nat /\ D # {}
  <2>1. PICK t : t \in T
    OBVIOUS
  <2>2. N - t \in D
    BY <2>1
  <2>3. \A u \in T : N - u \in Nat
    OBVIOUS
  <2> QED
    BY <2>2, <2>3
<1>2. PICK d \in D : \A y \in D : d <= y
  <2> HIDE DEF D
  <2> QED
    BY <1>1, LeastElement
<1>3. PICK x \in T : d = N - x
  BY <1>2
<1>4. \A y \in T : N - y \in D
  OBVIOUS
<1>5. \A y \in T : N - x <= N - y
  <2> HIDE DEF D
  <2> QED
    BY <1>2, <1>3, <1>4
<1> HIDE DEF D
<1>6. \A y \in T : y <= x
  BY <1>5
<1> QED
  BY <1>6

\* Subsets of an interval are finite, and no larger than what includes them.
LEMMA Sizes ==
  ASSUME NEW N \in Nat, NEW A \in SUBSET (0..N)
  PROVE  /\ IsFiniteSet(A) /\ Cardinality(A) \in Nat
         /\ \A B \in SUBSET A : Cardinality(B) \in Nat /\ Cardinality(B) <= Cardinality(A)
         /\ \A e : Cardinality(A \union {e}) <= Cardinality(A) + 1
<1>1. IsFiniteSet(0..N)
  BY FS_Interval
<1>2. \A B \in SUBSET A : IsFiniteSet(B) /\ Cardinality(B) \in Nat
  BY <1>1, FS_Subset, FS_CardinalityType
<1>3. \A B \in SUBSET A : Cardinality(B) <= Cardinality(A)
  BY <1>2, FS_Subset
<1>4. \A e : Cardinality(A \union {e}) <= Cardinality(A) + 1
  BY <1>2, FS_AddElement
<1> QED
  BY <1>2, <1>3, <1>4

\* Starting the members of Z in order, each only if those before it leave room
\* beside R, takes no more than the room there is.
LEMMA OrderedStarts ==
  ASSUME NEW N \in Nat, NEW R \in SUBSET (0..N), NEW Z \in SUBSET (0..N), NEW n \in Nat,
         Cardinality(R) <= n,
         \A m \in Z : Cardinality(R \union {k \in Z : k < m}) < n
  PROVE  Cardinality(R \union Z) <= n
<1>1. CASE Z = {}
  BY <1>1
<1>2. CASE Z # {}
  <2>1. PICK m \in Z : \A k \in Z : k <= m
    BY <1>2, GreatestElement
  <2> DEFINE before == R \union {k \in Z : k < m}
  <2>2. R \union Z = before \union {m}
    <3>1. \A k \in Z : k < m \/ k = m
      BY <2>1
    <3> QED
      BY <3>1
  <2>3. before \in SUBSET (0..N) /\ before \union {m} \in SUBSET (0..N) /\ Cardinality(before) < n
    OBVIOUS
  <2> HIDE DEF before
  <2>4. /\ Cardinality(before) \in Nat /\ Cardinality(before \union {m}) \in Nat
        /\ Cardinality(before \union {m}) <= Cardinality(before) + 1
    BY <2>3, Sizes
  <2> QED
    BY <2>2, <2>3, <2>4
<1> QED
  BY <1>1, <1>2

----------------------------------------------------------------------------

\* What a dispatch pass over rows st and workers wk can do.
Passed(st, wk, S) ==
  /\ S \subseteq {e \in OfQueue : st[e] = "queued"}
  /\ status' = [e \in Executions |-> IF e \in S THEN "running" ELSE st[e]]
  /\ stage' = [e \in Executions |-> IF e \in S THEN "lookup" ELSE wk[e]]
  /\ timer' = (S = {} /\ \E e \in OfQueue : st[e] = "queued")

LEMMA PassStarts ==
  ASSUME NEW st, NEW wk, ProcessQueue(st, wk)
  PROVE  \E S : Passed(st, wk, S)
BY DEF ProcessQueue, Passed, QueuedIn, OfQueue, Triggered

----------------------------------------------------------------------------
(* The inductive invariant.                                                *)

\* What the rows and workers a pass starts from must satisfy for the invariant to
\* hold after it, given flags and the mode after the step.
GoodStart(st, wk) ==
  /\ st \in [Executions -> Statuses] /\ wk \in [Executions -> Stages]
  /\ \A e \in OfQueue :
       /\ wk[e] \in {"lookup", "nodes", "closing"} => st[e] = "running"
       /\ wk[e] = "settled" => st[e] \in Terminal
       /\ st[e] = "running" => wk[e] # "idle"
       /\ e \in asked' => wk[e] # "idle"
       /\ e \in asked' /\ wk[e] # "settled" => e \in cancelRequested'
  /\ \A e \in Executions : wk[e] # "idle" => st[e] \notin {"absent", "queued"}

\* The parts of TypeOK a pass does not touch.
RestTyped ==
  /\ trigger' = trigger
  /\ cancelRequested' \subseteq OfQueue /\ asked' \subseteq OfQueue
  /\ holding' \in BOOLEAN /\ foreground' \in BOOLEAN
  /\ stops' \in Nat /\ begun' \in Nat

\* A pass of a server that is up leaves every part of the invariant true.
LEMMA PassKeeps ==
  ASSUME TypeOK, NEW st, NEW wk, GoodStart(st, wk), RestTyped, FlagsAreMeant', mode' = "up",
         ProcessQueue(st, wk)
  PROVE  IInv'
<1>1. PICK S : Passed(st, wk, S)
  BY PassStarts
<1>2. OfQueue' = OfQueue /\ OfQueue \subseteq Executions
  BY DEF RestTyped, OfQueue, Triggered
<1>3. TypeOK'
  BY <1>1, <1>2 DEF Passed, GoodStart, RestTyped, TypeOK, Statuses, Stages
<1>4. RowsMatchJobs'
  BY <1>1, <1>2 DEF Passed, GoodStart, RowsMatchJobs, Terminal
<1>5. QueueIsWatched'
  BY <1>1, <1>2 DEF Passed, GoodStart, QueueIsWatched
<1>6. FlagsKeep'
  BY <1>1, <1>2 DEF Passed, GoodStart, RestTyped, FlagsKeep, Working, Terminal
<1>7. JobsHaveRows'
  BY <1>1 DEF Passed, GoodStart, JobsHaveRows
<1> QED
  BY <1>3, <1>4, <1>5, <1>6, <1>7 DEF IInv

LEMMA InitHolds == ASSUME Init PROVE IInv
<1>1. TypeOK
  BY TriggersAssumption DEF Init, TypeOK, Statuses, Stages
<1>2. OfQueue \subseteq Executions
  BY DEF OfQueue, Triggered
<1>3. RowsMatchJobs /\ QueueIsWatched /\ FlagsKeep /\ FlagsAreMeant /\ JobsHaveRows
  BY <1>2 DEF Init, RowsMatchJobs, QueueIsWatched, FlagsKeep, FlagsAreMeant, JobsHaveRows
<1> QED
  BY <1>1, <1>3 DEF IInv

LEMMA QueueRows == OfQueue \subseteq Executions
BY DEF OfQueue, Triggered

\* The steps that may end in a pass, if the server owns its queue.
LEMMA PassSteps ==
  ASSUME IInv, NEW e, (e \in Executions /\ (EnqueueMany(e) \/ Settle(e))) \/ Retry \/ Start
  PROVE  IInv'
<1> USE DEF IInv
<1>1. CASE e \in Executions /\ EnqueueMany(e)
  <2>1. RestTyped
    BY <1>1 DEF EnqueueMany, RestTyped, TypeOK, settingVars
  <2>2. GoodStart(WithQueued(NextRows(e)), stage)
    BY <1>1, QueueRows
       DEF EnqueueMany, GoodStart, WithQueued, NextRows, TypeOK, JobsHaveRows, FlagsAreMeant, RowsMatchJobs, FlagsKeep,
           Working, Statuses, Stages, Terminal
  <2>3. CASE mode = "up"
    BY <1>1, <2>1, <2>2, <2>3, PassKeeps DEF FlagsAreMeant, EnqueueMany, ProcessIfOwned
  <2>4. CASE mode # "up"
    BY <1>1, <2>1, <2>2, <2>4
       DEF EnqueueMany, ProcessIfOwned, TypeOK, JobsHaveRows, FlagsAreMeant, RowsMatchJobs, QueueIsWatched, FlagsKeep, Working,
           WithQueued, NextRows, OfQueue, Triggered, Statuses, Terminal, settingVars
  <2> QED
    BY <2>3, <2>4
<1>2. CASE Retry
  <2>1. RestTyped
    BY <1>2 DEF Retry, RestTyped, TypeOK, settingVars
  <2>2. CASE mode = "up"
    <3>1. GoodStart(status, stage)
      BY <1>2, <2>2 DEF Retry, GoodStart, TypeOK, JobsHaveRows, FlagsAreMeant, RowsMatchJobs, FlagsKeep, Working
    <3> QED
      BY <1>2, <2>1, <2>2, <3>1, PassKeeps DEF FlagsAreMeant, Retry, ProcessIfOwned
  <2>3. CASE mode # "up"
    BY <1>2, <2>3
       DEF Retry, ProcessIfOwned, TypeOK, JobsHaveRows, FlagsAreMeant, RowsMatchJobs, QueueIsWatched, FlagsKeep, Working,
           OfQueue, Triggered, settingVars
  <2> QED
    BY <2>2, <2>3
<1>3. CASE e \in Executions /\ Settle(e)
  <2> DEFINE wk == [stage EXCEPT ![e] = "idle"]
  <2>1. RestTyped
    BY <1>3 DEF Settle, RestTyped, TypeOK, settingVars
  <2>2. CASE mode = "up"
    <3>1. GoodStart(status, wk)
      BY <1>3, <2>2 DEF Settle, GoodStart, TypeOK, JobsHaveRows, FlagsAreMeant, RowsMatchJobs, FlagsKeep, Working, Stages,
                        Terminal
    <3> QED
      BY <1>3, <2>1, <2>2, <3>1, PassKeeps DEF FlagsAreMeant, Settle, ProcessIfOwned
  <2>3. CASE mode # "up"
    BY <1>3, <2>1, <2>3
       DEF Settle, ProcessIfOwned, TypeOK, JobsHaveRows, FlagsAreMeant, RowsMatchJobs, QueueIsWatched, FlagsKeep, Working,
           OfQueue, Triggered, Stages, Terminal, settingVars
  <2> QED
    BY <2>2, <2>3
<1>4. CASE Start
  <2>1. RestTyped
    BY <1>4 DEF Start, RestTyped, TypeOK, settingVars
  <2>2. GoodStart(Recovered(status), stage)
    BY <1>4, QueueRows
       DEF Start, GoodStart, Recovered, TypeOK, JobsHaveRows, FlagsAreMeant, RowsMatchJobs, FlagsKeep, Statuses, Stages,
           Terminal
  <2> QED
    BY <1>4, <2>1, <2>2, PassKeeps DEF FlagsAreMeant, Start
<1> QED
  BY <1>1, <1>2, <1>3, <1>4

\* The end of an execution's work.
LEMMA FinalizeKeeps ==
  ASSUME IInv, NEW e \in Executions, NEW outcome \in Terminal,
         stage[e] \in {"lookup", "nodes", "closing"}, Finalize(e, outcome)
  PROVE  IInv'
<1> USE DEF IInv, Finalize, Decide, queueVars, settingVars
<1>1. OfQueue' = OfQueue /\ OfQueue \subseteq Executions
  BY DEF OfQueue, Triggered
<1>2. TypeOK'
  BY <1>1 DEF TypeOK, Statuses, Stages, Terminal
<1>3. RowsMatchJobs' /\ QueueIsWatched' /\ JobsHaveRows'
  BY <1>1 DEF TypeOK, RowsMatchJobs, QueueIsWatched, JobsHaveRows, Statuses, Stages, Terminal
<1>4. FlagsKeep' /\ FlagsAreMeant'
  BY <1>1 DEF FlagsAreMeant, TypeOK, RowsMatchJobs, FlagsKeep, Working, Statuses, Stages, Terminal
<1> QED
  BY <1>2, <1>3, <1>4

LEMMA WorkerSteps ==
  ASSUME IInv, NEW e \in Executions,
         LookupFails(e) \/ LookupEnds(e) \/ NodesComplete(e) \/ NodesStop(e) \/ ClosingEnds(e)
  PROVE  IInv'
<1>1. CASE \E outcome \in Terminal :
             stage[e] \in {"lookup", "nodes", "closing"} /\ Finalize(e, outcome)
  BY <1>1, FinalizeKeeps
<1>2. CASE \E next \in {"nodes", "closing"} :
             /\ stage[e] \in {"lookup", "nodes"}
             /\ stage' = [stage EXCEPT ![e] = next]
             /\ UNCHANGED <<trigger, status, mode, queueVars, settingVars, asked, stops>>
  BY <1>2 DEF IInv, TypeOK, RowsMatchJobs, QueueIsWatched, FlagsKeep, FlagsAreMeant, JobsHaveRows,
              Working, OfQueue, Triggered, Stages, queueVars, settingVars
<1> QED
  BY <1>1, <1>2 DEF LookupFails, LookupEnds, NodesComplete, NodesStop, ClosingEnds, Terminal

\* Requests, settings and the ends of processes.
LEMMA OtherSteps ==
  ASSUME IInv, NEW e,
         \/ /\ e \in Executions
            /\ \/ TornEnqueue(e) \/ Cancel(e) \/ CancelSchedule(ScheduleOf[e]) \/ StartDirect(e)
               \/ StandaloneDies(e)
         \/ SetPolicy \/ ForegroundBegins \/ ForegroundEnds \/ Stop \/ Ends
  PROVE  IInv'
<1> USE BoundsAssumption, QueueRows
    DEF IInv, TypeOK, RowsMatchJobs, QueueIsWatched, FlagsKeep, FlagsAreMeant, JobsHaveRows,
        Working, Statuses, Stages, Terminal, queueVars, settingVars
<1>0. trigger' = trigger => OfQueue' = OfQueue
  BY DEF OfQueue, Triggered
<1>1. CASE (e \in Executions /\ TornEnqueue(e)) \/ Ends
  <2>1. \A k \in Executions : stage'[k] = IF trigger[k] = "standalone" THEN stage[k] ELSE "idle"
    BY <1>1 DEF TornEnqueue, Ends
  <2>2. \A k \in OfQueue : stage'[k] = "idle"
    BY <2>1 DEF OfQueue, Triggered
  <2>3. stage' \in [Executions -> Stages] /\ status' \in [Executions -> Statuses]
    BY <1>1 DEF TornEnqueue, Ends, WithQueued
  <2>4. stops' \in Nat /\ cancelRequested' = {} /\ asked' = {} /\ mode' = "down"
    BY <1>1 DEF TornEnqueue, Ends
  <2>5. \A k \in Executions : stage'[k] # "idle" => status'[k] = status[k]
    BY <1>1, <2>1 DEF TornEnqueue, Ends, WithQueued, NextRows
  <2>6. FlagsAreMeant' /\ JobsHaveRows'
    BY <2>1, <2>4, <2>5
  <2>7. TypeOK' /\ RowsMatchJobs' /\ QueueIsWatched' /\ FlagsKeep'
    <3> USE DEF TornEnqueue, Ends
    <3>1. TypeOK'
      BY <1>0, <1>1, <2>3, <2>4
    <3>2. RowsMatchJobs' /\ QueueIsWatched' /\ FlagsKeep'
      BY <1>0, <1>1, <2>2, <2>3, <2>4
    <3> QED
      BY <3>1, <3>2
  <2> QED
    BY <2>6, <2>7
<1>2. CASE e \in Executions /\ Cancel(e)
  BY <1>0, <1>2 DEF Cancel
<1>3. CASE e \in Executions /\ CancelSchedule(ScheduleOf[e])
  BY <1>3 DEF CancelSchedule, OfQueue, Triggered
<1>4. CASE e \in Executions /\ StartDirect(e)
  BY <1>0, <1>4 DEF StartDirect
<1>5. CASE SetPolicy
  BY <1>0, <1>5 DEF SetPolicy
<1>6. CASE ForegroundBegins
  <2>1. begun' \in Nat
    BY <1>6 DEF ForegroundBegins
  <2> QED
    BY <1>0, <1>6, <2>1 DEF ForegroundBegins
<1>7. CASE ForegroundEnds
  BY <1>0, <1>7 DEF ForegroundEnds
<1>8. CASE e \in Executions /\ StandaloneDies(e)
  BY <1>8 DEF StandaloneDies, OfQueue, Triggered
<1>9. CASE Stop
  BY <1>0, <1>9 DEF Stop
<1> QED
  BY <1>1, <1>2, <1>3, <1>4, <1>5, <1>6, <1>7, <1>8, <1>9

----------------------------------------------------------------------------
(* Theorems.                                                               *)

LEMMA StepKeeps == ASSUME IInv, [Next]_vars PROVE IInv'
<1>1. CASE \E e \in Executions : EnqueueMany(e) \/ Settle(e)
  BY <1>1, PassSteps
<1>2. CASE Retry \/ Start
  BY <1>2, PassSteps
<1>3. CASE \E e \in Executions :
             LookupFails(e) \/ LookupEnds(e) \/ NodesComplete(e) \/ NodesStop(e)
               \/ ClosingEnds(e)
  BY <1>3, WorkerSteps
<1>4. CASE \E e \in Executions :
             \/ TornEnqueue(e) \/ Cancel(e) \/ CancelSchedule(ScheduleOf[e]) \/ StartDirect(e)
             \/ StandaloneDies(e)
  BY <1>4, OtherSteps
<1>5. CASE SetPolicy \/ ForegroundBegins \/ ForegroundEnds \/ Stop \/ Ends
  BY <1>5, OtherSteps
<1>6. CASE UNCHANGED vars
  BY <1>6 DEF vars, queueVars, settingVars, IInv, TypeOK, RowsMatchJobs, QueueIsWatched, FlagsKeep,
              FlagsAreMeant, JobsHaveRows, Working, OfQueue, Triggered
<1> QED
  BY <1>1, <1>2, <1>3, <1>4, <1>5, <1>6 DEF Next, WorkerStep

\* The invariant of the queue: rows agree with the jobs that run, a waiting
\* execution is watched by a timer or by a job whose end starts a pass, and no
\* accepted cancellation is forgotten.
THEOREM Invariance == Spec => []IInv
<1>1. Init => IInv
  BY InitHolds
<1>2. IInv /\ [Next]_vars => IInv'
  BY StepKeeps
<1> QED
  BY <1>1, <1>2, PTL DEF Spec

\* Every reachable state is well formed.
THEOREM TypeCorrect == Spec => []TypeOK
<1>1. IInv => TypeOK
  BY DEF IInv
<1> QED
  BY <1>1, Invariance, PTL

\* What one step may do to a row and to its worker: no decided row changes, and
\* nodes start in a row of the queue only if its flag is not set.
LEMMA StepEffects ==
  ASSUME IInv, [Next]_vars, NEW k \in Executions
  PROVE  /\ status[k] \in Terminal => status'[k] = status[k]
         /\ k \in OfQueue /\ stage[k] = "lookup" /\ stage'[k] = "nodes"
              => k \notin cancelRequested
<1> USE DEF IInv, TypeOK, Terminal
<1> DEFINE Kept == status'[k] = status[k]
           NotBegun == stage'[k] \in {stage[k], "lookup", "idle"}
<1>1. ASSUME NEW st, NEW wk, ProcessQueue(st, wk)
      PROVE  /\ st[k] \in Terminal => status'[k] = st[k]
             /\ stage'[k] \in {wk[k], "lookup"}
  <2>1. PICK S : Passed(st, wk, S)
    BY <1>1, PassStarts
  <2> QED
    BY <2>1 DEF Passed
<1>2. ASSUME NEW e \in Executions, EnqueueMany(e) \/ Settle(e)
      PROVE  (status[k] \in Terminal => Kept) /\ NotBegun
  <2>1. CASE EnqueueMany(e)
    BY <2>1, <1>1 DEF EnqueueMany, ProcessIfOwned, WithQueued, NextRows
  <2>2. CASE Settle(e)
    <3> DEFINE wk == [stage EXCEPT ![e] = "idle"]
    <3>1. wk[k] \in {stage[k], "idle"}
      OBVIOUS
    <3>2. ProcessQueue(status, wk) \/ (status' = status /\ stage' = wk)
      BY <2>2 DEF Settle, ProcessIfOwned
    <3> HIDE DEF wk
    <3> QED
      BY <3>1, <3>2, <1>1
  <2> QED
    BY <1>2, <2>1, <2>2
<1>3. ASSUME Retry \/ Start
      PROVE  (status[k] \in Terminal => Kept) /\ NotBegun
  <2>1. CASE Retry
    BY <2>1, <1>1 DEF Retry, ProcessIfOwned
  <2>2. CASE Start
    <3>1. status[k] \in Terminal => Recovered(status)[k] = status[k]
      BY DEF Recovered
    <3> QED
      BY <2>2, <3>1, <1>1 DEF Start
  <2> QED
    BY <1>3, <2>1, <2>2
<1>4. ASSUME NEW e \in Executions,
             LookupFails(e) \/ LookupEnds(e) \/ NodesComplete(e) \/ NodesStop(e) \/ ClosingEnds(e)
      PROVE  /\ status[k] \in Terminal => Kept
             /\ stage[k] = "lookup" /\ stage'[k] = "nodes" => k \notin cancelRequested
  BY <1>4 DEF LookupFails, LookupEnds, NodesComplete, NodesStop, ClosingEnds, Finalize, Decide
<1>5. ASSUME NEW e \in Executions,
             TornEnqueue(e) \/ Cancel(e) \/ CancelSchedule(ScheduleOf[e]) \/ StandaloneDies(e)
      PROVE  (status[k] \in Terminal => Kept) /\ NotBegun
  BY <1>5 DEF TornEnqueue, Cancel, CancelSchedule, StandaloneDies, WithQueued, NextRows
<1>6. ASSUME NEW e \in Executions, StartDirect(e)
      PROVE  (status[k] \in Terminal => Kept) /\ (k \in OfQueue => NotBegun)
  BY <1>6 DEF StartDirect
<1>7. CASE SetPolicy \/ ForegroundBegins \/ ForegroundEnds \/ Stop \/ Ends \/ UNCHANGED vars
  BY <1>7 DEF SetPolicy, ForegroundBegins, ForegroundEnds, Stop, Ends, vars
<1> QED
  BY <1>2, <1>3, <1>4, <1>5, <1>6, <1>7 DEF Next, WorkerStep

\* A decided row stays as it is, whoever else still wants to decide it.
THEOREM DecidedRowsStay == Spec => TerminalIsFinal
<1>1. IInv /\ [Next]_vars =>
        [\A e \in Executions : status[e] \in Terminal => status'[e] = status[e]]_vars
  BY StepEffects
<1> QED
  BY <1>1, Invariance, PTL DEF Spec, TerminalIsFinal

\* A cancellation or a stop that precedes the abort handle keeps every node of the
\* execution from starting.
THEOREM CancelBeforeNodes == Spec => NoNodesAfterCancel
<1>1. ASSUME IInv, [Next]_vars, NEW e \in OfQueue, stage[e] = "lookup",
             e \in asked \/ mode = "draining"
      PROVE  stage'[e] # "nodes"
  <2>1. e \in cancelRequested
    BY <1>1 DEF IInv, FlagsKeep, Working
  <2> QED
    BY <1>1, <2>1, QueueRows, StepEffects
<1>2. IInv /\ [Next]_vars =>
        [\A e \in OfQueue :
           stage[e] = "lookup" /\ (e \in asked \/ mode = "draining")
             => stage'[e] # "nodes"]_vars
  BY <1>1
<1> QED
  BY <1>2, Invariance, PTL DEF Spec, NoNodesAfterCancel

----------------------------------------------------------------------------
(* The limits of the dispatch.                                             *)

LimitsOf(wk) ==
  LET R == RunningIn(wk, "schedule")
  IN /\ Cardinality(RunningIn(wk, "manual")) <= 1
     /\ Cardinality(R) <= ScheduleLimit
     /\ \A l \in Lanes : Cardinality(InLane(l, R)) <= LaneLimit[l]

LEMMA ExecutionsBounded == NumExecutions \in Nat /\ Executions \subseteq 0..NumExecutions
BY NumExecutionsAssumption DEF Executions

\* Fewer jobs stay within the limits.
LEMMA FewerFit ==
  ASSUME NEW wk, NEW more, LimitsOf(more),
         \A t \in {"manual", "schedule"} : RunningIn(wk, t) \subseteq RunningIn(more, t)
  PROVE  LimitsOf(wk)
<1>1. ASSUME NEW A \in SUBSET Executions, NEW B \in SUBSET A, NEW n \in Nat, Cardinality(A) <= n
      PROVE  Cardinality(B) <= n
  <2>1. Cardinality(A) \in Nat /\ Cardinality(B) \in Nat /\ Cardinality(B) <= Cardinality(A)
    BY Sizes, ExecutionsBounded
  <2> QED
    BY <1>1, <2>1
<1>2. \A t : RunningIn(more, t) \subseteq Executions
  BY DEF RunningIn, Triggered
<1>3. Cardinality(RunningIn(wk, "manual")) <= 1
  BY <1>1, <1>2 DEF LimitsOf
<1>4. Cardinality(RunningIn(wk, "schedule")) <= ScheduleLimit
  BY <1>1, <1>2, LimitsAssumption DEF LimitsOf
<1>5. ASSUME NEW l \in Lanes
      PROVE  Cardinality(InLane(l, RunningIn(wk, "schedule"))) <= LaneLimit[l]
  <2>1. /\ InLane(l, RunningIn(wk, "schedule")) \subseteq InLane(l, RunningIn(more, "schedule"))
        /\ InLane(l, RunningIn(more, "schedule")) \subseteq Executions
    BY <1>2 DEF InLane
  <2> QED
    BY <1>1, <2>1, LimitsAssumption DEF LimitsOf
<1> QED
  BY <1>3, <1>4, <1>5 DEF LimitsOf

\* A pass keeps the limits, whatever passes before it have started.
LEMMA PassKeepsLimits ==
  ASSUME TypeOK, NEW st, NEW wk, LimitsOf(wk), ProcessQueue(st, wk), trigger' = trigger
  PROVE  LimitsOf(stage')
<1> DEFINE userWork == QueuedIn(st, "manual") # {} \/ RunningIn(wk, "manual") # {}
           first == IF RunningIn(wk, "manual") = {} THEN Oldest(QueuedIn(st, "manual")) ELSE {}
           R == RunningIn(wk, "schedule")
           bound == ReservationLimit(userWork)
<1>1. PICK S : /\ S \subseteq QueuedIn(st, "manual") \union QueuedIn(st, "schedule")
               /\ IsPass(S, st, wk)
               /\ stage' = [e \in Executions |-> IF e \in S THEN "lookup" ELSE wk[e]]
  BY DEF ProcessQueue
<1> DEFINE Z == S \ first
<1>2. /\ S \intersect Triggered("manual") = first
      /\ \A e \in QueuedIn(st, "schedule") :
           e \in S <=> Fits(e, R \union {k \in Z : k < e}, bound)
  BY <1>1 DEF IsPass
<1>3. /\ Z \subseteq QueuedIn(st, "schedule") /\ Z \subseteq S
      /\ Z \in SUBSET Executions /\ R \in SUBSET Executions
  BY <1>1, <1>2 DEF QueuedIn, RunningIn, Triggered
<1>4. RunningIn(stage', "manual") = RunningIn(wk, "manual") \union first
  BY <1>1, <1>2 DEF RunningIn, Triggered
<1>5. RunningIn(stage', "schedule") = R \union Z
  BY <1>1, <1>2, <1>3 DEF RunningIn, Triggered, QueuedIn
<1>6. bound \in Nat /\ bound <= ScheduleLimit
  BY LimitsAssumption DEF ReservationLimit
<1>7. \A e \in Z : Fits(e, R \union {k \in Z : k < e}, bound)
  BY <1>2, <1>3
<1>8. Cardinality(RunningIn(stage', "manual")) <= 1
  <2>1. CASE RunningIn(wk, "manual") # {}
    BY <2>1, <1>4 DEF LimitsOf
  <2>2. CASE RunningIn(wk, "manual") = {}
    <3>1. \A i, j \in first : i = j
      BY NumExecutionsAssumption DEF Oldest, QueuedIn, Triggered, Executions
    <3>2. first = {} \/ \E i : first = {i}
      BY <3>1
    <3>3. RunningIn(stage', "manual") = first
      BY <2>2, <1>4
    <3> HIDE DEF first
    <3>4. Cardinality(first) \in {0, 1}
      BY <3>2, FS_EmptySet, FS_Singleton
    <3> QED
      BY <3>3, <3>4
  <2> QED
    BY <2>1, <2>2
<1> HIDE DEF userWork, first, R, bound, Z
<1>9. Cardinality(R \union Z) <= ScheduleLimit
  <2>1. CASE Z = {}
    BY <2>1 DEF LimitsOf, R
  <2>2. CASE Z # {}
    <3>1. \A e \in Z : Cardinality(R \union {k \in Z : k < e}) < ScheduleLimit
      <4>1. \A e \in Z : R \union {k \in Z : k < e} \in SUBSET (0..NumExecutions)
        BY <1>3, ExecutionsBounded
      <4>2. \A e \in Z : Cardinality(R \union {k \in Z : k < e}) \in Nat
        BY <4>1, Sizes, ExecutionsBounded
      <4>3. \A e \in Z : Cardinality(R \union {k \in Z : k < e}) < bound
        BY <1>7 DEF Fits
      <4> QED
        BY <1>6, <4>2, <4>3, LimitsAssumption
    <3> QED
      BY <3>1, <1>3, OrderedStarts, ExecutionsBounded, LimitsAssumption DEF LimitsOf, R
  <2> QED
    BY <2>1, <2>2
<1>10. ASSUME NEW l \in Lanes
       PROVE  Cardinality(InLane(l, R \union Z)) <= LaneLimit[l]
  <2>1. InLane(l, R \union Z) = InLane(l, R) \union InLane(l, Z)
    BY DEF InLane
  <2>2. InLane(l, R) \in SUBSET Executions /\ InLane(l, Z) \in SUBSET Executions
    BY <1>3 DEF InLane
  <2>3. ASSUME NEW m \in InLane(l, Z)
        PROVE  Cardinality(InLane(l, R) \union {k \in InLane(l, Z) : k < m}) < LaneLimit[l]
    <3>1. InLane(l, R \union {k \in Z : k < m}) = InLane(l, R) \union {k \in InLane(l, Z) : k < m}
      BY DEF InLane
    <3> QED
      BY <3>1, <1>7, <2>3 DEF Fits, InLane
  <2>4. Cardinality(InLane(l, R)) <= LaneLimit[l] /\ LaneLimit[l] \in Nat
    BY LimitsAssumption DEF LimitsOf, R
  <2> QED
    BY <2>1, <2>2, <2>3, <2>4, OrderedStarts, ExecutionsBounded
<1> QED
  BY <1>5, <1>8, <1>9, <1>10 DEF LimitsOf

LEMMA StepKeepsLimits ==
  ASSUME IInv, LimitsOf(stage), [Next]_vars
  PROVE  LimitsOf(stage)'
<1> USE DEF IInv, TypeOK
<1>1. trigger' = trigger
  BY DEF Next, WorkerStep, EnqueueMany, TornEnqueue, Cancel, CancelSchedule, StartDirect, SetPolicy,
         ForegroundBegins, ForegroundEnds, Retry, LookupFails, LookupEnds, NodesComplete,
         NodesStop, ClosingEnds, Finalize, Settle, StandaloneDies, Stop, Ends, Start, vars
<1>2. LimitsOf(stage)' <=> LimitsOf(stage')
  BY <1>1 DEF LimitsOf, RunningIn, Triggered, InLane
<1>3. CASE \A k \in OfQueue : stage'[k] # "idle" => stage[k] # "idle"
  <2>1. \A t \in {"manual", "schedule"} : RunningIn(stage', t) \subseteq RunningIn(stage, t)
    BY <1>3 DEF RunningIn, OfQueue, Triggered
  <2> QED
    BY <2>1, <1>2, FewerFit
<1>4. CASE \E st, wk : /\ \A k \in OfQueue : wk[k] # "idle" => stage[k] # "idle"
                       /\ ProcessQueue(st, wk)
  <2>1. PICK st, wk : /\ \A k \in OfQueue : wk[k] # "idle" => stage[k] # "idle"
                      /\ ProcessQueue(st, wk)
    BY <1>4
  <2>2. \A t \in {"manual", "schedule"} : RunningIn(wk, t) \subseteq RunningIn(stage, t)
    BY <2>1 DEF RunningIn, OfQueue, Triggered
  <2> QED
    BY <2>1, <2>2, <1>1, <1>2, FewerFit, PassKeepsLimits
<1>5. ASSUME NEW e \in Executions, EnqueueMany(e) \/ Settle(e)
      PROVE  LimitsOf(stage)'
  <2>1. CASE EnqueueMany(e)
    BY <2>1, <1>3, <1>4 DEF EnqueueMany, ProcessIfOwned
  <2>2. CASE Settle(e)
    <3> DEFINE wk == [stage EXCEPT ![e] = "idle"]
    <3>1. \A k \in OfQueue : wk[k] # "idle" => stage[k] # "idle"
      BY QueueRows
    <3>2. ProcessQueue(status, wk) \/ stage' = wk
      BY <2>2 DEF Settle, ProcessIfOwned
    <3> HIDE DEF wk
    <3> QED
      BY <3>1, <3>2, <1>3, <1>4
  <2> QED
    BY <1>5, <2>1, <2>2
<1>6. CASE Retry \/ Start
  BY <1>6, <1>3, <1>4 DEF Retry, Start, ProcessIfOwned
<1>7. ASSUME NEW e \in Executions,
             LookupFails(e) \/ LookupEnds(e) \/ NodesComplete(e) \/ NodesStop(e) \/ ClosingEnds(e)
      PROVE  LimitsOf(stage)'
  <2>1. \A k \in OfQueue : stage'[k] # "idle" => stage[k] # "idle"
    BY <1>7, QueueRows DEF LookupFails, LookupEnds, NodesComplete, NodesStop, ClosingEnds, Finalize
  <2> QED
    BY <2>1, <1>3
<1>8. ASSUME NEW e \in Executions, StartDirect(e) \/ StandaloneDies(e)
      PROVE  LimitsOf(stage)'
  <2>1. \A k \in OfQueue : stage'[k] # "idle" => stage[k] # "idle"
    BY <1>8, QueueRows DEF StartDirect, StandaloneDies
  <2> QED
    BY <2>1, <1>3
<1>9. ASSUME \/ \E e \in Executions : TornEnqueue(e) \/ Cancel(e) \/ CancelSchedule(ScheduleOf[e])
             \/ SetPolicy \/ ForegroundBegins \/ ForegroundEnds \/ Stop \/ Ends \/ UNCHANGED vars
      PROVE  LimitsOf(stage)'
  <2>1. \A k \in OfQueue : stage'[k] # "idle" => stage[k] # "idle"
    BY <1>9, QueueRows DEF TornEnqueue, Cancel, CancelSchedule, SetPolicy, ForegroundBegins,
                           ForegroundEnds, Stop, Ends, vars
  <2> QED
    BY <2>1, <1>3
<1> QED
  BY <1>5, <1>6, <1>7, <1>8, <1>9 DEF Next, WorkerStep

\* Never two manual runs, nor more reservations than their number and lanes allow,
\* however many passes of however many callers have started them.
THEOREM DispatchWithinLimits == Spec => []LimitsHold
<1>1. Init => LimitsOf(stage)
  <2>1. Init => \A t : RunningIn(stage, t) = {}
    BY DEF Init, RunningIn, Triggered
  <2>2. \A l : InLane(l, {}) = {}
    BY DEF InLane
  <2> QED
    BY <2>1, <2>2, FS_EmptySet, LimitsAssumption DEF LimitsOf
<1>2. IInv /\ LimitsOf(stage) /\ [Next]_vars => LimitsOf(stage)'
  BY StepKeepsLimits
<1>3. LimitsOf(stage) => LimitsHold
  BY DEF LimitsOf, LimitsHold, RunningIn
<1> QED
  BY <1>1, <1>2, <1>3, Invariance, PTL DEF Spec

----------------------------------------------------------------------------
(* Who comes first.                                                        *)

\* Of manual executions that wait, with none that runs, the oldest starts.
LEMMA OldestStarts ==
  ASSUME NEW A \in SUBSET Executions, A # {}
  PROVE  Oldest(A) # {}
<1>1. A \subseteq Nat
  BY ExecutionsBounded
<1> QED
  BY <1>1, LeastElement DEF Oldest

\* What ForegroundFirst asks of a step that starts reservations.
LeavesForeground ==
  /\ (\E k \in Triggered("manual") : status'[k] = "queued")
       => \E k \in Triggered("manual") : stage'[k] # "idle"
  /\ holding => \A k \in Triggered("manual") : stage'[k] = "idle"

LEMMA PassIsForegroundFirst ==
  ASSUME NEW st, NEW wk, ProcessQueue(st, wk),
         NEW e \in Triggered("schedule"), wk[e] = "idle", stage'[e] = "lookup"
  PROVE  LeavesForeground
<1> DEFINE manual == QueuedIn(st, "manual")
           first == IF RunningIn(wk, "manual") = {} THEN Oldest(manual) ELSE {}
           userWork == manual # {} \/ RunningIn(wk, "manual") # {}
           R == RunningIn(wk, "schedule")
<1>1. PICK S : /\ S \subseteq QueuedIn(st, "manual") \union QueuedIn(st, "schedule")
               /\ IsPass(S, st, wk)
               /\ status' = [k \in Executions |-> IF k \in S THEN "running" ELSE st[k]]
               /\ stage' = [k \in Executions |-> IF k \in S THEN "lookup" ELSE wk[k]]
  BY DEF ProcessQueue
<1>2. /\ S \intersect Triggered("manual") = first
      /\ \A k \in QueuedIn(st, "schedule") :
           k \in S => Fits(k, R \union {j \in S \ first : j < k}, ReservationLimit(userWork))
  BY <1>1 DEF IsPass
<1>3. /\ Triggered("manual") \subseteq Executions /\ manual \in SUBSET Executions
      /\ S \subseteq Executions /\ R \subseteq Executions
  BY <1>1 DEF Triggered, QueuedIn, RunningIn
<1>4. e \in S /\ e \in QueuedIn(st, "schedule")
  BY <1>1 DEF Triggered, QueuedIn
<1>5. ASSUME NEW k \in Triggered("manual"), status'[k] = "queued"
      PROVE  \E j \in Triggered("manual") : stage'[j] # "idle"
  <2>1. k \in manual
    BY <1>1, <1>3, <1>5 DEF QueuedIn
  <2>2. CASE RunningIn(wk, "manual") = {}
    <3>1. first # {}
      BY <1>3, <2>1, <2>2, OldestStarts
    <3> QED
      BY <1>1, <1>2, <1>3, <3>1
  <2>3. CASE RunningIn(wk, "manual") # {}
    BY <1>1, <1>3, <2>3 DEF RunningIn
  <2> QED
    BY <2>2, <2>3
<1>6. ASSUME holding
      PROVE  \A k \in Triggered("manual") : stage'[k] = "idle"
  <2> DEFINE B == R \union {j \in S \ first : j < e}
  <2>1. Cardinality(B) \in Nat
    <3>1. B \in SUBSET (0..NumExecutions)
      BY <1>3, ExecutionsBounded
    <3> HIDE DEF B
    <3> QED
      BY <3>1, Sizes, ExecutionsBounded
  <2>2. Cardinality(B) < ReservationLimit(userWork)
    BY <1>2, <1>4 DEF Fits
  <2>3. ~userWork
    <3> HIDE DEF B, userWork
    <3> QED
      BY <1>6, <2>1, <2>2 DEF ReservationLimit
  <2>4. S \intersect Triggered("manual") = {}
    BY <1>2, <2>3 DEF Oldest
  <2>5. \A k \in Triggered("manual") : wk[k] = "idle"
    BY <2>3 DEF RunningIn
  <2> QED
    BY <1>1, <1>3, <2>4, <2>5
<1> QED
  BY <1>5, <1>6 DEF LeavesForeground

\* A reservation never overtakes a manual run that could start, and under
\* 'hold_until_empty' starts beside none, whichever caller's pass it is.
THEOREM ReservationsYield == Spec => ForegroundFirst
<1>1. ASSUME IInv, Next, NEW e \in Triggered("schedule"), stage[e] = "idle", stage'[e] = "lookup"
      PROVE  LeavesForeground
  <2> USE <1>1
  <2>1. e \in Executions /\ e \in OfQueue /\ stage \in [Executions -> Stages]
    BY DEF Triggered, OfQueue, IInv, TypeOK
  <2>2. ASSUME NEW k \in Executions, EnqueueMany(k)
        PROVE  LeavesForeground
    BY <2>2, PassIsForegroundFirst DEF EnqueueMany, ProcessIfOwned
  <2>3. ASSUME NEW k \in Executions, Settle(k)
        PROVE  LeavesForeground
    <3> DEFINE wk == [stage EXCEPT ![k] = "idle"]
    <3>1. wk[e] = "idle"
      BY <2>1
    <3>2. ProcessQueue(status, wk) \/ stage' = wk
      BY <2>3 DEF Settle, ProcessIfOwned
    <3> HIDE DEF wk
    <3> QED
      BY <3>1, <3>2, PassIsForegroundFirst
  <2>4. CASE Retry \/ Start
    BY <2>4, PassIsForegroundFirst DEF Retry, Start, ProcessIfOwned
  <2>5. ASSUME NEW k \in Executions,
               LookupFails(k) \/ LookupEnds(k) \/ NodesComplete(k) \/ NodesStop(k) \/ ClosingEnds(k)
        PROVE  FALSE
    BY <2>1, <2>5 DEF LookupFails, LookupEnds, NodesComplete, NodesStop, ClosingEnds, Finalize
  <2>6. ASSUME NEW k \in Executions, StartDirect(k) \/ StandaloneDies(k) \/ TornEnqueue(k)
        PROVE  FALSE
    BY <2>1, <2>6 DEF StartDirect, StandaloneDies, TornEnqueue
  <2>7. ASSUME NEW k \in Executions, Cancel(k) \/ CancelSchedule(ScheduleOf[k])
        PROVE  FALSE
    BY <2>7 DEF Cancel, CancelSchedule
  <2>8. CASE SetPolicy \/ ForegroundBegins \/ ForegroundEnds \/ Stop \/ Ends
    BY <2>1, <2>8 DEF SetPolicy, ForegroundBegins, ForegroundEnds, Stop, Ends
  <2> QED
    BY <2>2, <2>3, <2>4, <2>5, <2>6, <2>7, <2>8 DEF Next, WorkerStep
<1>2. IInv /\ [Next]_vars =>
        [\A e \in Triggered("schedule") :
           stage[e] = "idle" /\ stage'[e] = "lookup" =>
             /\ (\E k \in Triggered("manual") : status'[k] = "queued")
                  => \E k \in Triggered("manual") : stage'[k] # "idle"
             /\ holding => \A k \in Triggered("manual") : stage'[k] = "idle"]_vars
  BY <1>1 DEF LeavesForeground
<1> QED
  BY <1>2, Invariance, PTL DEF Spec, ForegroundFirst

----------------------------------------------------------------------------
(* The queue implements ExecutionLifecycle.                                *)

\* The steps of an execution, in terms of what its row, worker and flag say of it.
LEMMA LifecycleMoves ==
  ASSUME NEW k \in Executions
  PROVE  /\ PhaseOf(k)' = PhaseOf(k) /\ (IsTold(k)' <=> IsTold(k)) => Lifecycle!ExecutionStep(k)
         /\ PhaseOf(k) = "absent" /\ PhaseOf(k)' \in {"waiting", "preparing", "working"}
              /\ ~IsTold(k)' => Lifecycle!ExecutionStep(k)
         /\ PhaseOf(k) = "waiting" /\ PhaseOf(k)' = "preparing" /\ ~IsTold(k)'
              => Lifecycle!ExecutionStep(k)
         /\ PhaseOf(k) \in {"preparing", "working", "closing"} /\ PhaseOf(k)' = PhaseOf(k)
              /\ IsTold(k)' => Lifecycle!ExecutionStep(k)
         /\ PhaseOf(k) = "preparing" /\ PhaseOf(k)' = "working" /\ ~IsTold(k) /\ ~IsTold(k)'
              => Lifecycle!ExecutionStep(k)
         /\ PhaseOf(k) = "working" /\ PhaseOf(k)' = "closing" /\ (IsTold(k)' <=> IsTold(k))
              => Lifecycle!ExecutionStep(k)
         /\ PhaseOf(k) \in {"preparing", "working", "closing"} /\ PhaseOf(k)' = "interrupted"
              /\ ~IsTold(k)' => Lifecycle!ExecutionStep(k)
         /\ PhaseOf(k) = "closing" /\ PhaseOf(k)' = "completed" /\ ~IsTold(k)'
              => Lifecycle!ExecutionStep(k)
         /\ PhaseOf(k) \in {"preparing", "working", "closing", "interrupted"}
              /\ PhaseOf(k)' = "failed" /\ ~IsTold(k)' => Lifecycle!ExecutionStep(k)
         /\ PhaseOf(k) \in {"waiting", "working"} /\ PhaseOf(k)' = "cancelled" /\ ~IsTold(k)'
              => Lifecycle!ExecutionStep(k)
         /\ PhaseOf(k) = "preparing" /\ PhaseOf(k)' = "cancelled" /\ IsTold(k) /\ ~IsTold(k)'
              => Lifecycle!ExecutionStep(k)
<1> DEFINE P == [e \in Executions |-> PhaseOf(e)]
           T == [e \in Executions |-> IsTold(e)]
<1>1. P[k] = PhaseOf(k) /\ P'[k] = PhaseOf(k)'
  OBVIOUS
<1>2. T[k] = IsTold(k) /\ T'[k] = IsTold(k)'
  OBVIOUS
<1>3. IsTold(k) \in BOOLEAN /\ IsTold(k)' \in BOOLEAN
  BY DEF IsTold
<1> QED
  BY <1>1, <1>2, <1>3
     DEF Lifecycle!ExecutionStep, Lifecycle!Stays, Lifecycle!Enter, Lifecycle!Begin,
         Lifecycle!Tell, Lifecycle!Work, Lifecycle!Close, Lifecycle!Interrupt,
         Lifecycle!Complete, Lifecycle!Fail, Lifecycle!Withdraw, Lifecycle!Obey,
         Lifecycle!Moves, Lifecycle!InHand

\* Nothing happens to an execution whose row, worker and flag stay.
LEMMA Untouched ==
  ASSUME NEW k \in Executions, status'[k] = status[k], stage'[k] = stage[k],
         k \in asked' <=> k \in asked, mode' = "draining" <=> mode = "draining",
         trigger' = trigger
  PROVE  Lifecycle!ExecutionStep(k)
<1>1. PhaseOf(k)' = PhaseOf(k) /\ (IsTold(k)' <=> IsTold(k))
  BY DEF PhaseOf, PhaseOfStage, IsTold, OfQueue, Triggered
<1> QED
  BY <1>1, LifecycleMoves

\* An execution with a decided row stays where it is.
LEMMA DecidedStays ==
  ASSUME NEW k \in Executions, status[k] \in Terminal, status'[k] = status[k]
  PROVE  Lifecycle!ExecutionStep(k)
<1>1. PhaseOf(k)' = PhaseOf(k) /\ ~IsTold(k) /\ ~IsTold(k)'
  BY DEF PhaseOf, IsTold, Terminal
<1> QED
  BY <1>1, LifecycleMoves

\* What has no row, or waits, has not been told to stop.
LEMMA WaitingIsUntold ==
  ASSUME IInv, NEW k \in Executions, status[k] \in {"absent", "queued"}
  PROVE  k \notin asked /\ stage[k] = "idle"
BY QueueRows DEF IInv, TypeOK, JobsHaveRows, FlagsKeep

\* A pass takes up executions that wait, and leaves the others.
LEMMA PassTakesUp ==
  ASSUME NEW k \in Executions, NEW st, NEW wk, ProcessIfOwned(st, wk) \/ ProcessQueue(st, wk)
  PROVE  \/ status'[k] = st[k] /\ stage'[k] = wk[k]
         \/ /\ ProcessQueue(st, wk)
            /\ st[k] = "queued" /\ status'[k] = "running" /\ stage'[k] = "lookup"
<1>1. CASE ProcessQueue(st, wk)
  <2>1. PICK S : Passed(st, wk, S)
    BY <1>1, PassStarts
  <2> QED
    BY <1>1, <2>1 DEF Passed
<1>2. CASE status' = st /\ stage' = wk
  BY <1>2
<1> QED
  BY <1>1, <1>2 DEF ProcessIfOwned

LEMMA PassLifecycle ==
  ASSUME IInv, NEW e, (e \in Executions /\ (EnqueueMany(e) \/ Settle(e))) \/ Retry \/ Start,
         NEW k \in Executions
  PROVE  Lifecycle!ExecutionStep(k)
<1>1. TypeOK /\ JobsHaveRows /\ RowsMatchJobs
  BY DEF IInv
<1> DEFINE TakenUp == /\ status[k] \in {"absent", "queued"} /\ status'[k] = "running"
                      /\ stage'[k] = "lookup" /\ k \notin asked' /\ mode' # "draining"
<1>2. CASE TakenUp
  <2>1. /\ PhaseOf(k) \in {"absent", "waiting"} /\ PhaseOf(k)' = "preparing"
        /\ ~IsTold(k)'
    BY <1>2 DEF PhaseOf, PhaseOfStage, IsTold
  <2> QED
    BY <2>1, LifecycleMoves
<1>3. CASE e \in Executions /\ EnqueueMany(e)
  <2> DEFINE st == WithQueued(NextRows(e))
  <2>1. /\ st[k] = status[k] \/ (status[k] = "absent" /\ st[k] = "queued")
        /\ asked' = asked /\ mode' = mode /\ trigger' = trigger
        /\ ProcessIfOwned(st, stage)
    BY <1>3 DEF EnqueueMany, WithQueued, NextRows
  <2> HIDE DEF st
  <2>2. CASE status'[k] = st[k] /\ stage'[k] = stage[k]
    <3>1. CASE st[k] = status[k]
      BY <2>1, <2>2, <3>1, Untouched
    <3>2. CASE status[k] = "absent" /\ st[k] = "queued"
      <4>1. PhaseOf(k) = "absent" /\ PhaseOf(k)' = "waiting" /\ ~IsTold(k)'
        BY <2>2, <3>2 DEF PhaseOf, IsTold
      <4> QED
        BY <4>1, LifecycleMoves
    <3> QED
      BY <2>1, <3>1, <3>2
  <2>3. CASE ProcessQueue(st, stage) /\ st[k] = "queued" /\ status'[k] = "running"
             /\ stage'[k] = "lookup"
    <3>1. status[k] \in {"absent", "queued"}
      BY <2>1, <2>3
    <3>2. CASE mode = "up"
      BY <2>1, <2>3, <3>1, <3>2, <1>2, WaitingIsUntold
    <3>3. CASE mode # "up"
      <4>1. status'[k] = st[k]
        BY <2>1, <3>3 DEF ProcessIfOwned
      <4> QED
        BY <4>1, <2>3
    <3> QED
      BY <3>2, <3>3
  <2> QED
    BY <2>1, <2>2, <2>3, PassTakesUp
<1>4. CASE e \in Executions /\ Settle(e)
  <2> DEFINE wk == [stage EXCEPT ![e] = "idle"]
  <2>1. /\ stage[e] = "settled" /\ asked' = asked \ {e} /\ mode' = mode /\ trigger' = trigger
        /\ ProcessIfOwned(status, wk)
        /\ wk[k] = IF k = e THEN "idle" ELSE stage[k]
    BY <1>1, <1>4 DEF Settle, TypeOK
  <2> HIDE DEF wk
  <2>2. CASE status'[k] = status[k] /\ stage'[k] = wk[k]
    <3>1. CASE k = e
      <4>1. PhaseOf(k)' = PhaseOf(k) /\ ~IsTold(k) /\ ~IsTold(k)'
        BY <2>1, <2>2, <3>1 DEF PhaseOf, PhaseOfStage, IsTold
      <4> QED
        BY <4>1, LifecycleMoves
    <3>2. CASE k # e
      BY <2>1, <2>2, <3>2, Untouched
    <3> QED
      BY <3>1, <3>2
  <2>3. CASE ProcessQueue(status, wk) /\ status[k] = "queued" /\ status'[k] = "running"
             /\ stage'[k] = "lookup"
    <3>1. CASE mode = "up"
      BY <2>1, <2>3, <3>1, <1>2, WaitingIsUntold
    <3>2. CASE mode # "up"
      <4>1. status'[k] = status[k]
        BY <2>1, <3>2 DEF ProcessIfOwned
      <4> QED
        BY <4>1, <2>3
    <3> QED
      BY <3>1, <3>2
  <2> QED
    BY <2>1, <2>2, <2>3, PassTakesUp
<1>5. CASE Retry
  <2>1. /\ asked' = asked /\ mode' = mode /\ trigger' = trigger /\ ProcessIfOwned(status, stage)
    BY <1>5 DEF Retry
  <2>2. CASE status'[k] = status[k] /\ stage'[k] = stage[k]
    BY <2>1, <2>2, Untouched
  <2>3. CASE status[k] = "queued" /\ status'[k] = "running" /\ stage'[k] = "lookup"
    <3>1. CASE mode = "up"
      BY <2>1, <2>3, <3>1, <1>2, WaitingIsUntold
    <3>2. CASE mode # "up"
      <4>1. status'[k] = status[k]
        BY <2>1, <3>2 DEF ProcessIfOwned
      <4> QED
        BY <4>1, <2>3
    <3> QED
      BY <3>1, <3>2
  <2> QED
    BY <2>1, <2>2, <2>3, PassTakesUp
<1>6. CASE Start
  <2>1. /\ asked' = asked /\ mode = "down" /\ mode' = "up" /\ trigger' = trigger
        /\ ProcessQueue(Recovered(status), stage)
        /\ Recovered(status)[k] = IF status[k] = "running" THEN "failed" ELSE status[k]
    BY <1>6 DEF Start, Recovered
  <2>2. CASE status'[k] = Recovered(status)[k] /\ stage'[k] = stage[k]
    <3>1. CASE status[k] = "running"
      <4>1. /\ PhaseOf(k) \in {"preparing", "working", "closing", "interrupted"}
            /\ PhaseOf(k)' = "failed" /\ ~IsTold(k)'
        BY <1>1, <2>1, <2>2, <3>1 DEF PhaseOf, PhaseOfStage, IsTold, TypeOK, Stages
      <4> QED
        BY <4>1, LifecycleMoves
    <3>2. CASE status[k] # "running"
      BY <2>1, <2>2, <3>2, Untouched
    <3> QED
      BY <3>1, <3>2
  <2>3. CASE Recovered(status)[k] = "queued" /\ status'[k] = "running" /\ stage'[k] = "lookup"
    <3>1. status[k] = "queued"
      BY <2>1, <2>3
    <3> QED
      BY <2>1, <2>3, <3>1, <1>2, WaitingIsUntold
  <2> QED
    BY <2>1, <2>2, <2>3, PassTakesUp
<1> QED
  BY <1>3, <1>4, <1>5, <1>6

\* The end of an execution in one of the ways its phase allows.
LEMMA FinalizeLifecycle ==
  ASSUME IInv, NEW e \in Executions, NEW outcome \in Terminal, Finalize(e, outcome),
         \/ outcome = "failed" /\ stage[e] \in {"lookup", "nodes", "closing"}
         \/ outcome = "cancelled" /\ stage[e] = "nodes"
         \/ outcome = "cancelled" /\ stage[e] = "lookup" /\ e \in cancelRequested
         \/ outcome = "completed" /\ stage[e] = "closing",
         NEW k \in Executions
  PROVE  Lifecycle!ExecutionStep(k)
<1>1. TypeOK /\ JobsHaveRows /\ FlagsAreMeant
  BY DEF IInv
<1>2. CASE k # e
  BY <1>1, <1>2, Untouched DEF Finalize, Decide, TypeOK
<1>3. CASE k = e /\ status[e] \in Terminal
  <2>1. status'[k] = status[k]
    BY <1>1, <1>3 DEF Finalize, Decide, TypeOK
  <2> QED
    BY <2>1, <1>3, DecidedStays
<1>4. CASE k = e /\ status[e] = "running"
  <2>1. status'[k] = outcome
    BY <1>1, <1>4 DEF Finalize, Decide, TypeOK, Terminal
  <2>2. PhaseOf(k)' = outcome /\ ~IsTold(k)'
    BY <2>1 DEF PhaseOf, IsTold, Terminal
  <2>3. PhaseOf(k) = PhaseOfStage[stage[k]]
    BY <1>4 DEF PhaseOf
  <2>4. CASE outcome = "failed"
    BY <1>4, <2>2, <2>3, <2>4, LifecycleMoves DEF PhaseOfStage
  <2>5. CASE outcome = "cancelled" /\ stage[e] = "nodes"
    BY <1>4, <2>2, <2>3, <2>5, LifecycleMoves DEF PhaseOfStage
  <2>6. CASE outcome = "cancelled" /\ stage[e] = "lookup" /\ e \in cancelRequested
    <3>1. IsTold(k)
      BY <1>1, <1>4, <2>6 DEF IsTold, FlagsAreMeant, TypeOK
    <3> QED
      BY <1>4, <2>2, <2>3, <2>6, <3>1, LifecycleMoves DEF PhaseOfStage
  <2>7. CASE outcome = "completed"
    BY <1>4, <2>2, <2>3, <2>7, LifecycleMoves DEF PhaseOfStage
  <2> QED
    BY <2>4, <2>5, <2>6, <2>7
<1> QED
  BY <1>1, <1>2, <1>3, <1>4 DEF TypeOK, JobsHaveRows, Statuses

LEMMA WorkerLifecycle ==
  ASSUME IInv, NEW e \in Executions,
         LookupFails(e) \/ LookupEnds(e) \/ NodesComplete(e) \/ NodesStop(e) \/ ClosingEnds(e),
         NEW k \in Executions
  PROVE  Lifecycle!ExecutionStep(k)
<1>1. TypeOK /\ JobsHaveRows /\ FlagsKeep
  BY DEF IInv
<1>2. CASE LookupFails(e)
  BY <1>2, FinalizeLifecycle DEF LookupFails, Terminal
<1>3. CASE LookupEnds(e)
  <2>1. CASE e \in cancelRequested
    BY <1>3, <2>1, FinalizeLifecycle DEF LookupEnds, Terminal
  <2>2. CASE e \notin cancelRequested
    <3>1. /\ stage[e] = "lookup" /\ stage' = [stage EXCEPT ![e] = "nodes"]
          /\ UNCHANGED <<trigger, status, mode, asked>>
      BY <1>3, <2>2 DEF LookupEnds
    <3>2. CASE k # e
      BY <1>1, <3>1, <3>2, Untouched DEF TypeOK
    <3>3. CASE k = e /\ status[e] \in Terminal
      BY <3>1, <3>3, DecidedStays
    <3>4. CASE k = e /\ status[e] = "running"
      <4>1. e \notin asked /\ ~(mode = "draining" /\ e \in OfQueue)
        BY <1>1, <2>2, <3>1 DEF FlagsKeep, Working, TypeOK
      <4>2. ~IsTold(k) /\ ~IsTold(k)'
        BY <3>1, <3>4, <4>1 DEF IsTold, OfQueue, Triggered
      <4>3. PhaseOf(k) = "preparing" /\ PhaseOf(k)' = "working"
        BY <1>1, <3>1, <3>4 DEF PhaseOf, PhaseOfStage, TypeOK
      <4> QED
        BY <4>2, <4>3, LifecycleMoves
    <3> QED
      BY <1>1, <3>1, <3>2, <3>3, <3>4 DEF JobsHaveRows, TypeOK, Statuses
  <2> QED
    BY <2>1, <2>2
<1>4. CASE NodesComplete(e)
  <2>1. /\ stage[e] = "nodes" /\ stage' = [stage EXCEPT ![e] = "closing"]
        /\ UNCHANGED <<trigger, status, mode, asked>>
    BY <1>4 DEF NodesComplete
  <2>2. CASE k # e
    BY <1>1, <2>1, <2>2, Untouched DEF TypeOK
  <2>3. CASE k = e /\ status[e] \in Terminal
    BY <2>1, <2>3, DecidedStays
  <2>4. CASE k = e /\ status[e] = "running"
    <3>1. stage'[k] = "closing"
      BY <1>1, <2>1, <2>4 DEF TypeOK
    <3>2. /\ PhaseOf(k) = "working" /\ PhaseOf(k)' = "closing"
          /\ IsTold(k)' <=> IsTold(k)
      BY <2>1, <2>4, <3>1 DEF PhaseOf, PhaseOfStage, IsTold, OfQueue, Triggered
    <3> QED
      BY <3>2, LifecycleMoves
  <2> QED
    BY <1>1, <2>1, <2>2, <2>3, <2>4 DEF JobsHaveRows, TypeOK, Statuses
<1>5. CASE NodesStop(e) \/ ClosingEnds(e)
  BY <1>5, FinalizeLifecycle DEF NodesStop, ClosingEnds, Terminal
<1> QED
  BY <1>2, <1>3, <1>4, <1>5

\* A process ends: what it had in hand is interrupted, queued rows may remain.
LEMMA EndLifecycle ==
  ASSUME IInv, NEW e, (e \in Executions /\ TornEnqueue(e)) \/ Ends, NEW k \in Executions
  PROVE  Lifecycle!ExecutionStep(k)
<1>1. TypeOK /\ JobsHaveRows
  BY DEF IInv
<1>2. /\ status'[k] = status[k] \/ (status[k] = "absent" /\ status'[k] = "queued")
      /\ stage'[k] = IF trigger[k] = "standalone" THEN stage[k] ELSE "idle"
      /\ asked' = {} /\ mode' = "down" /\ trigger' = trigger
  BY DEF TornEnqueue, Ends, WithQueued, NextRows
<1>3. ~IsTold(k)'
  BY <1>2 DEF IsTold
<1>4. CASE status[k] = "absent" /\ status'[k] = "queued"
  <2>1. PhaseOf(k) = "absent" /\ PhaseOf(k)' = "waiting"
    BY <1>4 DEF PhaseOf
  <2> QED
    BY <2>1, <1>3, LifecycleMoves
<1>5. CASE status'[k] = status[k] /\ status[k] # "running"
  <2>1. PhaseOf(k)' = PhaseOf(k) /\ ~IsTold(k)
    BY <1>5 DEF PhaseOf, IsTold
  <2> QED
    BY <2>1, <1>3, LifecycleMoves
<1>6. CASE status'[k] = status[k] /\ status[k] = "running" /\ trigger[k] = "standalone"
  <2>1. PhaseOf(k)' = PhaseOf(k)
    BY <1>2, <1>6 DEF PhaseOf
  <2>2. k \notin OfQueue /\ ~IsTold(k)
    BY <1>1, <1>6 DEF IsTold, OfQueue, Triggered, TypeOK
  <2> QED
    BY <2>1, <2>2, <1>3, LifecycleMoves
<1>7. CASE status'[k] = status[k] /\ status[k] = "running" /\ trigger[k] # "standalone"
  <2>1. PhaseOf(k)' = "interrupted"
    BY <1>2, <1>7 DEF PhaseOf, PhaseOfStage
  <2>2. CASE stage[k] \in {"lookup", "nodes", "closing"}
    <3>1. PhaseOf(k) \in {"preparing", "working", "closing"}
      BY <1>7, <2>2 DEF PhaseOf, PhaseOfStage
    <3> QED
      BY <2>1, <3>1, <1>3, LifecycleMoves
  <2>3. CASE stage[k] \in {"idle", "settled"}
    <3>1. PhaseOf(k) = "interrupted" /\ ~IsTold(k)
      BY <1>7, <2>3 DEF PhaseOf, PhaseOfStage, IsTold
    <3> QED
      BY <2>1, <3>1, <1>3, LifecycleMoves
  <2> QED
    BY <2>2, <2>3, <1>1 DEF TypeOK, Stages
<1> QED
  BY <1>2, <1>4, <1>5, <1>6, <1>7

\* Requests: a queued row is cancelled, a job is told, a stranded row fails.
LEMMA RequestLifecycle ==
  ASSUME IInv, NEW e \in Executions, Cancel(e) \/ CancelSchedule(ScheduleOf[e]),
         NEW k \in Executions
  PROVE  Lifecycle!ExecutionStep(k)
<1>1. TypeOK /\ RowsMatchJobs
  BY DEF IInv
<1>2. stage' = stage /\ mode' = mode /\ trigger' = trigger
  BY DEF Cancel, CancelSchedule
<1>3. \/ status'[k] = status[k] /\ (k \in asked' <=> k \in asked)
      \/ status[k] = "queued" /\ status'[k] = "cancelled"
      \/ Working(k) /\ status'[k] = status[k] /\ k \in asked'
      \/ ~Working(k) /\ status[k] = "running" /\ status'[k] = "failed"
  <2>1. CASE Cancel(e) /\ k # e
    BY <1>1, <2>1 DEF Cancel, TypeOK
  <2>2. CASE Cancel(e) /\ k = e
    BY <1>1, <2>2 DEF Cancel, TypeOK
  <2>3. CASE CancelSchedule(ScheduleOf[e])
    BY <1>1, <2>3, QueueRows DEF CancelSchedule, RowsMatchJobs, Working, Stages, TypeOK
  <2> QED
    BY <2>1, <2>2, <2>3
<1>4. CASE status'[k] = status[k] /\ (k \in asked' <=> k \in asked)
  BY <1>2, <1>4, Untouched
<1>5. CASE status[k] = "queued" /\ status'[k] = "cancelled"
  <2>1. PhaseOf(k) = "waiting" /\ PhaseOf(k)' = "cancelled" /\ ~IsTold(k)'
    BY <1>5 DEF PhaseOf, IsTold
  <2> QED
    BY <2>1, LifecycleMoves
<1>6. CASE Working(k) /\ status'[k] = status[k] /\ k \in asked'
  <2>1. stage[k] \in {"lookup", "nodes", "closing"} /\ status[k] = "running"
    BY <1>1, <1>6 DEF Working, RowsMatchJobs, TypeOK, Stages
  <2>2. /\ PhaseOf(k) \in {"preparing", "working", "closing"} /\ PhaseOf(k)' = PhaseOf(k)
        /\ IsTold(k)'
    BY <1>2, <1>6, <2>1 DEF PhaseOf, PhaseOfStage, IsTold
  <2> QED
    BY <2>2, LifecycleMoves
<1>7. CASE ~Working(k) /\ status[k] = "running" /\ status'[k] = "failed"
  <2>1. /\ PhaseOf(k) \in {"preparing", "working", "closing", "interrupted"}
        /\ PhaseOf(k)' = "failed" /\ ~IsTold(k)'
    BY <1>1, <1>7 DEF PhaseOf, PhaseOfStage, IsTold, TypeOK, Stages
  <2> QED
    BY <2>1, LifecycleMoves
<1> QED
  BY <1>3, <1>4, <1>5, <1>6, <1>7

\* Executions past the queue, settings, and the stop of the server.
LEMMA OtherLifecycle ==
  ASSUME IInv, NEW e,
         \/ e \in Executions /\ (StartDirect(e) \/ StandaloneDies(e))
         \/ SetPolicy \/ ForegroundBegins \/ ForegroundEnds \/ Stop,
         NEW k \in Executions
  PROVE  Lifecycle!ExecutionStep(k)
<1>1. TypeOK /\ JobsHaveRows
  BY DEF IInv
<1>2. CASE e \in Executions /\ StartDirect(e)
  <2>1. CASE k # e
    BY <1>1, <1>2, <2>1, Untouched DEF StartDirect, TypeOK
  <2>2. CASE k = e
    <3>1. /\ status[k] = "absent" /\ status'[k] = "running" /\ stage'[k] = "nodes"
          /\ k \notin OfQueue /\ k \notin asked' /\ trigger' = trigger
      BY <1>1, <1>2, <2>2 DEF StartDirect, TypeOK
    <3>2. PhaseOf(k) = "absent" /\ PhaseOf(k)' = "working" /\ ~IsTold(k)'
      BY <3>1 DEF PhaseOf, PhaseOfStage, IsTold, OfQueue, Triggered
    <3> QED
      BY <3>2, LifecycleMoves
  <2> QED
    BY <2>1, <2>2
<1>3. CASE e \in Executions /\ StandaloneDies(e)
  <2>1. /\ trigger[e] = "standalone" /\ stage[e] # "idle" /\ trigger' = trigger
        /\ status' = status /\ asked' = asked /\ mode' = mode
        /\ stage' = [stage EXCEPT ![e] = "idle"]
    BY <1>3 DEF StandaloneDies
  <2>2. CASE k # e
    BY <1>1, <2>1, <2>2, Untouched DEF TypeOK
  <2>3. CASE k = e /\ status[e] \in Terminal
    BY <2>1, <2>3, DecidedStays
  <2>4. CASE k = e /\ status[e] = "running"
    <3>1. stage'[k] = "idle"
      BY <1>1, <2>1, <2>4 DEF TypeOK
    <3>2. /\ PhaseOf(k) \in {"preparing", "working", "closing", "interrupted"}
          /\ PhaseOf(k)' = "interrupted" /\ ~IsTold(k)'
      BY <1>1, <2>1, <2>4, <3>1 DEF PhaseOf, PhaseOfStage, IsTold, TypeOK, Stages
    <3>3. ~IsTold(k)
      BY <1>1, <2>1, <2>4 DEF IsTold, OfQueue, Triggered, TypeOK
    <3> QED
      BY <3>2, <3>3, LifecycleMoves
  <2> QED
    BY <1>1, <2>1, <2>2, <2>3, <2>4 DEF JobsHaveRows, TypeOK, Statuses
<1>4. CASE SetPolicy \/ ForegroundBegins \/ ForegroundEnds
  BY <1>4, Untouched DEF SetPolicy, ForegroundBegins, ForegroundEnds, queueVars
<1>5. CASE Stop
  <2>1. /\ mode = "up" /\ mode' = "draining"
        /\ UNCHANGED <<trigger, status, stage, asked>>
    BY <1>5 DEF Stop
  <2>2. PhaseOf(k)' = PhaseOf(k)
    BY <2>1 DEF PhaseOf
  <2>3. CASE IsTold(k)'
    <3>1. PhaseOf(k) \in {"preparing", "working", "closing"}
      BY <2>1, <2>3 DEF PhaseOf, PhaseOfStage, IsTold
    <3> QED
      BY <2>2, <2>3, <3>1, LifecycleMoves
  <2>4. CASE ~IsTold(k)'
    <3>1. ~IsTold(k)
      BY <2>1, <2>4 DEF IsTold
    <3> QED
      BY <2>2, <2>4, <3>1, LifecycleMoves
  <2> QED
    BY <2>3, <2>4
<1> QED
  BY <1>2, <1>3, <1>4, <1>5

LEMMA StepLifecycle ==
  ASSUME IInv, [Next]_vars
  PROVE  [Lifecycle!Next]_Lifecycle!vars
<1>1. ASSUME NEW k \in Executions
      PROVE  Lifecycle!ExecutionStep(k)
  <2>1. CASE \E e \in Executions : EnqueueMany(e) \/ Settle(e)
    BY <2>1, PassLifecycle
  <2>2. CASE Retry \/ Start
    BY <2>2, PassLifecycle
  <2>3. CASE \E e \in Executions :
               LookupFails(e) \/ LookupEnds(e) \/ NodesComplete(e) \/ NodesStop(e)
                 \/ ClosingEnds(e)
    BY <2>3, WorkerLifecycle
  <2>4. CASE (\E e \in Executions : TornEnqueue(e)) \/ Ends
    BY <2>4, EndLifecycle
  <2>5. CASE \E e \in Executions : Cancel(e) \/ CancelSchedule(ScheduleOf[e])
    BY <2>5, RequestLifecycle
  <2>6. CASE \/ \E e \in Executions : StartDirect(e) \/ StandaloneDies(e)
             \/ SetPolicy \/ ForegroundBegins \/ ForegroundEnds \/ Stop
    BY <2>6, OtherLifecycle
  <2>7. CASE UNCHANGED vars
    BY <2>7, Untouched DEF vars
  <2> QED
    BY <2>1, <2>2, <2>3, <2>4, <2>5, <2>6, <2>7 DEF Next, WorkerStep
<1>2. TypeOK'
  BY StepKeeps DEF IInv
<1>3. \A k \in Executions : PhaseOf(k)' \in Lifecycle!Phases
  BY <1>2 DEF PhaseOf, PhaseOfStage, TypeOK, Statuses, Stages, Terminal, Lifecycle!Phases,
              Lifecycle!InHand, Lifecycle!Ended
<1>4. \A k \in Executions : IsTold(k)' \in BOOLEAN
  BY DEF IsTold
<1> QED
  BY <1>1, <1>3, <1>4 DEF Lifecycle!Next

\* Whoever decides rows, accepts cancellations, ends the server or recovers what it
\* left, every execution goes through its phases as ExecutionLifecycle has them.
THEOREM Refinement == Spec => ImplementsLifecycle
<1>1. Init => Lifecycle!Init
  BY DEF Init, Lifecycle!Init, PhaseOf, IsTold
<1>2. IInv /\ [Next]_vars => [Lifecycle!Next]_Lifecycle!vars
  BY StepLifecycle
<1> QED
  BY <1>1, <1>2, Invariance, PTL DEF Spec, ImplementsLifecycle, Lifecycle!Spec
============================================================================
