---------------------- MODULE GraphNodeSchedulerProofs ----------------------
(***************************************************************************)
(* Proofs about the node scheduler, for any executions, any workflow       *)
(* graphs, and any limits.                                                 *)
(***************************************************************************)
EXTENDS GraphNodeScheduler, FiniteSetTheorems, WellFoundedInduction, TLAPS

----------------------------------------------------------------------------
(* Sets of naturals: least and greatest elements, and how many may start.  *)

\* A non-empty set of naturals has a least element.
LEMMA LeastElement ==
  ASSUME NEW T, T \subseteq Nat, T # {}
  PROVE  \E x \in T : \A y \in T : x <= y
<1> DEFINE R == {ss \in Nat \X Nat : ss[1] < ss[2]}
<1>1. IsWellFoundedOn(R, Nat)
  BY NatLessThanWellFounded DEF OpToRel
<1>2. PICK x \in T : \A y \in T : ~ (<<y, x>> \in R)
  <2> HIDE DEF R
  <2> QED
    BY <1>1, WFMin
<1>3. \A y \in T : ~ (y < x)
  BY <1>2
<1> QED
  BY <1>3

\* A non-empty set of naturals with a bound has a greatest element.
LEMMA GreatestElement ==
  ASSUME NEW N \in Nat, NEW T, T \subseteq 0..N, T # {}
  PROVE  \E x \in T : \A y \in T : y <= x
<1> DEFINE D == {N - t : t \in T}
<1>1. D \subseteq Nat /\ D # {}
  <2>1. PICK t : t \in T
    OBVIOUS
  <2>2. N - t \in D
    BY <2>1
  <2>3. \A u \in T : N - u \in Nat
    OBVIOUS
  <2> QED
    BY <2>2, <2>3
<1>2. PICK d \in D : \A y \in D : d <= y
  <2> HIDE DEF D
  <2> QED
    BY <1>1, LeastElement
<1>3. PICK x \in T : d = N - x
  BY <1>2
<1>4. \A y \in T : N - y \in D
  OBVIOUS
<1>5. \A y \in T : N - x <= N - y
  <2> HIDE DEF D
  <2> QED
    BY <1>2, <1>3, <1>4
<1> HIDE DEF D
<1>6. \A y \in T : y <= x
  BY <1>5
<1> QED
  BY <1>6

\* Subsets of an interval are finite, and no larger than what includes them.
LEMMA Sizes ==
  ASSUME NEW N \in Nat, NEW A \in SUBSET (0..N)
  PROVE  /\ IsFiniteSet(A) /\ Cardinality(A) \in Nat
         /\ \A B \in SUBSET A : Cardinality(B) \in Nat /\ Cardinality(B) <= Cardinality(A)
         /\ \A e : Cardinality(A \union {e}) <= Cardinality(A) + 1
<1>1. IsFiniteSet(0..N)
  BY FS_Interval
<1>2. \A B \in SUBSET A : IsFiniteSet(B) /\ Cardinality(B) \in Nat
  BY <1>1, FS_Subset, FS_CardinalityType
<1>3. \A B \in SUBSET A : Cardinality(B) <= Cardinality(A)
  BY <1>2, FS_Subset
<1>4. \A e : Cardinality(A \union {e}) <= Cardinality(A) + 1
  BY <1>2, FS_AddElement
<1> QED
  BY <1>2, <1>3, <1>4

\* Starting the members of Z in order, each only if those before it leave room
\* beside R, takes no more than the room there is.
LEMMA OrderedStarts ==
  ASSUME NEW N \in Nat, NEW R \in SUBSET (0..N), NEW Z \in SUBSET (0..N), NEW n \in Nat,
         Cardinality(R) <= n,
         \A m \in Z : Cardinality(R \union {k \in Z : k < m}) < n
  PROVE  Cardinality(R \union Z) <= n
<1>1. CASE Z = {}
  BY <1>1
<1>2. CASE Z # {}
  <2>1. PICK m \in Z : \A k \in Z : k <= m
    BY <1>2, GreatestElement
  <2> DEFINE before == R \union {k \in Z : k < m}
  <2>2. R \union Z = before \union {m}
    <3>1. \A k \in Z : k < m \/ k = m
      BY <2>1
    <3> QED
      BY <3>1
  <2>3. before \in SUBSET (0..N) /\ before \union {m} \in SUBSET (0..N) /\ Cardinality(before) < n
    OBVIOUS
  <2> HIDE DEF before
  <2>4. /\ Cardinality(before) \in Nat /\ Cardinality(before \union {m}) \in Nat
        /\ Cardinality(before \union {m}) <= Cardinality(before) + 1
    BY <2>3, Sizes
  <2> QED
    BY <2>2, <2>3, <2>4
<1> QED
  BY <1>1, <1>2

----------------------------------------------------------------------------

LEMMA NodesBounded == NumNodes \in Nat /\ Nodes \subseteq 0..NumNodes
BY NumNodesAssumption DEF Nodes

LaneInFlight == {n \in External : node[n] \in InFlightStates}

LEMMA NodeSets ==
  /\ LaneInFlight \subseteq Nodes
  /\ \A e : NodesOf(e) \subseteq Nodes /\ Pending(e) \subseteq NodesOf(e)
            /\ InFlight(e) \subseteq NodesOf(e) /\ Ready(e) \subseteq Pending(e)
BY ExternalAssumption DEF LaneInFlight, NodesOf, Pending, InFlight, Ready

LEMMA InitHolds == ASSUME Init PROVE IInv
<1>1. TypeOK
  BY DEF Init, TypeOK, Suspensions, NodeStates
<1>2. LaneInFlight = {} /\ \A e : InFlight(e) = {} /\ Pending(e) = NodesOf(e)
  BY ExternalAssumption DEF Init, LaneInFlight, InFlight, InFlightStates, Pending, NodesOf
<1>3. SlotsExact
  BY <1>2, FS_EmptySet, LimitsAssumption DEF Init, SlotsExact, LaneInFlight
<1>4. LoopMatchesNodes
  BY <1>2, FS_EmptySet, LimitsAssumption DEF Init, LoopMatchesNodes
<1>5. DependenciesMet /\ ErrorsKept /\ EndsForAReason
  BY DEF Init, DependenciesMet, ErrorsKept, EndsForAReason
<1> QED
  BY <1>1, <1>3, <1>4, <1>5 DEF IInv

----------------------------------------------------------------------------
(* Turns that start nothing.                                               *)

\* What does not touch the nodes keeps what is said of them.
LEMMA NodesAlone ==
  ASSUME IInv, UNCHANGED nodeVars
  PROVE  /\ SlotsExact' /\ DependenciesMet'
         /\ \A e : InFlight(e)' = InFlight(e) /\ Pending(e)' = Pending(e)
BY DEF IInv, nodeVars, SlotsExact, DependenciesMet, InFlight, Pending

\* An execution ends, with its error or because it is complete.
LEMMA EndKeeps ==
  ASSUME IInv, NEW e \in Executions, NEW outcome, End(e, outcome),
         UNCHANGED <<nodeVars, flagged>>,
         \/ /\ outcome = firstError'[e] /\ firstError'[e] \in {"failed", "cancelled"}
            /\ \/ UNCHANGED <<firstError, aborted>>
               \/ /\ firstError' = [firstError EXCEPT ![e] = outcome]
                  /\ aborted' = aborted \union {e}
         \/ /\ outcome \in {"completed", "failed"} /\ UNCHANGED <<firstError, aborted>>
            /\ firstError[e] = "none" /\ InFlight(e) = {} /\ NodesOf(e) \subseteq completed
  PROVE  IInv'
<1> USE DEF IInv, End
<1>1. /\ SlotsExact' /\ DependenciesMet'
      /\ \A k : InFlight(k)' = InFlight(k) /\ Pending(k)' = Pending(k)
  BY NodesAlone
<1>2. TypeOK'
  BY DEF TypeOK, Suspensions, nodeVars
<1>3. ErrorsKept'
  BY ExecutionOfAssumption DEF ErrorsKept, TypeOK, nodeVars
<1>4. LoopMatchesNodes'
  BY <1>1 DEF LoopMatchesNodes, TypeOK, nodeVars, NodesOf
<1>5. EndsForAReason'
  BY <1>1 DEF EndsForAReason, TypeOK, nodeVars, NodesOf
<1> QED
  BY <1>1, <1>2, <1>3, <1>4, <1>5

LEMMA QuietTurns ==
  ASSUME IInv, NEW e \in Executions,
         Leave(e) \/ Break(e) \/ DrainEnds(e) \/ DrainTimesOut(e) \/ ClosingEnds(e) \/ Cancel(e)
  PROVE  IInv'
<1> USE DEF IInv
<1>1. CASE Leave(e)
  <2>1. CASE firstError[e] # "none"
    BY <1>1, <2>1, EndKeeps DEF Leave, TypeOK
  <2>2. CASE firstError[e] = "none"
    <3>1. \A n \in NodesOf(e) : n \in completed
      BY <1>1, <2>2 DEF Leave, AllDone, Pending, InFlight, NodesOf, ErrorsKept, TypeOK, NodeStates,
                        InFlightStates
    <3>2. /\ SlotsExact' /\ DependenciesMet'
          /\ \A k : InFlight(k)' = InFlight(k) /\ Pending(k)' = Pending(k)
      BY <1>1, NodesAlone DEF Leave
    <3>3. TypeOK' /\ ErrorsKept'
      BY <1>1, <2>2 DEF Leave, TypeOK, ErrorsKept, Suspensions, nodeVars
    <3>4. LoopMatchesNodes'
      BY <1>1, <2>2, <3>1, <3>2
         DEF Leave, AllDone, Resumes, LoopMatchesNodes, TypeOK, nodeVars, NodesOf
    <3>5. EndsForAReason'
      BY <1>1, <2>2, <3>2 DEF Leave, EndsForAReason, TypeOK, nodeVars, NodesOf
    <3> QED
      BY <3>2, <3>3, <3>4, <3>5
  <2> QED
    BY <2>1, <2>2
<1>2. CASE Break(e)
  <2> DEFINE error == IF firstError[e] = "none" THEN "cancelled" ELSE firstError[e]
  <2>1. /\ error \in {"failed", "cancelled"} /\ firstError' = [firstError EXCEPT ![e] = error]
        /\ aborted' = aborted \union {e} /\ UNCHANGED <<nodeVars, flagged>>
        /\ Drain(e, error) /\ Resumes(e)
    BY <1>2 DEF Break, TypeOK
  <2>2. firstError'[e] = error
    BY <2>1 DEF TypeOK
  <2> HIDE DEF error
  <2>3. CASE InFlight(e) = {}
    BY <2>1, <2>2, <2>3, EndKeeps DEF Drain
  <2>4. CASE InFlight(e) # {}
    <3>1. /\ SlotsExact' /\ DependenciesMet'
          /\ \A k : InFlight(k)' = InFlight(k) /\ Pending(k)' = Pending(k)
      BY <2>1, NodesAlone
    <3>2. loop' = [loop EXCEPT ![e] = "draining"] /\ row' = row
          /\ awaited' = [awaited EXCEPT ![e] = InFlight(e)]
      BY <2>1, <2>4 DEF Drain
    <3>3. TypeOK'
      BY <2>1, <3>2, NodeSets DEF TypeOK, Suspensions, nodeVars
    <3>4. ErrorsKept'
      BY <2>1, <2>2, ExecutionOfAssumption DEF TypeOK, ErrorsKept, nodeVars
    <3>5. LoopMatchesNodes'
      BY <2>1, <2>2, <2>4, <3>1, <3>2, NodeSets
         DEF LoopMatchesNodes, TypeOK, nodeVars, NodesOf, Resumes
    <3>6. EndsForAReason'
      BY <2>1, <3>1, <3>2 DEF EndsForAReason, TypeOK, nodeVars, NodesOf
    <3> QED
      BY <3>1, <3>3, <3>4, <3>5, <3>6
  <2> QED
    BY <2>3, <2>4
<1>3. CASE DrainEnds(e) \/ DrainTimesOut(e)
  <2>1. firstError[e] \in {"failed", "cancelled"}
    BY <1>3 DEF DrainEnds, DrainTimesOut, LoopMatchesNodes, TypeOK
  <2> QED
    BY <1>3, <2>1, EndKeeps DEF DrainEnds, DrainTimesOut
<1>4. CASE ClosingEnds(e)
  BY <1>4, EndKeeps DEF ClosingEnds, LoopMatchesNodes
<1>5. CASE Cancel(e)
  <2>1. /\ SlotsExact' /\ DependenciesMet'
        /\ \A k : InFlight(k)' = InFlight(k) /\ Pending(k)' = Pending(k)
    BY <1>5, NodesAlone DEF Cancel
  <2>2. TypeOK' /\ ErrorsKept'
    BY <1>5 DEF Cancel, TypeOK, ErrorsKept, nodeVars
  <2>3. LoopMatchesNodes' /\ EndsForAReason'
    BY <1>5, <2>1 DEF Cancel, LoopMatchesNodes, EndsForAReason, nodeVars, NodesOf
  <2> QED
    BY <2>1, <2>2, <2>3
<1> QED
  BY <1>1, <1>2, <1>3, <1>4, <1>5

----------------------------------------------------------------------------
(* Turns that start nodes.                                                 *)

\* A graph in topological order always has a node to run: what is least among the
\* pending nodes depends on nodes that have completed.
LEMMA SomeNodeIsReady ==
  ASSUME IInv, NEW e \in Executions, Pending(e) # {}, InFlight(e) = {}, firstError[e] = "none"
  PROVE  Ready(e) # {}
<1>1. /\ Pending(e) \subseteq NodesOf(e) /\ NodesOf(e) \subseteq Nodes
      /\ Pending(e) \subseteq Nat /\ Nodes \subseteq Nat
  <2>1. Nodes \subseteq Nat
    BY NumNodesAssumption DEF Nodes
  <2> QED
    BY <2>1, NodeSets
<1>2. PICK m \in Pending(e) : \A k \in Pending(e) : m <= k
  BY <1>1, LeastElement
<1>3. ASSUME NEW d \in DependsOn[m]
      PROVE  d \in completed
  <2>1. m \in Nodes /\ ExecutionOf[m] = e
    BY <1>1, <1>2 DEF NodesOf
  <2>2. d \in NodesOf(e) /\ d < m
    BY <2>1, DependsOnAssumption DEF NodesOf
  <2>3. d \in Nat /\ m \in Nat
    BY <1>1, <2>1, <2>2
  <2>4. d \notin Pending(e) /\ d \notin InFlight(e)
    <3>1. ~(m <= d)
      BY <2>2, <2>3
    <3> QED
      BY <1>2, <3>1
  <2> QED
    BY <2>2, <2>4 DEF IInv, TypeOK, ErrorsKept, NodesOf, Pending, InFlight, NodeStates, InFlightStates
<1> QED
  BY <1>2, <1>3 DEF Ready

LEMMA StartReadyKeeps ==
  ASSUME IInv, NEW e \in Executions, StartReady(e)
  PROVE  IInv'
<1> USE DEF IInv
<1>1. PICK S \in SUBSET Ready(e) :
        /\ Starts(e, S)
        /\ node' = [n \in Nodes |-> IF n \in S THEN "running" ELSE node[n]]
        /\ activeCount' = activeCount + Cardinality(S \intersect External)
        /\ IF InFlight(e) \union S # {}
           THEN /\ loop' = [loop EXCEPT ![e] = "racing"]
                /\ awaited' = [awaited EXCEPT ![e] = InFlight(e) \union S]
                /\ UNCHANGED row
           ELSE IF Ready(e) # {}
           THEN /\ loop' = [loop EXCEPT ![e] = "throttled"]
                /\ awaited' = [awaited EXCEPT ![e] = {}]
                /\ UNCHANGED row
           ELSE End(e, "failed")
  BY DEF StartReady
<1>2. /\ Resumes(e) /\ ~AllDone(e) /\ firstError[e] = "none"
      /\ UNCHANGED <<completed, artifacts, firstError, aborted, flagged>>
  BY DEF StartReady, MustStop
<1>3. ~(InFlight(e) \union S = {} /\ Ready(e) = {})
  BY <1>2, SomeNodeIsReady DEF AllDone
<1>4. /\ loop' = [loop EXCEPT ![e] = IF InFlight(e) \union S # {} THEN "racing" ELSE "throttled"]
      /\ awaited' = [awaited EXCEPT ![e] = InFlight(e) \union S]
      /\ row' = row
  BY <1>1, <1>3
<1>5. /\ S \subseteq NodesOf(e) /\ S \subseteq Nodes /\ S \subseteq Pending(e)
      /\ \A n \in S : node[n] = "pending" /\ DependsOn[n] \subseteq completed
  BY NodeSets DEF Ready, Pending
<1>6. /\ InFlight(e)' = InFlight(e) \union S
      /\ \A k \in Executions : k # e => InFlight(k)' = InFlight(k) /\ Pending(k)' = Pending(k)
  BY <1>1, <1>5 DEF InFlight, Pending, NodesOf, InFlightStates
<1>7. LaneInFlight' = LaneInFlight \union (S \intersect External)
  BY <1>1, <1>5, ExternalAssumption DEF LaneInFlight, InFlightStates
<1>8. \A A \in SUBSET Nodes : IsFiniteSet(A) /\ Cardinality(A) \in Nat
  BY NodesBounded, Sizes
<1>9. SlotsExact'
  <2> DEFINE Z == S \intersect External
  <2>1. /\ activeCount = Cardinality(LaneInFlight) /\ activeCount <= LaneLimit
        /\ activeCount \in Nat /\ LaneLimit \in Nat
    BY LimitsAssumption DEF SlotsExact, LaneInFlight, TypeOK
  <2>2. \A B \in SUBSET Z :
          Cardinality(LaneInFlight \union B) = activeCount + Cardinality(B)
    <3> SUFFICES ASSUME NEW B \in SUBSET Z
                 PROVE  Cardinality(LaneInFlight \union B) = activeCount + Cardinality(B)
      OBVIOUS
    <3>1. LaneInFlight \intersect B = {}
      BY <1>5 DEF LaneInFlight, InFlightStates
    <3>2. IsFiniteSet(LaneInFlight) /\ IsFiniteSet(B) /\ Cardinality(B) \in Nat
      BY <1>5, <1>8, NodeSets
    <3>3. Cardinality(LaneInFlight \union B) = Cardinality(LaneInFlight) + Cardinality(B) - 0
      BY <3>1, <3>2, FS_Union, FS_EmptySet
    <3> QED
      BY <2>1, <3>2, <3>3
  <2>3. \A m \in Z : Cardinality(LaneInFlight \union {k \in Z : k < m}) < LaneLimit
    <3> SUFFICES ASSUME NEW m \in Z
                 PROVE  Cardinality(LaneInFlight \union {k \in Z : k < m}) < LaneLimit
      OBVIOUS
    <3>1. GetsSlot(m, {k \in S : k < m})
      BY <1>1 DEF Starts
    <3>2. {k \in S : k < m} \intersect External = {k \in Z : k < m}
      OBVIOUS
    <3> QED
      BY <2>2, <3>1, <3>2 DEF GetsSlot
  <2>4. LaneInFlight \in SUBSET (0..NumNodes) /\ Z \in SUBSET (0..NumNodes)
    BY <1>5, NodeSets, NodesBounded
  <2>5. Cardinality(LaneInFlight \union Z) <= LaneLimit
    BY <2>1, <2>3, <2>4, OrderedStarts, NodesBounded
  <2>6. activeCount' = Cardinality(LaneInFlight \union Z)
    BY <1>1, <2>2
  <2> QED
    BY <1>7, <2>5, <2>6 DEF SlotsExact, LaneInFlight
<1>10. TypeOK'
  <2>1. activeCount' \in Nat
    BY <1>1, <1>5, <1>8 DEF TypeOK
  <2>2. awaited' \in [Executions -> SUBSET Nodes]
    BY <1>4, <1>5, NodeSets DEF TypeOK
  <2> QED
    BY <1>1, <1>2, <1>4, <2>1, <2>2 DEF TypeOK, Suspensions, NodeStates, InFlightStates
<1>11. DependenciesMet' /\ ErrorsKept'
  BY <1>1, <1>2, <1>5 DEF DependenciesMet, ErrorsKept, TypeOK
<1>12. Cardinality(InFlight(e) \union S) <= MaxParallel
  <2>1. \A m \in S : Cardinality(InFlight(e) \union {k \in S : k < m}) < MaxParallel
    BY <1>1 DEF Starts
  <2>2. InFlight(e) \in SUBSET (0..NumNodes) /\ S \in SUBSET (0..NumNodes)
    BY <1>5, NodeSets, NodesBounded
  <2> QED
    BY <2>1, <2>2, OrderedStarts, NodesBounded, LimitsAssumption DEF LoopMatchesNodes
<1>13. LoopMatchesNodes'
  <2>1. /\ loop \in [Executions -> Suspensions] /\ awaited \in [Executions -> SUBSET Nodes]
        /\ InFlight(e) \union S \subseteq NodesOf(e) /\ NodesOf(e)' = NodesOf(e)
    BY <1>5, NodeSets DEF TypeOK, NodesOf
  <2>2. /\ loop'[e] = IF InFlight(e) \union S # {} THEN "racing" ELSE "throttled"
        /\ awaited'[e] = InFlight(e) \union S /\ row'[e] = row[e] /\ firstError'[e] = "none"
        /\ InFlight(e)' = InFlight(e) \union S /\ loop[e] # "ended"
    BY <1>2, <1>4, <1>6, <2>1 DEF Resumes
  <2>3. ASSUME NEW k \in Executions, k # e
        PROVE  /\ loop'[k] = loop[k] /\ awaited'[k] = awaited[k] /\ row'[k] = row[k]
               /\ firstError'[k] = firstError[k] /\ completed' = completed /\ aborted' = aborted
               /\ InFlight(k)' = InFlight(k) /\ Pending(k)' = Pending(k)
               /\ NodesOf(k)' = NodesOf(k)
    BY <1>2, <1>4, <1>6, <2>1, <2>3 DEF NodesOf
  <2>4. ASSUME NEW k \in Executions
        PROVE  /\ Cardinality(InFlight(k)') <= MaxParallel
               /\ awaited'[k] \subseteq NodesOf(k)'
               /\ loop'[k] = "idle" => Pending(k)' = NodesOf(k)' /\ k \notin aborted'
               /\ loop'[k] = "racing" => InFlight(k)' \subseteq awaited'[k] /\ awaited'[k] # {}
               /\ loop'[k] \in {"throttled", "closing"}
                    => InFlight(k)' = {} /\ firstError'[k] = "none"
               /\ loop'[k] = "closing" => NodesOf(k)' \subseteq completed'
               /\ loop'[k] = "draining"
                    => firstError'[k] # "none" /\ InFlight(k)' \subseteq awaited'[k]
               /\ row'[k] = "running" <=> loop'[k] # "ended"
    <3>1. CASE k = e
      BY <3>1, <1>12, <2>1, <2>2 DEF LoopMatchesNodes
    <3>2. CASE k # e
      BY <3>2, <2>3 DEF LoopMatchesNodes
    <3> QED
      BY <3>1, <3>2
  <2> QED
    BY <2>4 DEF LoopMatchesNodes
<1>14. EndsForAReason'
  BY <1>2, <1>4, <1>6 DEF EndsForAReason, LoopMatchesNodes, TypeOK, NodesOf, Resumes
<1> QED
  BY <1>9, <1>10, <1>11, <1>13, <1>14

----------------------------------------------------------------------------
(* Steps of nodes.                                                         *)

\* A node in flight belongs to an execution whose loop accounts for it.
LEMMA InFlightLoop ==
  ASSUME IInv, NEW n \in Nodes, node[n] \in InFlightStates
  PROVE  /\ ExecutionOf[n] \in Executions /\ n \in InFlight(ExecutionOf[n])
         /\ loop[ExecutionOf[n]] \notin {"idle", "throttled", "closing"}
         /\ loop[ExecutionOf[n]] = "ended" => firstError[ExecutionOf[n]] # "none"
<1> DEFINE e == ExecutionOf[n]
<1>1. e \in Executions
  BY ExecutionOfAssumption
<1>2. n \in InFlight(e) /\ n \in NodesOf(e) /\ n \notin Pending(e)
  BY DEF InFlight, NodesOf, Pending, InFlightStates
<1> HIDE DEF e
<1>3. loop[e] \notin {"idle", "throttled", "closing"}
  BY <1>1, <1>2 DEF IInv, LoopMatchesNodes, NodesOf, Pending
<1>4. loop[e] = "ended" => firstError[e] # "none"
  BY <1>1, <1>2 DEF IInv, EndsForAReason
<1> QED
  BY <1>1, <1>2, <1>3, <1>4 DEF e

\* A step of a node that stays in flight.
LEMMA NodeStays ==
  ASSUME IInv, NEW n \in Nodes,
         SaveBegins(n) \/ SaveEnds(n) \/ NodeCompletes(n) \/ NodeFails(n)
  PROVE  IInv'
<1> USE DEF IInv
<1> DEFINE e == ExecutionOf[n]
<1>1. /\ node[n] \in InFlightStates /\ node'[n] \in InFlightStates
      /\ node' = [node EXCEPT ![n] = node'[n]]
      /\ UNCHANGED <<loop, awaited, activeCount, flagged, row>>
  BY DEF SaveBegins, SaveEnds, NodeCompletes, NodeFails, TypeOK, InFlightStates
<1>2. /\ LaneInFlight' = LaneInFlight
      /\ \A k : InFlight(k)' = InFlight(k) /\ Pending(k)' = Pending(k)
  BY <1>1, ExternalAssumption DEF LaneInFlight, InFlight, Pending, NodesOf, InFlightStates, TypeOK
<1>3. /\ e \in Executions /\ loop[e] \notin {"idle", "throttled", "closing"}
      /\ loop[e] = "ended" => firstError[e] # "none"
  BY <1>1, InFlightLoop
<1>4. /\ completed \subseteq completed' /\ completed' \subseteq completed \union {n}
      /\ n \in completed' => n \in completed \/ node'[n] = "settling"
  BY DEF SaveBegins, SaveEnds, NodeCompletes, NodeFails, TypeOK
<1>5. /\ firstError' \in [Executions -> {"none", "failed", "cancelled"}]
      /\ \A k \in Executions : firstError[k] # "none" \/ k # e => firstError'[k] = firstError[k]
  BY <1>3 DEF SaveBegins, SaveEnds, NodeCompletes, NodeFails, TypeOK
<1>6. TypeOK'
  BY <1>1, <1>3, <1>4, <1>5
     DEF TypeOK, SaveBegins, SaveEnds, NodeCompletes, NodeFails, NodeStates, InFlightStates
<1>7. SlotsExact' /\ DependenciesMet'
  BY <1>1, <1>2, <1>4 DEF SlotsExact, LaneInFlight, DependenciesMet, TypeOK, InFlightStates
<1>8. ErrorsKept'
  BY <1>3, ExecutionOfAssumption
     DEF ErrorsKept, SaveBegins, SaveEnds, NodeCompletes, NodeFails, TypeOK, InFlightStates
<1>9. aborted' \subseteq aborted \union {e}
  BY DEF SaveBegins, SaveEnds, NodeCompletes, NodeFails
<1>10. LoopMatchesNodes' /\ EndsForAReason'
  BY <1>1, <1>2, <1>3, <1>4, <1>5, <1>9 DEF LoopMatchesNodes, EndsForAReason, NodesOf, TypeOK
<1> QED
  BY <1>6, <1>7, <1>8, <1>10

\* The step by which a node leaves.
LEMMA NodeLeaves ==
  ASSUME IInv, NEW n \in Nodes, Gone(n)
  PROVE  IInv'
<1> USE DEF IInv
<1>1. node[n] = "settling" /\ node' = [node EXCEPT ![n] = "gone"]
      /\ UNCHANGED <<loop, awaited, completed, artifacts, firstError, aborted, flagged, row>>
  BY DEF Gone
<1>2. /\ LaneInFlight' = LaneInFlight \ {n}
      /\ \A k : InFlight(k)' = InFlight(k) \ {n} /\ Pending(k)' = Pending(k)
  BY <1>1, ExternalAssumption DEF LaneInFlight, InFlight, Pending, NodesOf, InFlightStates, TypeOK
<1>3. \A A \in SUBSET Nodes :
        /\ IsFiniteSet(A) /\ Cardinality(A) \in Nat /\ Cardinality(A \ {n}) \in Nat
        /\ Cardinality(A \ {n}) = IF n \in A THEN Cardinality(A) - 1 ELSE Cardinality(A)
  BY NodesBounded, Sizes, FS_RemoveElement
<1>4. SlotsExact' /\ activeCount' \in Nat
  <2>1. activeCount = Cardinality(LaneInFlight) /\ activeCount <= LaneLimit /\ activeCount \in Nat
    BY DEF SlotsExact, LaneInFlight, TypeOK
  <2>2. n \in External <=> n \in LaneInFlight
    BY <1>1 DEF LaneInFlight, InFlightStates
  <2>3. /\ Cardinality(LaneInFlight \ {n})
             = IF n \in External THEN activeCount - 1 ELSE activeCount
        /\ Cardinality(LaneInFlight \ {n}) \in Nat
    BY <1>3, <2>1, <2>2, NodeSets
  <2>4. activeCount' = Cardinality(LaneInFlight \ {n})
    BY <2>1, <2>3 DEF Gone
  <2>5. activeCount' <= LaneLimit
    BY <2>1, <2>3, <2>4, LimitsAssumption
  <2> QED
    BY <1>2, <2>3, <2>4, <2>5 DEF SlotsExact, LaneInFlight
<1>5. TypeOK'
  BY <1>1, <1>4 DEF TypeOK, NodeStates
<1>6. DependenciesMet' /\ ErrorsKept'
  BY <1>1 DEF DependenciesMet, ErrorsKept, TypeOK
<1>7. \A k \in Executions : Cardinality(InFlight(k)') <= MaxParallel
  <2> SUFFICES ASSUME NEW k \in Executions
               PROVE  Cardinality(InFlight(k)') <= MaxParallel
    OBVIOUS
  <2>1. Cardinality(InFlight(k)) <= MaxParallel /\ InFlight(k) \in SUBSET Nodes
    BY NodeSets DEF LoopMatchesNodes
  <2> QED
    BY <1>2, <1>3, <2>1, LimitsAssumption
<1>8. LoopMatchesNodes'
  BY <1>1, <1>2, <1>7 DEF LoopMatchesNodes, NodesOf, TypeOK
<1>9. EndsForAReason'
  BY <1>1, <1>2 DEF EndsForAReason, NodesOf
<1> QED
  BY <1>4, <1>5, <1>6, <1>8, <1>9

----------------------------------------------------------------------------
(* Theorems.                                                               *)

LEMMA StepKeeps == ASSUME IInv, [Next]_vars PROVE IInv'
<1>1. CASE \E e \in Executions :
             Leave(e) \/ Break(e) \/ DrainEnds(e) \/ DrainTimesOut(e) \/ ClosingEnds(e) \/ Cancel(e)
  BY <1>1, QuietTurns
<1>2. CASE \E e \in Executions : StartReady(e)
  BY <1>2, StartReadyKeeps
<1>3. CASE \E n \in Nodes : NodeStep(n)
  BY <1>3, NodeStays, NodeLeaves DEF NodeStep
<1>4. CASE UNCHANGED vars
  BY <1>4 DEF vars, nodeVars, IInv, TypeOK, SlotsExact, DependenciesMet, ErrorsKept,
              LoopMatchesNodes, EndsForAReason, InFlight, Pending, NodesOf
<1> QED
  BY <1>1, <1>2, <1>3, <1>4 DEF Next, Turn

\* The invariant of the scheduler: dependencies are met, slots are counted exactly,
\* errors abort, and every execution ends for a reason.
THEOREM Invariance == Spec => []IInv
<1>1. Init => IInv
  BY InitHolds
<1>2. IInv /\ [Next]_vars => IInv'
  BY StepKeeps
<1> QED
  BY <1>1, <1>2, PTL DEF Spec

\* Every reachable state is well formed.
THEOREM TypeCorrect == Spec => []TypeOK
<1>1. IInv => TypeOK
  BY DEF IInv
<1> QED
  BY <1>1, Invariance, PTL

\* No node starts after an error or a cancellation, whatever the loop waited for.
THEOREM NothingStartsAfterStop == Spec => NoStartAfterStop
<1>1. ASSUME IInv, [Next]_vars, NEW n \in Nodes, node[n] = "pending",
             MustStop(ExecutionOf[n])
      PROVE  node'[n] = "pending"
  <2>1. CASE \E e \in Executions : StartReady(e)
    <3>1. PICK e \in Executions : StartReady(e)
      BY <2>1
    <3>2. n \notin Ready(e)
      BY <1>1, <3>1 DEF StartReady, Ready, Pending, NodesOf
    <3> QED
      BY <1>1, <3>1, <3>2 DEF StartReady
  <2>2. CASE \E e \in Executions :
               Leave(e) \/ Break(e) \/ DrainEnds(e) \/ DrainTimesOut(e) \/ ClosingEnds(e)
                 \/ Cancel(e)
    BY <1>1, <2>2 DEF Leave, Break, DrainEnds, DrainTimesOut, ClosingEnds, Cancel, nodeVars
  <2>3. CASE \E k \in Nodes : NodeStep(k)
    BY <1>1, <2>3 DEF NodeStep, SaveBegins, SaveEnds, NodeCompletes, NodeFails, Gone, IInv, TypeOK
  <2>4. CASE UNCHANGED vars
    BY <1>1, <2>4 DEF vars, nodeVars
  <2> QED
    BY <1>1, <2>1, <2>2, <2>3, <2>4 DEF Next, Turn
<1>2. IInv /\ [Next]_vars =>
        [\A n \in Nodes :
           LET e == ExecutionOf[n]
           IN node[n] = "pending" /\ (firstError[e] # "none" \/ e \in aborted \union flagged)
                => node'[n] = "pending"]_vars
  BY <1>1 DEF MustStop
<1> QED
  BY <1>2, Invariance, PTL DEF Spec, NoStartAfterStop

\* A row is decided while a node is in flight only if the drain timed out.
THEOREM QuietDecisions == Spec => DecidedWhenQuiet
<1>1. ASSUME IInv, [Next]_vars, NEW e \in Executions, row[e] = "running", row'[e] # "running"
      PROVE  InFlight(e) = {} \/ DrainTimesOut(e)
  <2>1. CASE \E k \in Executions : Leave(k) \/ Break(k)
    BY <1>1, <2>1 DEF Leave, Break, Drain, End, AllDone, IInv, TypeOK
  <2>2. CASE \E k \in Executions : DrainEnds(k)
    BY <1>1, <2>2, NodeSets DEF DrainEnds, End, IInv, TypeOK, LoopMatchesNodes
  <2>3. CASE \E k \in Executions : DrainTimesOut(k)
    BY <1>1, <2>3 DEF DrainTimesOut, End, IInv, TypeOK
  <2>4. CASE \E k \in Executions : ClosingEnds(k)
    BY <1>1, <2>4 DEF ClosingEnds, End, IInv, TypeOK, LoopMatchesNodes
  <2>5. CASE \E k \in Executions : StartReady(k)
    <3>1. PICK k \in Executions : StartReady(k)
      BY <2>5
    <3>2. CASE InFlight(k) = {}
      BY <1>1, <3>1, <3>2 DEF StartReady, End, IInv, TypeOK
    <3>3. CASE InFlight(k) # {}
      BY <1>1, <3>1, <3>3 DEF StartReady, IInv, TypeOK
    <3> QED
      BY <3>2, <3>3
  <2>6. CASE (\E k \in Executions : Cancel(k)) \/ (\E n \in Nodes : NodeStep(n)) \/ UNCHANGED vars
    BY <1>1, <2>6 DEF Cancel, NodeStep, SaveBegins, SaveEnds, NodeCompletes, NodeFails, Gone, vars
  <2> QED
    BY <1>1, <2>1, <2>2, <2>3, <2>4, <2>5, <2>6 DEF Next, Turn
<1>2. IInv /\ [Next]_vars =>
        [\A e \in Executions :
           row[e] = "running" /\ row'[e] # "running" => InFlight(e) = {} \/ DrainTimesOut(e)]_vars
  BY <1>1
<1> QED
  BY <1>2, Invariance, PTL DEF Spec, DecidedWhenQuiet

----------------------------------------------------------------------------
(* The scheduler implements ExecutionLifecycle.                            *)

\* The phases and the flag of an execution around a step, as moves of the abstract
\* specification.
LEMMA LifecycleMoves ==
  ASSUME NEW k \in Executions
  PROVE  /\ PhaseOf(k)' = PhaseOf(k) /\ (IsTold(k)' <=> IsTold(k)) => Lifecycle!ExecutionStep(k)
         /\ PhaseOf(k) \in {"preparing", "working", "closing"} /\ PhaseOf(k)' = PhaseOf(k)
              /\ IsTold(k)' => Lifecycle!ExecutionStep(k)
         /\ PhaseOf(k) = "preparing" /\ PhaseOf(k)' = "working" /\ ~IsTold(k) /\ ~IsTold(k)'
              => Lifecycle!ExecutionStep(k)
         /\ PhaseOf(k) = "working" /\ PhaseOf(k)' = "closing" /\ (IsTold(k)' <=> IsTold(k))
              => Lifecycle!ExecutionStep(k)
         /\ PhaseOf(k) = "closing" /\ PhaseOf(k)' = "completed" /\ ~IsTold(k)'
              => Lifecycle!ExecutionStep(k)
         /\ PhaseOf(k) \in {"preparing", "working", "closing"} /\ PhaseOf(k)' = "failed"
              /\ ~IsTold(k)' => Lifecycle!ExecutionStep(k)
         /\ PhaseOf(k) = "working" /\ PhaseOf(k)' = "cancelled" /\ ~IsTold(k)'
              => Lifecycle!ExecutionStep(k)
         /\ PhaseOf(k) = "preparing" /\ PhaseOf(k)' = "cancelled" /\ IsTold(k) /\ ~IsTold(k)'
              => Lifecycle!ExecutionStep(k)
<1> DEFINE P == [e \in Executions |-> PhaseOf(e)]
           T == [e \in Executions |-> IsTold(e)]
<1>1. P[k] = PhaseOf(k) /\ P'[k] = PhaseOf(k)'
  OBVIOUS
<1>2. T[k] = IsTold(k) /\ T'[k] = IsTold(k)'
  OBVIOUS
<1>3. IsTold(k) \in BOOLEAN /\ IsTold(k)' \in BOOLEAN
  BY DEF IsTold
<1> QED
  BY <1>1, <1>2, <1>3
     DEF Lifecycle!ExecutionStep, Lifecycle!Stays, Lifecycle!Tell, Lifecycle!Work,
         Lifecycle!Close, Lifecycle!Complete, Lifecycle!Fail, Lifecycle!Withdraw,
         Lifecycle!Obey, Lifecycle!Moves, Lifecycle!InHand

\* The phase of an execution, by where its loop is.
LEMMA PhaseByLoop ==
  ASSUME NEW k \in Executions
  PROVE  /\ loop[k] = "idle" =>
              PhaseOf(k) = IF NodesOf(k) = {} THEN "working" ELSE "preparing"
         /\ loop[k] = "closing" => PhaseOf(k) = "closing"
         /\ loop[k] = "ended" => PhaseOf(k) = row[k]
         /\ loop[k] \in {"racing", "throttled", "draining"} => PhaseOf(k) = "working"
         /\ loop'[k] = "idle" =>
              PhaseOf(k)' = IF NodesOf(k) = {} THEN "working" ELSE "preparing"
         /\ loop'[k] = "closing" => PhaseOf(k)' = "closing"
         /\ loop'[k] = "ended" => PhaseOf(k)' = row'[k]
         /\ loop'[k] \in {"racing", "throttled", "draining"} => PhaseOf(k)' = "working"
BY DEF PhaseOf, NodesOf

\* Nothing happens to an execution whose loop, row and flag stay.
LEMMA Untouched ==
  ASSUME NEW k \in Executions, loop'[k] = loop[k], row'[k] = row[k],
         k \in flagged' <=> k \in flagged
  PROVE  Lifecycle!ExecutionStep(k)
<1>1. PhaseOf(k)' = PhaseOf(k) /\ (IsTold(k)' <=> IsTold(k))
  BY DEF PhaseOf, IsTold, NodesOf
<1> QED
  BY <1>1, LifecycleMoves

\* An execution ends in one of the ways its phase allows.
LEMMA EndLifecycle ==
  ASSUME IInv, NEW e \in Executions, NEW outcome, End(e, outcome), flagged' = flagged,
         \/ outcome = "failed" /\ loop[e] # "ended"
         \/ outcome = "cancelled" /\ PhaseOf(e) = "working"
         \/ outcome = "cancelled" /\ loop[e] = "idle" /\ NodesOf(e) # {} /\ e \in flagged
         \/ outcome = "completed" /\ loop[e] = "closing",
         NEW k \in Executions
  PROVE  Lifecycle!ExecutionStep(k)
<1>1. TypeOK
  BY DEF IInv
<1>2. CASE k # e
  BY <1>1, <1>2, Untouched DEF End, TypeOK
<1>3. CASE k = e
  <2>1. PhaseOf(k)' = outcome /\ ~IsTold(k)'
    BY <1>1, <1>3, PhaseByLoop DEF End, TypeOK, IsTold
  <2>2. loop[k] # "ended" => PhaseOf(k) \in {"preparing", "working", "closing"}
    BY <1>1, PhaseByLoop DEF TypeOK, Suspensions
  <2>3. CASE outcome = "failed" /\ loop[e] # "ended"
    BY <1>3, <2>1, <2>2, <2>3, LifecycleMoves
  <2>4. CASE outcome = "cancelled" /\ PhaseOf(e) = "working"
    BY <1>3, <2>1, <2>4, LifecycleMoves
  <2>5. CASE outcome = "cancelled" /\ loop[e] = "idle" /\ NodesOf(e) # {} /\ e \in flagged
    <3>1. PhaseOf(k) = "preparing" /\ IsTold(k)
      BY <1>3, <2>5, PhaseByLoop DEF IsTold
    <3> QED
      BY <2>1, <2>5, <3>1, LifecycleMoves
  <2>6. CASE outcome = "completed" /\ loop[e] = "closing"
    BY <1>3, <2>1, <2>6, PhaseByLoop, LifecycleMoves
  <2> QED
    BY <2>3, <2>4, <2>5, <2>6
<1> QED
  BY <1>2, <1>3

\* A loop that has not turned yet has no error, no signal and nothing in flight.
LEMMA IdleIsFresh ==
  ASSUME IInv, NEW e \in Executions, loop[e] = "idle"
  PROVE  firstError[e] = "none" /\ e \notin aborted /\ InFlight(e) = {}
BY DEF IInv, LoopMatchesNodes, ErrorsKept, Pending, InFlight, InFlightStates

LEMMA TurnLifecycle ==
  ASSUME IInv, NEW e \in Executions, Turn(e), NEW k \in Executions
  PROVE  Lifecycle!ExecutionStep(k)
<1>1. TypeOK /\ ErrorsKept
  BY DEF IInv
<1>2. /\ Resumes(e) /\ flagged' = flagged
      /\ loop[e] \in {"racing", "throttled"} => PhaseOf(e) = "working"
      /\ loop[e] \in {"idle", "racing", "throttled"}
  BY PhaseByLoop DEF Turn, Leave, Break, StartReady, Resumes
<1>3. CASE Leave(e)
  <2>1. PhaseOf(e) = "working"
    <3>1. CASE loop[e] = "idle"
      <4>1. NodesOf(e) = {}
        BY <1>3, <3>1 DEF Leave, AllDone, IInv, LoopMatchesNodes
      <4> QED
        BY <3>1, <4>1, PhaseByLoop
    <3> QED
      BY <1>2, <3>1
  <2>2. CASE firstError[e] # "none"
    <3>1. firstError[e] \in {"failed", "cancelled"} /\ End(e, firstError[e])
      BY <1>1, <1>3, <2>2 DEF Leave, TypeOK
    <3> QED
      BY <1>2, <2>1, <3>1, EndLifecycle
  <2>3. CASE firstError[e] = "none"
    <3>1. loop' = [loop EXCEPT ![e] = "closing"] /\ row' = row
      BY <1>3, <2>3 DEF Leave
    <3>2. CASE k # e
      BY <1>1, <1>2, <3>1, <3>2, Untouched DEF TypeOK
    <3>3. CASE k = e
      <4>1. PhaseOf(k)' = "closing"
        BY <1>1, <3>1, <3>3, PhaseByLoop DEF TypeOK
      <4>2. IsTold(k)' <=> IsTold(k)
        BY <1>1, <1>2, <3>1, <3>3 DEF IsTold, TypeOK
      <4> QED
        BY <2>1, <3>3, <4>1, <4>2, LifecycleMoves
    <3> QED
      BY <3>2, <3>3
  <2> QED
    BY <2>2, <2>3
<1>4. CASE Break(e)
  <2> DEFINE error == IF firstError[e] = "none" THEN "cancelled" ELSE firstError[e]
  <2>1. error \in {"failed", "cancelled"} /\ Drain(e, error) /\ ~AllDone(e) /\ MustStop(e)
    BY <1>1, <1>4 DEF Break, TypeOK
  <2>2. loop[e] = "idle" => error = "cancelled" /\ NodesOf(e) # {} /\ e \in flagged
    BY <2>1, IdleIsFresh, NodeSets DEF MustStop, AllDone
  <2> HIDE DEF error
  <2>3. CASE InFlight(e) = {}
    BY <1>2, <2>1, <2>2, <2>3, EndLifecycle DEF Drain
  <2>4. CASE InFlight(e) # {}
    <3>1. loop' = [loop EXCEPT ![e] = "draining"] /\ row' = row /\ PhaseOf(e) = "working"
      BY <1>2, <2>1, <2>4, IdleIsFresh DEF Drain
    <3>2. CASE k # e
      BY <1>1, <1>2, <3>1, <3>2, Untouched DEF TypeOK
    <3>3. CASE k = e
      <4>1. PhaseOf(k)' = PhaseOf(k)
        BY <1>1, <3>1, <3>3, PhaseByLoop DEF TypeOK
      <4>2. IsTold(k)' <=> IsTold(k)
        BY <1>1, <1>2, <3>1, <3>3 DEF IsTold, TypeOK
      <4> QED
        BY <4>1, <4>2, LifecycleMoves
    <3> QED
      BY <3>2, <3>3
  <2> QED
    BY <2>3, <2>4
<1>5. CASE StartReady(e)
  <2>1. e \notin flagged /\ firstError[e] = "none" /\ ~AllDone(e)
    BY <1>5 DEF StartReady, MustStop
  <2>2. PICK S \in SUBSET Ready(e) :
          IF InFlight(e) \union S # {}
          THEN loop' = [loop EXCEPT ![e] = "racing"] /\ row' = row
          ELSE IF Ready(e) # {}
          THEN loop' = [loop EXCEPT ![e] = "throttled"] /\ row' = row
          ELSE End(e, "failed")
    BY <1>5 DEF StartReady
  <2>3. ~(InFlight(e) \union S = {} /\ Ready(e) = {})
    BY <2>1, SomeNodeIsReady DEF AllDone
  <2>4. /\ loop' = [loop EXCEPT ![e] = IF InFlight(e) \union S # {} THEN "racing" ELSE "throttled"]
        /\ row' = row
    BY <2>2, <2>3
  <2>5. CASE k # e
    BY <1>1, <1>2, <2>4, <2>5, Untouched DEF TypeOK
  <2>6. CASE k = e
    <3>1. PhaseOf(k)' = "working"
      BY <1>1, <2>4, <2>6, PhaseByLoop DEF TypeOK
    <3>2. ~IsTold(k) /\ ~IsTold(k)'
      BY <1>2, <2>1, <2>6 DEF IsTold
    <3>3. PhaseOf(k) \in {"preparing", "working"}
      BY <1>2, <2>6, PhaseByLoop
    <3> QED
      BY <3>1, <3>2, <3>3, LifecycleMoves
  <2> QED
    BY <2>5, <2>6
<1> QED
  BY <1>3, <1>4, <1>5 DEF Turn

\* What follows the turns, and a request to cancel.
LEMMA AfterwardsLifecycle ==
  ASSUME IInv, NEW e \in Executions,
         DrainEnds(e) \/ DrainTimesOut(e) \/ ClosingEnds(e) \/ Cancel(e),
         NEW k \in Executions
  PROVE  Lifecycle!ExecutionStep(k)
<1>1. TypeOK /\ LoopMatchesNodes
  BY DEF IInv
<1>2. CASE DrainEnds(e) \/ DrainTimesOut(e)
  <2>1. /\ loop[e] = "draining" /\ End(e, firstError[e]) /\ flagged' = flagged
        /\ firstError[e] \in {"failed", "cancelled"}
    BY <1>1, <1>2 DEF DrainEnds, DrainTimesOut, TypeOK, LoopMatchesNodes
  <2>2. PhaseOf(e) = "working"
    BY <2>1, PhaseByLoop
  <2> QED
    BY <2>1, <2>2, EndLifecycle
<1>3. CASE ClosingEnds(e)
  BY <1>3, EndLifecycle DEF ClosingEnds
<1>4. CASE Cancel(e)
  <2>1. /\ loop' = loop /\ row' = row /\ flagged' = flagged \union {e} /\ loop[e] # "ended"
    BY <1>4 DEF Cancel
  <2>2. CASE k # e
    BY <2>1, <2>2, Untouched
  <2>3. CASE k = e
    <3>1. PhaseOf(k)' = PhaseOf(k)
      BY <2>1 DEF PhaseOf, NodesOf
    <3>2. IsTold(k)'
      BY <2>1, <2>3 DEF IsTold
    <3>3. PhaseOf(k) \in {"preparing", "working", "closing"}
      BY <1>1, <2>1, <2>3, PhaseByLoop DEF TypeOK, Suspensions
    <3> QED
      BY <3>1, <3>2, <3>3, LifecycleMoves
  <2> QED
    BY <2>2, <2>3
<1> QED
  BY <1>2, <1>3, <1>4

LEMMA StepLifecycle ==
  ASSUME IInv, [Next]_vars
  PROVE  [Lifecycle!Next]_Lifecycle!vars
<1>1. ASSUME NEW k \in Executions
      PROVE  Lifecycle!ExecutionStep(k)
  <2>1. CASE \E e \in Executions : Turn(e)
    BY <2>1, TurnLifecycle
  <2>2. CASE \E e \in Executions :
               DrainEnds(e) \/ DrainTimesOut(e) \/ ClosingEnds(e) \/ Cancel(e)
    BY <2>2, AfterwardsLifecycle
  <2>3. CASE (\E n \in Nodes : NodeStep(n)) \/ UNCHANGED vars
    <3>1. loop' = loop /\ row' = row /\ flagged' = flagged
      BY <2>3 DEF NodeStep, SaveBegins, SaveEnds, NodeCompletes, NodeFails, Gone, vars
    <3> QED
      BY <3>1, Untouched
  <2> QED
    BY <2>1, <2>2, <2>3 DEF Next
<1>2. TypeOK'
  BY StepKeeps DEF IInv
<1>3. ASSUME NEW k \in Executions
      PROVE  PhaseOf(k)' \in Lifecycle!Phases
  <2>1. row'[k] = "running" <=> loop'[k] # "ended"
    BY StepKeeps DEF IInv, LoopMatchesNodes
  <2> QED
    BY <1>2, <2>1, PhaseByLoop
       DEF TypeOK, Suspensions, Lifecycle!Phases, Lifecycle!InHand, Lifecycle!Ended
<1>4. \A k \in Executions : IsTold(k)' \in BOOLEAN
  BY DEF IsTold
<1> QED
  BY <1>1, <1>3, <1>4 DEF Lifecycle!Next

\* Whatever its nodes do, a cancelled, failed, drained or completed execution goes
\* through its phases as ExecutionLifecycle has them, from where it is taken up.
THEOREM Refinement == Spec => ImplementsLifecycle
<1>1. Init => Lifecycle!InitTakenUp
  BY DEF Init, Lifecycle!InitTakenUp, PhaseOf, IsTold
<1>2. IInv /\ [Next]_vars => [Lifecycle!Next]_Lifecycle!vars
  BY StepLifecycle
<1> QED
  BY <1>1, <1>2, Invariance, PTL DEF Spec, ImplementsLifecycle, Lifecycle!SpecTakenUp
============================================================================
