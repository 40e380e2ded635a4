--------------------- MODULE LlmRequestSchedulerProofs ---------------------
(***************************************************************************)
(* Proofs about the slots of a connection, for any number of requests and  *)
(* any limits.                                                             *)
(***************************************************************************)
EXTENDS LlmRequestScheduler, FiniteSetTheorems, FunctionTheorems, SequenceTheorems,
  WellFoundedInduction, TLAPS

----------------------------------------------------------------------------
(* Sequences.                                                              *)

\* What is left of a sequence without its first n entries.
LEMMA Suffix ==
  ASSUME NEW S, NEW w \in Seq(S), NEW n \in 0..Len(w)
  PROVE  LET v == SubSeq(w, n + 1, Len(w))
         IN  /\ v \in Seq(S) /\ Len(v) = Len(w) - n
             /\ \A i \in 1..Len(v) : v[i] = w[i + n]
<1>1. \A i \in (n + 1)..Len(w) : w[i] \in S
  OBVIOUS
<1> QED
  BY <1>1, SubSeqProperties

\* A sequence without its i-th entry.
LEMMA RemovedProperties ==
  ASSUME NEW S, NEW w \in Seq(S), NEW i \in 1..Len(w)
  PROVE  /\ Removed(w, i) \in Seq(S)
         /\ Len(Removed(w, i)) = Len(w) - 1
         /\ \A k \in 1..(Len(w) - 1) : Removed(w, i)[k] = IF k < i THEN w[k] ELSE w[k + 1]
<1> DEFINE l == SubSeq(w, 1, i - 1)
           r == SubSeq(w, i + 1, Len(w))
<1>1. /\ l \in Seq(S) /\ Len(l) = i - 1
      /\ \A k \in 1..(i - 1) : l[k] = w[k]
  BY SubSeqProperties
<1>2. /\ r \in Seq(S) /\ Len(r) = Len(w) - i
      /\ \A k \in 1..(Len(w) - i) : r[k] = w[k + i]
  BY SubSeqProperties
<1>3. Removed(w, i) = l \o r
  BY DEF Removed
<1> HIDE DEF l, r
<1>4. /\ l \o r \in Seq(S) /\ Len(l \o r) = Len(l) + Len(r)
      /\ \A k \in 1..(Len(l) + Len(r)) : (l \o r)[k] = IF k <= Len(l) THEN l[k] ELSE r[k - Len(l)]
  BY <1>1, <1>2, ConcatProperties
<1>5. Len(w) \in Nat /\ Len(l) + Len(r) = Len(w) - 1
  BY <1>1, <1>2
<1>6. ASSUME NEW k \in 1..(Len(w) - 1)
      PROVE  (l \o r)[k] = IF k < i THEN w[k] ELSE w[k + 1]
  <2>1. CASE k < i
    BY <2>1, <1>1, <1>4, <1>5
  <2>2. CASE ~(k < i)
    <3>1. (l \o r)[k] = r[k - (i - 1)] /\ k - (i - 1) \in 1..(Len(w) - i)
      BY <2>2, <1>1, <1>4, <1>5
    <3>2. r[k - (i - 1)] = w[(k - (i - 1)) + i]
      BY <3>1, <1>2
    <3> QED
      BY <3>1, <3>2, <2>2
  <2> QED
    BY <2>1, <2>2
<1> QED
  BY <1>3, <1>4, <1>5, <1>6

\* A sequence with e before its i-th entry.
LEMMA InsertedProperties ==
  ASSUME NEW S, NEW w \in Seq(S), NEW i \in 1..Len(w), NEW e \in S
  PROVE  /\ InsertedBefore(w, i, e) \in Seq(S)
         /\ Len(InsertedBefore(w, i, e)) = Len(w) + 1
         /\ \A k \in 1..(Len(w) + 1) :
              InsertedBefore(w, i, e)[k] = IF k < i THEN w[k] ELSE IF k = i THEN e ELSE w[k - 1]
<1> DEFINE l == SubSeq(w, 1, i - 1)
           r == SubSeq(w, i, Len(w))
<1>1. /\ l \in Seq(S) /\ Len(l) = i - 1
      /\ \A k \in 1..(i - 1) : l[k] = w[k]
  BY SubSeqProperties
<1>2. /\ r \in Seq(S) /\ Len(r) = Len(w) - i + 1
      /\ \A k \in 1..(Len(w) - i + 1) : r[k] = w[k + i - 1]
  BY SubSeqProperties
<1>3. InsertedBefore(w, i, e) = (l \o <<e>>) \o r
  BY DEF InsertedBefore
<1> HIDE DEF l, r
<1>4. /\ <<e>> \in Seq(S) /\ Len(<<e>>) = 1 /\ <<e>>[1] = e
  OBVIOUS
<1> DEFINE m == l \o <<e>>
<1>5. /\ m \in Seq(S) /\ Len(m) = i
      /\ \A k \in 1..i : m[k] = IF k <= i - 1 THEN l[k] ELSE e
  BY <1>1, <1>4, ConcatProperties
<1> HIDE DEF m
<1>6. /\ m \o r \in Seq(S) /\ Len(m \o r) = Len(m) + Len(r)
      /\ \A k \in 1..(Len(m) + Len(r)) : (m \o r)[k] = IF k <= Len(m) THEN m[k] ELSE r[k - Len(m)]
  BY <1>2, <1>5, ConcatProperties
<1>8. Len(w) \in Nat /\ Len(m) + Len(r) = Len(w) + 1
  BY <1>2, <1>5
<1>9. ASSUME NEW k \in 1..(Len(w) + 1)
      PROVE  (m \o r)[k] = IF k < i THEN w[k] ELSE IF k = i THEN e ELSE w[k - 1]
  <2>1. CASE k <= i
    <3>1. (m \o r)[k] = IF k <= i - 1 THEN l[k] ELSE e
      BY <2>1, <1>5, <1>6, <1>8
    <3>2. CASE k < i
      BY <3>1, <3>2, <1>1
    <3>3. CASE k = i
      BY <3>1, <3>3
    <3> QED
      BY <1>8, <2>1, <3>2, <3>3
  <2>2. CASE ~(k <= i)
    <3>1. (m \o r)[k] = r[k - i] /\ k - i \in 1..(Len(w) - i + 1)
      BY <2>2, <1>5, <1>6, <1>8
    <3>2. r[k - i] = w[(k - i) + i - 1]
      BY <3>1, <1>2
    <3> QED
      BY <3>1, <3>2, <2>2
  <2> QED
    BY <2>1, <2>2
<1>7. InsertedBefore(w, i, e) = m \o r
  BY <1>3 DEF m
<1> QED
  BY <1>6, <1>7, <1>8, <1>9

\* Distinct entries of a prefix are as many as its length.
LEMMA PrefixCardinality ==
  ASSUME NEW S, NEW w \in Seq(S), NEW n \in 0..Len(w),
         \A i, k \in 1..n : i # k => w[i] # w[k]
  PROVE  LET T == {w[i] : i \in 1..n}
         IN IsFiniteSet(T) /\ Cardinality(T) = n
<1> DEFINE T == {w[i] : i \in 1..n}
           f == [i \in 1..n |-> w[i]]
<1>1. f \in [1..n -> T] /\ \A i, k \in 1..n : f[i] = f[k] => i = k
  OBVIOUS
<1>2. \A t \in T : \E i \in 1..n : f[i] = t
  OBVIOUS
<1>3. f \in Bijection(1..n, T)
  BY <1>1, <1>2, Fun_IsBij
<1>4. ExistsBijection(1..n, T)
  BY <1>3 DEF ExistsBijection
<1>5. IsFiniteSet(1..n) /\ Cardinality(1..n) = n
  BY FS_Interval
<1> QED
  BY <1>4, <1>5, FS_Bijection

\* A nonempty set of natural numbers has a least element.
LEMMA Least ==
  ASSUME NEW T \in SUBSET Nat, T # {}
  PROVE  \E m \in T : \A k \in T : m <= k
<1>1. PICK m \in T : \A k \in T : ~(<<k, m>> \in OpToRel(<, Nat))
  BY NatLessThanWellFounded, WFMin
<1>2. \A k \in T : ~(k < m)
  BY <1>1, Zenon DEF OpToRel
<1> QED
  BY <1>2

----------------------------------------------------------------------------
(* What a drain starts from, and what it leaves.                           *)

AheadNext(s, r) ==
  IF s \in background' <=> r \in background' THEN s < r ELSE r \in background'

\* An event has put the queue w, the count a and the phases ph of the map's pool q
\* in order, except that the head of w may have a slot to take.
Ready(q, a, w, ph) ==
  /\ q \in Requests
  /\ w \in Seq(Requests)
  /\ ph \in [Requests -> Phases]
  /\ arrived' \in 0..NumRequests
  /\ limit' \in [Requests -> Nat \ {0}]
  /\ background' \subseteq Requests
  /\ poolOf' \in [Requests -> Pools]
  /\ active \in [Requests -> Int]
  /\ waiting \in [Requests -> Seq(Requests)]
  /\ a = Cardinality({r \in Requests : ph[r] = "granted" /\ poolOf'[r] = q})
  /\ \A p \in Requests \ {q} :
       active[p] = Cardinality({r \in Requests : ph[r] = "granted" /\ poolOf'[r] = p})
  /\ \A p \in Requests \ {q} : waiting[p] = <<>>
  /\ \A i, k \in 1..Len(w) : i < k => AheadNext(w[i], w[k])
  /\ \A i \in 1..Len(w) : ph[w[i]] = "waiting"
  /\ \A r \in Requests : ph[r] = "waiting" => \E i \in 1..Len(w) : w[i] = r
  /\ \A r \in Requests : ph[r] \in {"waiting", "granted"} => poolOf'[r] = q
  /\ \A r \in Requests : r > arrived' => ph[r] = "new" /\ r \notin background'

\* The requests granted in pool p are finitely many.
LEMMA GrantedFinite ==
  ASSUME NEW G \in SUBSET Requests
  PROVE  IsFiniteSet(G) /\ Cardinality(G) \in Nat
<1>1. IsFiniteSet(Requests)
  BY NumRequestsAssumption, FS_Interval DEF Requests
<1> QED
  BY <1>1, FS_Subset, FS_CardinalityType

LEMMA DrainKeeps ==
  ASSUME NEW q, NEW a, NEW w, NEW ph, Ready(q, a, w, ph), Drain(q, q, a, w, ph)
  PROVE  IInv'
<1> DEFINE Rest(n) == SubSeq(w, n + 1, Len(w))
<1>1. PICK n \in 0..Len(w) :
        /\ \A i \in 1..n : a + i - 1 < limit'[w[i]]
        /\ n < Len(w) => a + n >= limit'[w[n + 1]]
        /\ phase' = [r \in Requests |-> IF \E i \in 1..n : w[i] = r THEN "granted" ELSE ph[r]]
        /\ active' = [active EXCEPT ![q] = a + n]
        /\ waiting' = [waiting EXCEPT ![q] = Rest(n)]
        /\ pool' = EntryAfter(q, q, a + n, Rest(n))
  BY DEF Drain
<1>types. /\ q \in Requests
          /\ w \in Seq(Requests)
          /\ ph \in [Requests -> Phases]
          /\ active \in [Requests -> Int]
          /\ waiting \in [Requests -> Seq(Requests)]
  BY DEF Ready
<1>next. /\ arrived' \in 0..NumRequests
         /\ limit' \in [Requests -> Nat \ {0}]
         /\ background' \subseteq Requests
         /\ poolOf' \in [Requests -> Pools]
         /\ \A r \in Requests : r > arrived' => ph[r] = "new" /\ r \notin background'
  BY DEF Ready
<1>count. /\ a = Cardinality({r \in Requests : ph[r] = "granted" /\ poolOf'[r] = q})
          /\ \A p \in Requests \ {q} :
               active[p] = Cardinality({r \in Requests : ph[r] = "granted" /\ poolOf'[r] = p})
  BY DEF Ready
<1>queue. /\ \A i, k \in 1..Len(w) : i < k => AheadNext(w[i], w[k])
          /\ \A i \in 1..Len(w) : ph[w[i]] = "waiting"
          /\ \A r \in Requests : ph[r] = "waiting" => \E i \in 1..Len(w) : w[i] = r
  BY DEF Ready
<1>one. /\ \A p \in Requests \ {q} : waiting[p] = <<>>
        /\ \A r \in Requests : ph[r] \in {"waiting", "granted"} => poolOf'[r] = q
  BY DEF Ready
<1> DEFINE v == Rest(n)
           T == {w[i] : i \in 1..n}
           H == {r \in Requests : ph[r] = "granted" /\ poolOf'[r] = q}
           G(p) == {r \in Requests : phase'[r] = "granted" /\ poolOf'[r] = p}
<1>2. /\ v \in Seq(Requests) /\ Len(v) = Len(w) - n
      /\ \A i \in 1..Len(v) : v[i] = w[i + n]
  BY <1>types, Suffix
<1>3. /\ waiting' = [waiting EXCEPT ![q] = v]
      /\ pool' = EntryAfter(q, q, a + n, v)
  BY <1>1
<1> HIDE DEF v
<1>4. Len(w) \in Nat /\ n \in Nat /\ \A i \in 1..Len(w) : w[i] \in Requests
  BY <1>types
<1>5. /\ T \subseteq Requests /\ H \subseteq Requests /\ T \cap H = {}
      /\ \A r \in Requests : phase'[r] = IF r \in T THEN "granted" ELSE ph[r]
      /\ phase' \in [Requests -> Phases]
  <2>1. T \subseteq Requests /\ \A r : r \in T <=> \E i \in 1..n : w[i] = r
    BY <1>4
  <2>2. \A r \in Requests : phase'[r] = IF r \in T THEN "granted" ELSE ph[r]
    BY <1>1, <2>1
  <2>3. phase' \in [Requests -> Phases]
    BY <1>1, <1>types DEF Phases
  <2>4. T \cap H = {}
    <3>1. ASSUME NEW r \in T
          PROVE  ph[r] = "waiting"
      BY <2>1, <1>4, <1>queue
    <3> QED
      BY <3>1
  <2> QED
    BY <2>1, <2>2, <2>3, <2>4
<1>6. \A i, k \in 1..Len(w) : i # k => w[i] # w[k]
  <2>1. ASSUME NEW i \in 1..Len(w), NEW k \in 1..Len(w), i < k
        PROVE  w[i] # w[k]
    <3>1. AheadNext(w[i], w[k]) /\ w[i] \in Requests
      BY <2>1, <1>4, <1>queue
    <3> QED
      BY <3>1 DEF AheadNext, Requests
  <2> QED
    BY <2>1, <1>4
<1>7. IsFiniteSet(T) /\ Cardinality(T) = n
  <2>1. \A i, k \in 1..n : i # k => w[i] # w[k]
    BY <1>4, <1>6
  <2> QED
    BY <2>1, <1>types, PrefixCardinality, Zenon
<1>8. /\ G(q) = T \union H
      /\ \A p \in Requests \ {q} : G(p) = {r \in Requests : ph[r] = "granted" /\ poolOf'[r] = p}
  BY <1>4, <1>5, <1>one, <1>queue
<1>9. Cardinality(T \union H) = a + n
  <2>1. IsFiniteSet(H) /\ Cardinality(H) = a /\ a \in Nat
    BY <1>5, <1>count, GrantedFinite
  <2> HIDE DEF T, H
  <2> QED
    <3>1. Cardinality(T \union H) = Cardinality(T) + Cardinality(H) - Cardinality(T \cap H)
      BY <2>1, <1>7, FS_Union
    <3>2. Cardinality(T \cap H) = 0
      BY <1>5, FS_EmptySet
    <3> QED
      BY <3>1, <3>2, <2>1, <1>7, <1>4
<1>10. a + n \in Nat
  BY <1>4, <1>9, <1>8, GrantedFinite
<1> HIDE DEF T, H
<1>11. TypeOK'
  <2>1. active' \in [Requests -> Int] /\ waiting' \in [Requests -> Seq(Requests)]
    BY <1>1, <1>2, <1>3, <1>10, <1>types
  <2>2. pool' \in Pools
    BY <1>3, <1>types DEF EntryAfter, Pools
  <2> QED
    BY <2>1, <2>2, <1>5, <1>next DEF TypeOK
<1>12. CountIsExact'
  <2>1. \A p \in Requests : active'[p] = Cardinality(G(p))
    <3>1. active'[q] = Cardinality(G(q))
      BY <1>1, <1>8, <1>9, <1>types
    <3>2. ASSUME NEW p \in Requests, p # q
          PROVE  active'[p] = Cardinality(G(p))
      <4>1. active'[p] = active[p]
        BY <1>1, <3>2, <1>types
      <4>2. G(p) = {r \in Requests : ph[r] = "granted" /\ poolOf'[r] = p}
        BY <1>8, <3>2
      <4> HIDE DEF G
      <4> QED
        BY <4>1, <4>2, <3>2, <1>count
    <3> HIDE DEF G
    <3> QED
      BY <3>1, <3>2
  <2>2. \A p \in Requests : G(p) = {r \in Holding' : poolOf'[r] = p}
    BY DEF Holding
  <2> QED
    BY <2>1, <2>2 DEF CountIsExact
<1>13. ASSUME NEW r \in (Waiting \union Holding)'
       PROVE  poolOf'[r] = q /\ pool' = q
  <2>1. r \in Requests /\ ph[r] \in {"waiting", "granted"}
    BY <1>5, <1>4, <1>queue DEF Waiting, Holding, T
  <2>2. CASE phase'[r] = "granted"
    <3>1. r \in G(q)
      BY <2>1, <2>2, <1>one
    <3>2. IsFiniteSet(G(q)) /\ Cardinality(G(q)) = a + n
      BY <1>8, <1>9, GrantedFinite
    <3>3. a + n # 0
      BY <3>1, <3>2, FS_EmptySet
    <3> QED
      BY <2>1, <3>3, <1>3, <1>one DEF EntryAfter
  <2>3. CASE phase'[r] = "waiting"
    <3>1. PICK i \in 1..Len(w) : w[i] = r
      BY <2>1, <2>3, <1>5, <1>queue
    <3>2. ~(i <= n)
      BY <3>1, <2>3, <1>5, <1>4 DEF T
    <3>3. v # <<>>
      BY <3>1, <3>2, <1>2, <1>4
    <3> QED
      BY <2>1, <3>3, <1>3, <1>one DEF EntryAfter
  <2> QED
    BY <2>2, <2>3 DEF Waiting, Holding
<1>14. PoolIsCurrent'
  BY <1>13, <1>types DEF PoolIsCurrent, NoPool, Requests
<1>15. NoIdleWaiter'
  <2>1. ASSUME NEW p \in Requests, waiting'[p] # <<>>
        PROVE  active'[p] >= limit'[Head(waiting'[p])]
    <3>1. p = q /\ waiting'[p] = v
      BY <2>1, <1>3, <1>one, <1>types
    <3>2. Len(v) > 0 /\ Head(v) = v[1]
      BY <2>1, <3>1, <1>2
    <3>3. Head(v) = w[n + 1] /\ n < Len(w)
      <4>1. 1 \in 1..Len(v) /\ n < Len(w)
        BY <3>2, <1>2, <1>4
      <4>2. v[1] = w[1 + n] /\ 1 + n = n + 1
        BY <4>1, <1>2, <1>4
      <4> QED
        BY <4>1, <4>2, <3>2
    <3> QED
      BY <3>1, <3>3, <1>1, <1>types
  <2> QED
    BY <2>1 DEF NoIdleWaiter
<1>16. QueueInOrder'
  <2>1. ASSUME NEW p \in Requests, p # q
        PROVE  waiting'[p] = <<>>
    BY <2>1, <1>3, <1>one, <1>types
  <2>2. waiting'[q] = v /\ DOMAIN v = 1..Len(v)
    BY <1>2, <1>3, <1>types
  <2>3. ASSUME NEW i \in 1..Len(v), NEW k \in 1..Len(v), i < k
        PROVE  AheadNext(v[i], v[k])
    <3>1. i + n \in 1..Len(w) /\ k + n \in 1..Len(w) /\ i + n < k + n
      BY <2>3, <1>2, <1>4
    <3> QED
      BY <3>1, <1>2, <1>queue
  <2>4. ASSUME NEW i \in 1..Len(v)
        PROVE  v[i] \in Waiting' /\ poolOf'[v[i]] = q
    <3>1. i + n \in 1..Len(w) /\ v[i] = w[i + n]
      BY <1>2, <1>4
    <3>2. v[i] \notin T
      BY <3>1, <1>6, <1>4 DEF T
    <3> QED
      BY <3>1, <3>2, <1>4, <1>5, <1>queue, <1>one DEF Waiting
  <2>5. ASSUME NEW r \in Waiting'
        PROVE  poolOf'[r] = q /\ \E i \in 1..Len(v) : v[i] = r
    <3>1. r \in Requests /\ phase'[r] = "waiting" /\ r \notin T /\ ph[r] = "waiting"
      BY <1>5 DEF Waiting
    <3>2. PICK i \in 1..Len(w) : w[i] = r
      BY <3>1, <1>queue
    <3>3. ~(i <= n)
      BY <3>1, <3>2, <1>4 DEF T
    <3>4. i - n \in 1..Len(v) /\ v[i - n] = w[(i - n) + n]
      BY <3>2, <3>3, <1>2, <1>4
    <3> QED
      BY <3>1, <3>2, <3>4, <1>one
  <2>6. \A i, k \in 1..Len(v) : i < k => Ahead(v[i], v[k])'
    BY <2>3 DEF Ahead, AheadNext
  <2> QED
    <3>1. ASSUME NEW p \in Requests
          PROVE  /\ \A i, k \in DOMAIN waiting'[p] :
                      i < k => Ahead(waiting[p][i], waiting[p][k])'
                 /\ \A i \in DOMAIN waiting'[p] :
                      waiting'[p][i] \in Waiting' /\ poolOf'[waiting'[p][i]] = p
      <4>1. CASE p = q
        BY <4>1, <2>2, <2>4, <2>6 DEF Ahead
      <4>2. CASE p # q
        BY <4>2, <2>1
      <4> QED
        BY <4>1, <4>2
    <3>2. \A r \in Waiting' :
            \E i \in DOMAIN waiting'[poolOf'[r]] : waiting'[poolOf'[r]][i] = r
      BY <2>2, <2>5
    <3> QED
      BY <3>1, <3>2 DEF QueueInOrder
<1>17. NotArrived'
  <2>1. ASSUME NEW r \in Requests, r > arrived'
        PROVE  phase'[r] = "new" /\ r \notin background'
    <3>1. ph[r] = "new" /\ r \notin T
      BY <2>1, <1>4, <1>next, <1>queue DEF T
    <3> QED
      BY <3>1, <2>1, <1>5, <1>next
  <2> QED
    BY <2>1 DEF NotArrived
<1> QED
  BY <1>11, <1>12, <1>14, <1>15, <1>16, <1>17 DEF IInv

----------------------------------------------------------------------------
(* Each event leaves the pool ready to be drained.                         *)

\* The map's pool has been put in order without starting a request, and drained.
DrainedFrom(q, a, w, ph) ==
  /\ Ready(q, a, w, ph)
  /\ Drain(q, q, a, w, ph)
  /\ \A r \in Requests : ph[r] = "granted" => phase[r] = "granted" /\ limit'[r] = limit[r]

\* It has been drained from the phases ph.
DrainedTo(ph) == \E q, a, w : DrainedFrom(q, a, w, ph)
Drained == \E ph : DrainedTo(ph)

\* The queue of a pool the map no longer has is empty, and every entry of a
\* queue is a waiting request that has arrived.
LEMMA QueueFacts ==
  ASSUME IInv
  PROVE  /\ \A p \in Requests : p # pool => waiting[p] = <<>>
         /\ \A p \in Requests : \A i \in 1..Len(waiting[p]) :
              waiting[p][i] \in Requests /\ waiting[p][i] <= arrived
<1> USE DEF IInv, TypeOK
<1>1. ASSUME NEW p \in Requests, NEW i \in 1..Len(waiting[p])
      PROVE  waiting[p][i] \in Waiting /\ poolOf[waiting[p][i]] = p
  BY DEF QueueInOrder
<1>2. ASSUME NEW p \in Requests, p # pool
      PROVE  waiting[p] = <<>>
  <2>1. ~(1 \in 1..Len(waiting[p]))
    BY <1>1, <1>2 DEF PoolIsCurrent
  <2>2. waiting[p] \in Seq(Requests)
    OBVIOUS
  <2> QED
    BY <2>1, <2>2
<1>3. ASSUME NEW p \in Requests, NEW i \in 1..Len(waiting[p])
      PROVE  waiting[p][i] \in Requests /\ waiting[p][i] <= arrived
  BY <1>1 DEF Waiting, NotArrived, Requests
<1> QED
  BY <1>2, <1>3

\* m is the queue w with r added, in the order of service.
IsAdded(m, w, r) ==
  /\ m \in Seq(Requests)
  /\ \A i, k \in 1..Len(m) : i < k => AheadNext(m[i], m[k])
  /\ \A i \in 1..Len(m) : m[i] = r \/ \E k \in 1..Len(w) : m[i] = w[k]
  /\ \E i \in 1..Len(m) : m[i] = r
  /\ \A k \in 1..Len(w) : \E i \in 1..Len(m) : m[i] = w[k]

\* Where a request goes when it is added to a queue.
LEMMA AddedProperties ==
  ASSUME IInv, NEW q \in Requests, NEW inBackground \in BOOLEAN, NEW r \in Requests, r = arrived + 1,
         background' = IF inBackground THEN background \union {r} ELSE background
  PROVE  IsAdded(Added(waiting[q], r, inBackground), waiting[q], r)
<1> DEFINE w == waiting[q]
           behind == {i \in DOMAIN w : w[i] \in background}
           m == Added(w, r, inBackground)
<1>1. w \in Seq(Requests) /\ Len(w) \in Nat /\ DOMAIN w = 1..Len(w)
  BY DEF IInv, TypeOK
<1>2. \A i \in 1..Len(w) : w[i] \in Requests /\ w[i] < r
  BY QueueFacts, <1>1 DEF Requests, IInv, TypeOK
<1>3. r \notin background
  BY DEF IInv, NotArrived, TypeOK, Requests
<1>4. \A i, k \in 1..Len(w) : i < k => Ahead(w[i], w[k])
  BY <1>1 DEF IInv, QueueInOrder
<1>5. \A s \in Requests : s # r => (s \in background' <=> s \in background)
  OBVIOUS
<1>6. r \in background' <=> inBackground
  BY <1>3
<1> HIDE DEF w
<1>7. \A i, k \in 1..Len(w) : i < k => AheadNext(w[i], w[k])
  BY <1>2, <1>4, <1>5 DEF Ahead, AheadNext, Requests
<1>8. CASE inBackground \/ behind = {}
  <2>1. m = Append(w, r)
    BY <1>8 DEF Added
  <2>2. /\ Append(w, r) \in Seq(Requests) /\ Len(Append(w, r)) = Len(w) + 1
        /\ \A i \in 1..Len(w) : Append(w, r)[i] = w[i]
        /\ Append(w, r)[Len(w) + 1] = r
    BY <1>1, AppendProperties
  <2>3. \A i \in 1..Len(w) : AheadNext(w[i], r)
    BY <1>1, <1>2, <1>5, <1>6, <1>8 DEF AheadNext, Requests
  <2> HIDE DEF m
  <2>4. ASSUME NEW i \in 1..Len(m), NEW k \in 1..Len(m), i < k
        PROVE  AheadNext(m[i], m[k])
    <3>1. i \in 1..Len(w) /\ m[i] = w[i]
      BY <2>1, <2>2, <2>4, <1>1
    <3>2. CASE k \in 1..Len(w)
      BY <3>1, <3>2, <2>1, <2>2, <2>4, <1>7
    <3>3. CASE k = Len(w) + 1
      BY <3>1, <3>3, <2>1, <2>2, <2>3
    <3> QED
      BY <3>2, <3>3, <2>1, <2>2, <1>1
  <2>5. /\ \A i \in 1..Len(m) : m[i] = r \/ \E k \in 1..Len(w) : m[i] = w[k]
        /\ m[Len(w) + 1] = r /\ Len(w) + 1 \in 1..Len(m)
        /\ \A k \in 1..Len(w) : k \in 1..Len(m) /\ m[k] = w[k]
    BY <2>1, <2>2, <1>1
  <2>6. m \in Seq(Requests)
    BY <2>1, <2>2
  <2> QED
    BY <2>4, <2>5, <2>6 DEF IsAdded, w, m
<1>9. CASE ~inBackground /\ behind # {}
  <2> DEFINE f == CHOOSE i \in behind : \A k \in behind : i <= k
  <2>1. f \in 1..Len(w) /\ w[f] \in background /\ \A k \in behind : f <= k
    <3>1. behind \in SUBSET Nat
      BY <1>1
    <3>2. \E i \in behind : \A k \in behind : i <= k
      BY <3>1, <1>9, Least
    <3>3. f \in behind /\ \A k \in behind : f <= k
      BY <3>2
    <3> QED
      BY <3>3, <1>1
  <2>2. m = InsertedBefore(w, f, r)
    BY <1>9 DEF Added
  <2> HIDE DEF f, m
  <2>3. /\ m \in Seq(Requests) /\ Len(m) = Len(w) + 1
        /\ \A k \in 1..(Len(w) + 1) :
             m[k] = IF k < f THEN w[k] ELSE IF k = f THEN r ELSE w[k - 1]
    <3>1. w \in Seq(Requests) /\ f \in 1..Len(w) /\ r \in Requests
      BY <1>1, <2>1
    <3> HIDE DEF w
    <3>2. /\ InsertedBefore(w, f, r) \in Seq(Requests)
          /\ Len(InsertedBefore(w, f, r)) = Len(w) + 1
          /\ \A k \in 1..(Len(w) + 1) :
               InsertedBefore(w, f, r)[k] = IF k < f THEN w[k] ELSE IF k = f THEN r ELSE w[k - 1]
      BY <3>1, InsertedProperties
    <3> QED
      BY <3>2, <2>2
  <2>4. \A i \in 1..Len(w) : i < f => w[i] \notin background
    BY <2>1, <1>1
  <2>5. \A i \in 1..Len(w) : f <= i => w[i] \in background
    BY <2>1, <1>1, <1>4 DEF Ahead
  <2>6. \A i \in 1..Len(w) : i < f => AheadNext(w[i], r)
    BY <2>4, <1>2, <1>5, <1>6, <1>9 DEF AheadNext, Requests
  <2>7. \A i \in 1..Len(w) : f <= i => AheadNext(r, w[i])
    BY <2>5, <1>2, <1>5, <1>6, <1>9 DEF AheadNext, Requests
  <2>8. ASSUME NEW i \in 1..Len(m), NEW k \in 1..Len(m), i < k
        PROVE  AheadNext(m[i], m[k])
    <3>1. i \in 1..(Len(w) + 1) /\ k \in 1..(Len(w) + 1)
      BY <2>3
    <3>2. CASE i < f
      <4>1. m[i] = w[i] /\ i \in 1..Len(w)
        BY <3>1, <3>2, <2>1, <2>3, <1>1
      <4>2. CASE k < f
        BY <4>1, <4>2, <3>1, <2>3, <2>1, <2>8, <1>7, <1>1
      <4>3. CASE k = f
        BY <4>1, <4>3, <3>1, <3>2, <2>3, <2>6
      <4>4. CASE k > f
        <5>1. m[k] = w[k - 1] /\ k - 1 \in 1..Len(w) /\ i < k - 1
          BY <4>4, <3>1, <3>2, <2>1, <2>3, <1>1
        <5> QED
          BY <4>1, <5>1, <1>7
      <4> QED
        BY <4>2, <4>3, <4>4, <3>1, <2>1
    <3>3. CASE i = f
      <4>1. m[i] = r /\ m[k] = w[k - 1] /\ k - 1 \in 1..Len(w) /\ f <= k - 1
        BY <3>1, <3>3, <2>1, <2>3, <2>8, <1>1
      <4> QED
        BY <4>1, <2>7
    <3>4. CASE i > f
      <4>1. /\ m[i] = w[i - 1] /\ m[k] = w[k - 1]
            /\ i - 1 \in 1..Len(w) /\ k - 1 \in 1..Len(w) /\ i - 1 < k - 1
        BY <3>1, <3>4, <2>1, <2>3, <2>8, <1>1
      <4> QED
        BY <4>1, <1>7
    <3> QED
      BY <3>2, <3>3, <3>4, <3>1, <2>1
  <2>9. \A i \in 1..Len(m) : m[i] = r \/ \E k \in 1..Len(w) : m[i] = w[k]
    <3>1. ASSUME NEW i \in 1..Len(m)
          PROVE  m[i] = r \/ \E k \in 1..Len(w) : m[i] = w[k]
      <4>1. CASE i < f
        BY <4>1, <2>1, <2>3, <1>1
      <4>2. CASE i = f
        BY <4>2, <2>3
      <4>3. CASE i > f
        <5>1. m[i] = w[i - 1] /\ i - 1 \in 1..Len(w)
          BY <4>3, <2>1, <2>3, <1>1
        <5> QED
          BY <5>1
      <4> QED
        BY <4>1, <4>2, <4>3, <2>1
    <3> QED
      BY <3>1
  <2>10. m[f] = r /\ f \in 1..Len(m)
    BY <2>1, <2>3, <1>1
  <2>11. ASSUME NEW k \in 1..Len(w)
         PROVE  \E i \in 1..Len(m) : m[i] = w[k]
    <3>1. CASE k < f
      BY <3>1, <2>3, <1>1
    <3>2. CASE ~(k < f)
      <4>1. k + 1 \in 1..Len(m) /\ m[k + 1] = w[(k + 1) - 1]
        BY <3>2, <2>1, <2>3, <1>1
      <4> QED
        BY <4>1
    <3> QED
      BY <3>1, <3>2
  <2> QED
    BY <2>3, <2>8, <2>9, <2>10, <2>11 DEF IsAdded, w, m
<1> QED
  BY <1>8, <1>9

LEMMA AcquireDrains ==
  ASSUME IInv, NEW concurrency \in Concurrencies, NEW inBackground \in BOOLEAN,
         Acquire(concurrency, inBackground)
  PROVE  DrainedTo([phase EXCEPT ![arrived + 1] = "waiting"])
<1> DEFINE r == arrived + 1
           q == IF pool = NoPool THEN r ELSE pool
           ph == [phase EXCEPT ![r] = "waiting"]
           m == Added(waiting[q], r, inBackground)
<1>1. /\ r \in Requests
      /\ arrived' = r
      /\ limit' = [limit EXCEPT ![r] = AtLeastOne(concurrency)]
      /\ background' = IF inBackground THEN background \union {r} ELSE background
      /\ poolOf' = [poolOf EXCEPT ![r] = q]
      /\ Drain(q, q, active[q], m, ph)
  BY DEF Acquire
<1>2. TypeOK
  BY DEF IInv
<1>3. q \in Requests
  BY <1>1, <1>2 DEF TypeOK, Pools
<1>4. phase[r] = "new" /\ r \notin background
  BY <1>1, <1>2 DEF IInv, NotArrived, TypeOK, Requests
<1>5. /\ m \in Seq(Requests)
      /\ \A i, k \in 1..Len(m) : i < k => AheadNext(m[i], m[k])
      /\ \A i \in 1..Len(m) : m[i] = r \/ \E k \in 1..Len(waiting[q]) : m[i] = waiting[q][k]
      /\ \E i \in 1..Len(m) : m[i] = r
      /\ \A k \in 1..Len(waiting[q]) : \E i \in 1..Len(m) : m[i] = waiting[q][k]
  <2>1. r = arrived + 1 /\ r \in Requests /\ q \in Requests
    BY <1>1, <1>3
  <2>2. background' = IF inBackground THEN background \union {r} ELSE background
    BY <1>1
  <2> HIDE DEF q, r
  <2>3. IsAdded(m, waiting[q], r)
    BY <2>1, <2>2, AddedProperties, Zenon
  <2> QED
    BY <2>3 DEF IsAdded
<1> HIDE DEF m
<1>6. /\ ph \in [Requests -> Phases]
      /\ \A s \in Requests : ph[s] = IF s = r THEN "waiting" ELSE phase[s]
      /\ \A s \in Requests : poolOf'[s] = IF s = r THEN q ELSE poolOf[s]
  BY <1>1, <1>2 DEF TypeOK, Phases
<1>7. \A s \in Requests : phase[s] \in {"waiting", "granted"} => poolOf[s] = q /\ pool = q
  BY DEF IInv, PoolIsCurrent, Waiting, Holding
<1>8. /\ DOMAIN waiting[q] = 1..Len(waiting[q])
      /\ \A i \in 1..Len(waiting[q]) : waiting[q][i] \in Waiting
      /\ \A s \in Waiting : \E i \in 1..Len(waiting[q]) : waiting[q][i] = s
  <2>1. DOMAIN waiting[q] = 1..Len(waiting[q])
    BY <1>2, <1>3 DEF TypeOK
  <2>2. \A s \in Waiting : poolOf[s] = q
    BY <1>7 DEF Waiting
  <2> HIDE DEF q, r
  <2> QED
    BY <2>1, <2>2, <1>3 DEF IInv, QueueInOrder
<1>9. \A p \in Requests \ {q} : waiting[p] = <<>>
  BY <1>1, <1>2, QueueFacts DEF NoPool, Requests
<1>10. ASSUME NEW p \in Requests
       PROVE  active[p] = Cardinality({s \in Requests : ph[s] = "granted" /\ poolOf'[s] = p})
  <2>1. {s \in Requests : ph[s] = "granted" /\ poolOf'[s] = p} = {s \in Holding : poolOf[s] = p}
    BY <1>4, <1>6 DEF Holding
  <2> QED
    BY <2>1 DEF IInv, CountIsExact
<1> HIDE DEF q, ph
<1>11. limit' \in [Requests -> Nat \ {0}]
  BY <1>1, <1>2, ConcurrenciesAssumption DEF TypeOK, AtLeastOne
<1>12. /\ arrived' \in 0..NumRequests /\ background' \subseteq Requests
       /\ poolOf' \in [Requests -> Pools]
       /\ active \in [Requests -> Int] /\ waiting \in [Requests -> Seq(Requests)]
  BY <1>1, <1>2, <1>3 DEF TypeOK, Requests, Pools
<1>13. \A s \in Requests : s > arrived' => ph[s] = "new" /\ s \notin background'
  BY <1>1, <1>2, <1>6 DEF IInv, NotArrived, TypeOK, Requests
<1>14. \A i \in 1..Len(m) : ph[m[i]] = "waiting"
  BY <1>1, <1>5, <1>6, <1>8 DEF Waiting
<1>15. \A s \in Requests : ph[s] = "waiting" => \E i \in 1..Len(m) : m[i] = s
  <2>1. ASSUME NEW s \in Requests, ph[s] = "waiting", s # r
        PROVE  \E i \in 1..Len(m) : m[i] = s
    <3>1. PICK k \in 1..Len(waiting[q]) : waiting[q][k] = s
      BY <2>1, <1>6, <1>8 DEF Waiting
    <3> QED
      BY <3>1, <1>5
  <2> QED
    BY <2>1, <1>5
<1>16. \A s \in Requests : ph[s] \in {"waiting", "granted"} => poolOf'[s] = q
  BY <1>6, <1>7
<1>17. Ready(q, active[q], m, ph)
  BY <1>3, <1>5, <1>6, <1>9, <1>10, <1>11, <1>12, <1>13, <1>14, <1>15, <1>16 DEF Ready
<1> QED
  <2>1. \A s \in Requests : ph[s] = "granted" => phase[s] = "granted" /\ limit'[s] = limit[s]
    BY <1>1, <1>2, <1>6 DEF TypeOK
  <2>2. DrainedFrom(q, active[q], m, ph)
    BY <1>1, <1>17, <2>1 DEF DrainedFrom, m, ph, q
  <2> QED
    BY <2>2, Zenon DEF DrainedTo, ph

LEMMA AcquireAbortedKeeps ==
  ASSUME IInv, AcquireAborted
  PROVE  IInv'
<1> USE DEF IInv, AcquireAborted
<1>1. TypeOK'
  BY DEF TypeOK, Phases, Requests
<1>2. Waiting' = Waiting /\ Holding' = Holding
  BY DEF Waiting, Holding, NotArrived, TypeOK, Requests
<1>3. PoolIsCurrent'
  BY <1>2 DEF PoolIsCurrent
<1>4. NoIdleWaiter'
  BY DEF NoIdleWaiter
<1>5. QueueInOrder'
  BY <1>2 DEF QueueInOrder, Ahead
<1>6. CountIsExact'
  BY <1>2 DEF CountIsExact
<1>7. NotArrived'
  BY DEF NotArrived, TypeOK, Requests
<1> QED
  BY <1>1, <1>3, <1>4, <1>5, <1>6, <1>7

LEMMA AbortDrains ==
  ASSUME IInv, NEW r \in Requests, Abort(r)
  PROVE  DrainedTo([phase EXCEPT ![r] = "rejected"])
<1> DEFINE q == poolOf[r]
           w == waiting[q]
           ph == [phase EXCEPT ![r] = "rejected"]
<1>1. /\ phase[r] = "waiting" /\ UNCHANGED requestVars
  BY DEF Abort
<1>2. PICK i \in DOMAIN w :
        w[i] = r /\ Drain(q, pool, active[q], Removed(w, i), ph)
  BY DEF Abort
<1> DEFINE m == Removed(w, i)
<1>3. TypeOK
  BY DEF IInv
<1>4. q = pool /\ q \in Requests
  BY <1>1, <1>3 DEF IInv, PoolIsCurrent, Waiting, TypeOK, Pools
<1>5. /\ w \in Seq(Requests) /\ Len(w) \in Nat /\ DOMAIN w = 1..Len(w)
  BY <1>3, <1>4 DEF TypeOK
<1>6. /\ \A s \in Requests : phase[s] \in {"waiting", "granted"} => poolOf[s] = q
      /\ \A k \in 1..Len(w) : w[k] \in Waiting
      /\ \A s \in Waiting : \E k \in 1..Len(w) : w[k] = s
      /\ \A j, k \in 1..Len(w) : j < k => Ahead(w[j], w[k])
  <2>1. \A s \in Requests : phase[s] \in {"waiting", "granted"} => poolOf[s] = q
    BY <1>4 DEF IInv, PoolIsCurrent, Waiting, Holding
  <2>2. \A s \in Waiting : poolOf[s] = q
    BY <2>1 DEF Waiting
  <2> HIDE DEF q
  <2> QED
    BY <2>1, <2>2, <1>4, <1>5 DEF IInv, QueueInOrder
<1>7. \A p \in Requests \ {q} : waiting[p] = <<>>
  BY <1>4, QueueFacts
<1> HIDE DEF q, w
<1>8. /\ m \in Seq(Requests) /\ Len(m) = Len(w) - 1
      /\ \A k \in 1..(Len(w) - 1) : m[k] = IF k < i THEN w[k] ELSE w[k + 1]
  BY <1>2, <1>5, RemovedProperties
<1> HIDE DEF m
<1>9. /\ ph \in [Requests -> Phases]
      /\ \A s \in Requests : ph[s] = IF s = r THEN "rejected" ELSE phase[s]
  BY <1>3 DEF TypeOK, Phases
<1> HIDE DEF ph
<1>10. ASSUME NEW k \in 1..Len(m)
       PROVE  \E j \in 1..Len(w) \ {i} : m[k] = w[j]
  <2>1. CASE k < i
    BY <2>1, <1>5, <1>8, <1>2
  <2>2. CASE ~(k < i)
    <3>1. m[k] = w[k + 1] /\ k + 1 \in 1..Len(w) \ {i}
      BY <2>2, <1>5, <1>8, <1>2
    <3> QED
      BY <3>1
  <2> QED
    BY <2>1, <2>2
<1>11. ASSUME NEW j \in 1..Len(w), j # i
       PROVE  w[j] # r
  BY <1>11, <1>2, <1>5, <1>6 DEF Ahead, Requests
<1>12. ASSUME NEW j \in 1..Len(m), NEW k \in 1..Len(m), j < k
       PROVE  AheadNext(m[j], m[k])
  <2>1. PICK a \in 1..Len(w), b \in 1..Len(w) : a < b /\ m[j] = w[a] /\ m[k] = w[b]
    <3>1. CASE k < i
      BY <3>1, <1>12, <1>5, <1>8, <1>2
    <3>2. CASE ~(k < i) /\ j < i
      <4>1. m[j] = w[j] /\ m[k] = w[k + 1] /\ k + 1 \in 1..Len(w) /\ j \in 1..Len(w) /\ j < k + 1
        BY <3>2, <1>12, <1>5, <1>8, <1>2
      <4> QED
        BY <4>1
    <3>3. CASE ~(j < i)
      <4>1. /\ m[j] = w[j + 1] /\ m[k] = w[k + 1]
            /\ k + 1 \in 1..Len(w) /\ j + 1 \in 1..Len(w) /\ j + 1 < k + 1
        BY <3>3, <1>12, <1>5, <1>8, <1>2
      <4> QED
        BY <4>1
    <3> QED
      BY <3>1, <3>2, <3>3
  <2>2. Ahead(w[a], w[b])
    BY <2>1, <1>6
  <2> QED
    BY <2>1, <2>2, <1>1 DEF Ahead, AheadNext, requestVars
<1>13. \A k \in 1..Len(m) : ph[m[k]] = "waiting"
  BY <1>6, <1>9, <1>10, <1>11 DEF Waiting
<1>14. ASSUME NEW s \in Requests, ph[s] = "waiting"
       PROVE  \E k \in 1..Len(m) : m[k] = s
  <2>1. s # r /\ s \in Waiting
    BY <1>14, <1>9 DEF Waiting
  <2>2. PICK j \in 1..Len(w) : w[j] = s
    BY <2>1, <1>6
  <2>3. j # i
    BY <2>1, <2>2, <1>2
  <2>4. CASE j < i
    BY <2>2, <2>4, <1>2, <1>5, <1>8
  <2>5. CASE j > i
    <3>1. j - 1 \in 1..Len(m) /\ m[j - 1] = w[(j - 1) + 1]
      BY <2>5, <1>2, <1>5, <1>8
    <3> QED
      BY <3>1, <2>2
  <2> QED
    BY <2>3, <2>4, <2>5, <1>2, <1>5
<1>15. ASSUME NEW p \in Requests
       PROVE  active[p] = Cardinality({s \in Requests : ph[s] = "granted" /\ poolOf'[s] = p})
  <2>1. {s \in Requests : ph[s] = "granted" /\ poolOf'[s] = p} = {s \in Holding : poolOf[s] = p}
    BY <1>1, <1>9 DEF Holding, requestVars
  <2> QED
    BY <2>1 DEF IInv, CountIsExact
<1>16. /\ arrived' \in 0..NumRequests /\ limit' \in [Requests -> Nat \ {0}]
       /\ background' \subseteq Requests /\ poolOf' \in [Requests -> Pools]
       /\ active \in [Requests -> Int] /\ waiting \in [Requests -> Seq(Requests)]
  BY <1>1, <1>3 DEF TypeOK, requestVars
<1>17. \A s \in Requests : s > arrived' => ph[s] = "new" /\ s \notin background'
  BY <1>1, <1>9 DEF IInv, NotArrived, requestVars
<1>18. \A s \in Requests : ph[s] \in {"waiting", "granted"} => poolOf'[s] = q
  BY <1>1, <1>6, <1>9 DEF requestVars
<1>19. Ready(q, active[q], m, ph)
  BY <1>4, <1>7, <1>8, <1>9, <1>12, <1>13, <1>14, <1>15, <1>16, <1>17, <1>18 DEF Ready
<1> QED
  <2>1. \A s \in Requests : ph[s] = "granted" => phase[s] = "granted" /\ limit'[s] = limit[s]
    BY <1>1, <1>9 DEF requestVars
  <2>2. Drain(q, q, active[q], m, ph)
    BY <1>2, <1>4 DEF m
  <2>3. DrainedFrom(q, active[q], m, ph)
    BY <1>19, <2>1, <2>2 DEF DrainedFrom
  <2> QED
    BY <2>3, Zenon DEF DrainedTo, ph

LEMMA ReleaseDrains ==
  ASSUME IInv, NEW r \in Requests, Release(r)
  PROVE  DrainedTo([phase EXCEPT ![r] = "released"])
<1> DEFINE q == poolOf[r]
           w == waiting[q]
           ph == [phase EXCEPT ![r] = "released"]
<1>1. /\ phase[r] = "granted" /\ UNCHANGED requestVars
      /\ Drain(q, pool, active[q] - 1, w, ph)
  BY DEF Release
<1>2. TypeOK
  BY DEF IInv
<1>3. q = pool /\ q \in Requests
  BY <1>1, <1>2 DEF IInv, PoolIsCurrent, Holding, TypeOK, Pools
<1>4. /\ w \in Seq(Requests) /\ DOMAIN w = 1..Len(w)
  BY <1>2, <1>3 DEF TypeOK
<1>5. /\ \A s \in Requests : phase[s] \in {"waiting", "granted"} => poolOf[s] = q
      /\ \A k \in 1..Len(w) : w[k] \in Waiting
      /\ \A s \in Waiting : \E k \in 1..Len(w) : w[k] = s
      /\ \A j, k \in 1..Len(w) : j < k => Ahead(w[j], w[k])
  <2>1. \A s \in Requests : phase[s] \in {"waiting", "granted"} => poolOf[s] = q
    BY <1>3 DEF IInv, PoolIsCurrent, Waiting, Holding
  <2>2. \A s \in Waiting : poolOf[s] = q
    BY <2>1 DEF Waiting
  <2> HIDE DEF q
  <2> QED
    BY <2>1, <2>2, <1>3, <1>4 DEF IInv, QueueInOrder
<1>6. \A p \in Requests \ {q} : waiting[p] = <<>>
  BY <1>3, QueueFacts
<1>7. \A p \in Requests : active[p] = Cardinality({s \in Holding : poolOf[s] = p})
  BY DEF IInv, CountIsExact
<1>8. r \in Holding /\ poolOf[r] = q
  BY <1>1 DEF Holding
<1> HIDE DEF q, w
<1>9. /\ ph \in [Requests -> Phases]
      /\ \A s \in Requests : ph[s] = IF s = r THEN "released" ELSE phase[s]
  BY <1>2 DEF TypeOK, Phases
<1> HIDE DEF ph
<1> DEFINE G(p) == {s \in Requests : ph[s] = "granted" /\ poolOf'[s] = p}
<1>10. active[q] - 1 = Cardinality(G(q))
  <2>1. G(q) = {s \in Holding : poolOf[s] = q} \ {r}
    BY <1>1, <1>9 DEF Holding, requestVars
  <2>2. IsFiniteSet({s \in Holding : poolOf[s] = q})
    BY GrantedFinite DEF Holding
  <2> QED
    <3> DEFINE F == {s \in Holding : poolOf[s] = q}
    <3>1. r \in F
      BY <1>8
    <3>2. Cardinality(F) = active[q]
      BY <1>3, <1>7
    <3> HIDE DEF F
    <3>3. Cardinality(F \ {r}) = Cardinality(F) - 1
      BY <2>2, <3>1, FS_RemoveElement DEF F
    <3> QED
      BY <2>1, <3>2, <3>3 DEF F
<1>11. ASSUME NEW p \in Requests, p # q
       PROVE  active[p] = Cardinality(G(p))
  <2>1. G(p) = {s \in Holding : poolOf[s] = p}
    BY <1>1, <1>8, <1>9, <1>11 DEF Holding, requestVars
  <2> QED
    BY <2>1, <1>7
<1>12. \A j, k \in 1..Len(w) : j < k => AheadNext(w[j], w[k])
  BY <1>1, <1>5 DEF Ahead, AheadNext, requestVars
<1>13. /\ arrived' \in 0..NumRequests /\ limit' \in [Requests -> Nat \ {0}]
       /\ background' \subseteq Requests /\ poolOf' \in [Requests -> Pools]
       /\ active \in [Requests -> Int] /\ waiting \in [Requests -> Seq(Requests)]
  BY <1>1, <1>2 DEF TypeOK, requestVars
<1>14. \A s \in Requests : s > arrived' => ph[s] = "new" /\ s \notin background'
  BY <1>1, <1>9 DEF IInv, NotArrived, requestVars
<1>15. \A s \in Requests : ph[s] \in {"waiting", "granted"} => poolOf'[s] = q
  BY <1>1, <1>5, <1>9 DEF requestVars
<1>16. /\ \A k \in 1..Len(w) : ph[w[k]] = "waiting"
       /\ \A s \in Requests : ph[s] = "waiting" => \E k \in 1..Len(w) : w[k] = s
  BY <1>1, <1>5, <1>9 DEF Waiting
<1>17. Ready(q, active[q] - 1, w, ph)
  BY <1>3, <1>4, <1>6, <1>9, <1>10, <1>11, <1>12, <1>13, <1>14, <1>15, <1>16 DEF Ready
<1> QED
  <2>1. \A s \in Requests : ph[s] = "granted" => phase[s] = "granted" /\ limit'[s] = limit[s]
    BY <1>1, <1>9 DEF requestVars
  <2>2. Drain(q, q, active[q] - 1, w, ph)
    BY <1>1, <1>3
  <2>3. DrainedFrom(q, active[q] - 1, w, ph)
    BY <1>17, <2>1, <2>2 DEF DrainedFrom
  <2> QED
    BY <2>3, Zenon DEF DrainedTo, ph

\* A step is a drain of the pool in order, or starts and queues nothing.
LEMMA StepDrains ==
  ASSUME IInv, [Next]_vars
  PROVE  Drained \/ AcquireAborted \/ UNCHANGED vars
<1> QED
  <2>1. ASSUME NEW concurrency \in Concurrencies, NEW inBackground \in BOOLEAN,
               Acquire(concurrency, inBackground)
        PROVE  Drained
    BY <2>1, AcquireDrains, Zenon DEF Drained
  <2>2. ASSUME NEW r \in Requests, Abort(r) \/ Release(r)
        PROVE  Drained
    BY <2>2, AbortDrains, ReleaseDrains, Zenon DEF Drained
  <2> QED
    BY <2>1, <2>2 DEF Next

----------------------------------------------------------------------------
(* The invariant, and what follows.                                        *)

\* The queue of the map's pool is in order, its count is exact and its first
\* waiter has no slot to take, whatever arrives, is aborted or is released.
THEOREM Invariance == Spec => []IInv
<1>1. Init => IInv
  <2> SUFFICES ASSUME Init PROVE IInv
    OBVIOUS
  <2> USE DEF Init
  <2>1. TypeOK
    BY NumRequestsAssumption DEF TypeOK, Pools, Phases, Requests
  <2>2. PoolIsCurrent /\ NoIdleWaiter /\ QueueInOrder /\ NotArrived
    BY DEF PoolIsCurrent, NoIdleWaiter, QueueInOrder, NotArrived, Waiting, Holding
  <2>3. CountIsExact
    BY FS_EmptySet DEF CountIsExact, Holding
  <2> QED
    BY <2>1, <2>2, <2>3 DEF IInv
<1>2. IInv /\ [Next]_vars => IInv'
  <2> SUFFICES ASSUME IInv, [Next]_vars PROVE IInv'
    OBVIOUS
  <2>1. CASE Drained
    BY <2>1, DrainKeeps DEF Drained, DrainedTo, DrainedFrom
  <2>2. CASE AcquireAborted
    BY <2>2, AcquireAbortedKeeps
  <2>3. CASE UNCHANGED vars
    <3> USE <2>3 DEF vars, requestVars, poolVars
    <3>1. Waiting' = Waiting /\ Holding' = Holding
      BY DEF Waiting, Holding
    <3>2. TypeOK' /\ NoIdleWaiter' /\ NotArrived'
      BY DEF IInv, TypeOK, NoIdleWaiter, NotArrived
    <3>3. PoolIsCurrent' /\ QueueInOrder' /\ CountIsExact'
      BY <3>1 DEF IInv, PoolIsCurrent, QueueInOrder, CountIsExact, Ahead
    <3> QED
      BY <3>2, <3>3 DEF IInv
  <2> QED
    BY <2>1, <2>2, <2>3, StepDrains
<1> QED
  BY <1>1, <1>2, PTL DEF Spec

\* Every variable keeps its type: counts and queues of the pools included.
THEOREM TypeCorrect == Spec => []TypeOK
<1>1. IInv => TypeOK
  BY DEF IInv
<1> QED
  BY <1>1, Invariance, PTL

\* What a drain keeps of the limits: the requests it starts were let in one at
\* a time, the i-th of them as one of at most a + i.
LEMMA DrainWithin ==
  ASSUME NEW q, NEW a, NEW w, NEW ph, Ready(q, a, w, ph), Drain(q, q, a, w, ph),
         NEW k \in 1..NumRequests,
         Cardinality({r \in Requests : ph[r] = "granted" /\ limit'[r] <= k}) <= k
  PROVE  Cardinality({r \in Requests : phase'[r] = "granted" /\ limit'[r] <= k}) <= k
<1>1. PICK n \in 0..Len(w) :
        /\ \A i \in 1..n : a + i - 1 < limit'[w[i]]
        /\ phase' = [r \in Requests |-> IF \E i \in 1..n : w[i] = r THEN "granted" ELSE ph[r]]
  BY DEF Drain
<1>2. /\ w \in Seq(Requests) /\ limit' \in [Requests -> Nat \ {0}]
      /\ \A i \in 1..Len(w) : ph[w[i]] = "waiting" /\ w[i] \in Requests
      /\ \A r \in Requests : ph[r] \in {"waiting", "granted"} => poolOf'[r] = q
      /\ a = Cardinality({r \in Requests : ph[r] = "granted" /\ poolOf'[r] = q})
      /\ Len(w) \in Nat /\ n \in Nat
  BY DEF Ready
<1> DEFINE H == {r \in Requests : ph[r] = "granted"}
           Old == {r \in Requests : ph[r] = "granted" /\ limit'[r] <= k}
           New == {r \in Requests : phase'[r] = "granted" /\ limit'[r] <= k}
           Low == {i \in 1..n : limit'[w[i]] <= k}
           T(i) == {w[j] : j \in 1..i}
<1>3. a = Cardinality(H) /\ a \in Nat /\ IsFiniteSet(H)
  <2>1. H = {r \in Requests : ph[r] = "granted" /\ poolOf'[r] = q}
    BY <1>2
  <2> HIDE DEF H
  <2>2. H \subseteq Requests
    BY DEF H
  <2> QED
    BY <2>1, <2>2, <1>2, GrantedFinite
<1>4. CASE Low = {}
  <2>1. New = Old
    BY <1>1, <1>2, <1>4
  <2> QED
    BY <2>1
<1>5. CASE Low # {}
  <2>1. PICK i \in Low : \A j \in Low : j <= i
    <3> DEFINE Gaps == {n - j : j \in Low}
    <3>1. Gaps \in SUBSET Nat /\ Gaps # {}
      BY <1>2, <1>5
    <3>2. PICK g \in Gaps : \A h \in Gaps : g <= h
      BY <3>1, Least
    <3>3. PICK i \in Low : g = n - i
      BY <3>2
    <3>4. \A j \in Low : n - i <= n - j
      BY <3>2, <3>3
    <3> QED
      BY <3>4, <1>2
  <2>2. i \in 1..n /\ i \in 1..Len(w) /\ limit'[w[i]] <= k
    BY <1>2, <2>1
  <2>3. New \subseteq T(i) \union H
    <3>1. ASSUME NEW r \in New, r \notin H
          PROVE  r \in T(i)
      <4>1. PICK j \in 1..n : w[j] = r
        BY <3>1, <1>1
      <4>2. j \in Low
        BY <4>1, <3>1
      <4>3. j \in 1..i
        BY <4>1, <4>2, <2>1, <2>2
      <4> QED
        BY <4>1, <4>3
    <3> QED
      BY <3>1
  <2>4. IsFiniteSet(T(i)) /\ Cardinality(T(i)) = i
    <3>1. ASSUME NEW x \in 1..i, NEW y \in 1..i, x < y
          PROVE  w[x] # w[y]
      <4>1. x \in 1..Len(w) /\ y \in 1..Len(w)
        BY <2>2, <1>2
      <4>2. AheadNext(w[x], w[y]) /\ w[x] \in Requests
        BY <3>1, <4>1, <1>2 DEF Ready
      <4> QED
        BY <4>2 DEF AheadNext, Requests
    <3>2. \A x, y \in 1..i : x # y => w[x] # w[y]
      BY <3>1
    <3>3. i \in 0..Len(w)
      BY <2>2
    <3>4. w \in Seq(Requests)
      BY <1>2
    <3> QED
      BY <3>2, <3>3, <3>4, PrefixCardinality, Zenon
  <2>5. T(i) \intersect H = {}
    BY <1>2, <2>2
  <2> HIDE DEF H, T, New, Low
  <2>6. Cardinality(T(i) \union H) = i + a /\ IsFiniteSet(T(i) \union H)
    <3>1. /\ IsFiniteSet(T(i) \union H)
          /\ Cardinality(T(i) \union H) = Cardinality(T(i)) + Cardinality(H) - Cardinality(T(i) \cap H)
      BY <1>3, <2>4, FS_Union
    <3>2. Cardinality(T(i) \cap H) = 0
      BY <2>5, FS_EmptySet
    <3> QED
      BY <3>1, <3>2, <2>4, <2>2, <1>3
  <2>7. Cardinality(New) <= i + a /\ Cardinality(New) \in Nat
    BY <2>3, <2>6, FS_Subset, FS_CardinalityType
  <2>8. i + a <= k
    <3>1. a + i - 1 < limit'[w[i]] /\ limit'[w[i]] \in Nat /\ limit'[w[i]] <= k
      BY <1>1, <1>2, <2>2
    <3> QED
      BY <3>1, <1>3, <2>2
  <2> QED
    BY <2>7, <2>8, <1>3, <2>2 DEF New
<1> QED
  BY <1>4, <1>5

\* However limits change from request to request, never more than k requests
\* made under a limit of k or less are in flight together.
THEOREM LimitsHold == Spec => []SlotsWithinLimit
<1> DEFINE Low(k) == {r \in Requests : phase[r] = "granted" /\ limit[r] <= k}
           LowNext(k) == {r \in Requests : phase'[r] = "granted" /\ limit'[r] <= k}
<1>1. SlotsWithinLimit <=> \A k \in 1..NumRequests : Cardinality(Low(k)) <= k
  <2>1. \A k \in 1..NumRequests : {r \in Holding : limit[r] <= k} = Low(k)
    BY DEF Holding
  <2> HIDE DEF Low
  <2> QED
    BY <2>1 DEF SlotsWithinLimit
<1>2. SlotsWithinLimit' <=> \A k \in 1..NumRequests : Cardinality(LowNext(k)) <= k
  <2>1. \A k \in 1..NumRequests : {r \in Holding' : limit'[r] <= k} = LowNext(k)
    BY DEF Holding
  <2> HIDE DEF LowNext
  <2> QED
    BY <2>1 DEF SlotsWithinLimit
<1>3. Init => SlotsWithinLimit
  <2> SUFFICES ASSUME Init, NEW k \in 1..NumRequests PROVE Cardinality(Low(k)) <= k
    BY <1>1
  <2>1. Low(k) = {}
    BY DEF Init
  <2> QED
    BY <2>1, FS_EmptySet
<1>4. IInv /\ SlotsWithinLimit /\ [Next]_vars => SlotsWithinLimit'
  <2> SUFFICES ASSUME IInv, SlotsWithinLimit, [Next]_vars, NEW k \in 1..NumRequests
               PROVE  Cardinality(LowNext(k)) <= k
    BY <1>2
  <2>1. Cardinality(Low(k)) <= k
    BY <1>1
  <2>2. CASE Drained
    <3>1. PICK q, a, w, ph :
            /\ Ready(q, a, w, ph)
            /\ Drain(q, q, a, w, ph)
            /\ \A r \in Requests :
                 ph[r] = "granted" => phase[r] = "granted" /\ limit'[r] = limit[r]
      BY <2>2 DEF Drained, DrainedTo, DrainedFrom
    <3> DEFINE Old == {r \in Requests : ph[r] = "granted" /\ limit'[r] <= k}
    <3>2. Old \subseteq Low(k)
      BY <3>1
    <3>3. /\ IsFiniteSet(Low(k)) /\ Cardinality(Low(k)) \in Nat
          /\ IsFiniteSet(Old) /\ Cardinality(Old) \in Nat
      BY GrantedFinite
    <3>4. Cardinality(Old) <= k
      <4> HIDE DEF Old, Low
      <4>1. Cardinality(Old) <= Cardinality(Low(k))
        BY <3>2, <3>3, FS_Subset
      <4> QED
        BY <4>1, <3>3, <2>1
    <3> QED
      BY <3>1, <3>4, DrainWithin
  <2>3. CASE AcquireAborted \/ UNCHANGED vars
    <3>1. /\ limit' = limit
          /\ \A r \in Requests : phase'[r] = "granted" <=> phase[r] = "granted"
      <4>1. CASE AcquireAborted
        <5>1. phase[arrived + 1] = "new" /\ phase \in [Requests -> Phases]
          BY <4>1 DEF AcquireAborted, IInv, NotArrived, TypeOK, Requests
        <5> QED
          BY <4>1, <5>1 DEF AcquireAborted
      <4>2. CASE UNCHANGED vars
        BY <4>2 DEF vars, requestVars, poolVars
      <4> QED
        BY <4>1, <4>2, <2>3
    <3>2. LowNext(k) = Low(k)
      BY <3>1
    <3> QED
      BY <3>2, <2>1
  <2> QED
    BY <2>2, <2>3, StepDrains
<1> QED
  BY <1>3, <1>4, Invariance, PTL DEF Spec

\* A request starts only if nobody who is to be served before it stays behind.
THEOREM NobodyOvertakes == Spec => StartOrder
<1> DEFINE NoOvertake ==
             \A r, s \in Requests :
               /\ phase[r] # "granted" /\ phase'[r] = "granted"
               /\ phase[s] = "waiting" /\ Ahead(s, r)'
               => phase'[s] # "waiting"
<1>1. IInv /\ [Next]_vars => NoOvertake
  <2> SUFFICES ASSUME IInv, [Next]_vars, NEW r \in Requests, NEW s \in Requests,
                      phase[r] # "granted", phase'[r] = "granted",
                      phase[s] = "waiting", AheadNext(s, r)
               PROVE  phase'[s] # "waiting"
    BY DEF Ahead, AheadNext
  <2>1. CASE Drained
    <3>1. PICK q, a, w, ph :
            /\ Ready(q, a, w, ph)
            /\ Drain(q, q, a, w, ph)
            /\ \A x \in Requests : ph[x] = "granted" => phase[x] = "granted"
      BY <2>1 DEF Drained, DrainedTo, DrainedFrom
    <3>2. PICK n \in 0..Len(w) :
            phase' = [x \in Requests |-> IF \E i \in 1..n : w[i] = x THEN "granted" ELSE ph[x]]
      BY <3>1 DEF Drain
    <3>3. PICK i \in 1..n : w[i] = r
      BY <3>1, <3>2
    <3> SUFFICES ASSUME phase'[s] = "waiting" PROVE FALSE
      OBVIOUS
    <3>4. ph[s] = "waiting" /\ ~(\E j \in 1..n : w[j] = s)
      BY <3>2
    <3>5. PICK k \in 1..Len(w) : w[k] = s
      BY <3>1, <3>4 DEF Ready
    <3>6. i < k /\ i \in 1..Len(w)
      <4>1. Len(w) \in Nat /\ n \in Nat
        BY <3>1 DEF Ready
      <4> QED
        BY <4>1, <3>3, <3>4, <3>5
    <3>7. AheadNext(r, s)
      BY <3>1, <3>3, <3>5, <3>6 DEF Ready
    <3> QED
      BY <3>7 DEF AheadNext, Requests
  <2>2. CASE AcquireAborted \/ UNCHANGED vars
    BY <2>2 DEF AcquireAborted, vars, poolVars, IInv, TypeOK
  <2> QED
    BY <2>1, <2>2, StepDrains
<1> QED
  BY <1>1, Invariance, PTL DEF Spec, StartOrder

----------------------------------------------------------------------------
(* The pools implement SlotService.                                        *)

\* Both modules count with the operator of FiniteSets.
LEMMA SameCardinality == \A S : Service!Cardinality(S) = Cardinality(S)
  BY Zenon DEF Cardinality, Service!Cardinality

\* A drain starts just those waiters that are next and find a slot.
LEMMA DrainServes ==
  ASSUME NEW q, NEW a, NEW w, NEW ph, Ready(q, a, w, ph), Drain(q, q, a, w, ph)
  PROVE  Service!Serve(ph)
<1>1. PICK n \in 0..Len(w) :
        /\ \A i \in 1..n : a + i - 1 < limit'[w[i]]
        /\ n < Len(w) => a + n >= limit'[w[n + 1]]
        /\ phase' = [r \in Requests |-> IF \E i \in 1..n : w[i] = r THEN "granted" ELSE ph[r]]
  BY DEF Drain
<1>2. /\ w \in Seq(Requests) /\ Len(w) \in Nat /\ n \in Nat
      /\ limit' \in [Requests -> Nat \ {0}]
      /\ \A i, k \in 1..Len(w) : i < k => AheadNext(w[i], w[k])
      /\ \A i \in 1..Len(w) : ph[w[i]] = "waiting" /\ w[i] \in Requests
      /\ \A r \in Requests : ph[r] = "waiting" => \E i \in 1..Len(w) : w[i] = r
      /\ \A r \in Requests : ph[r] \in {"waiting", "granted"} => poolOf'[r] = q
      /\ a = Cardinality({r \in Requests : ph[r] = "granted" /\ poolOf'[r] = q})
  BY DEF Ready
<1> DEFINE W == {r \in Requests : ph[r] = "waiting"}
           H == {r \in Requests : ph[r] = "granted"}
           T(i) == {w[j] : j \in 1..i}
<1>3. a = Cardinality(H) /\ a \in Nat
  <2>1. H = {r \in Requests : ph[r] = "granted" /\ poolOf'[r] = q}
    BY <1>2
  <2> HIDE DEF H
  <2>2. H \subseteq Requests
    BY DEF H
  <2> QED
    BY <2>1, <2>2, <1>2, GrantedFinite
<1>4. ASSUME NEW r \in Requests, NEW s \in Requests, AheadNext(r, s)
      PROVE  ~AheadNext(s, r) /\ r # s
  BY <1>4 DEF AheadNext, Requests
<1>5. ASSUME NEW i \in 1..Len(w), NEW j \in 1..Len(w)
      PROVE  AheadNext(w[j], w[i]) <=> j < i
  <2>1. CASE j < i
    BY <2>1, <1>2
  <2>2. CASE i < j
    BY <2>2, <1>2, <1>4
  <2>3. CASE i = j
    BY <2>3, <1>2, <1>4
  <2> QED
    BY <2>1, <2>2, <2>3
<1>6. ASSUME NEW i \in 0..Len(w)
      PROVE  IsFiniteSet(T(i)) /\ Cardinality(T(i)) = i
  <2>1. \A x, y \in 1..i : x # y => w[x] # w[y]
    <3>1. ASSUME NEW x \in 1..i, NEW y \in 1..i, x < y
          PROVE  w[x] # w[y]
      BY <3>1, <1>2, <1>4
    <3> QED
      BY <3>1
  <2>2. w \in Seq(Requests)
    BY <1>2
  <2> QED
    BY <2>1, <2>2, PrefixCardinality, Zenon
<1>7. T(n) \in SUBSET W /\ \A r : r \in T(n) <=> \E i \in 1..n : w[i] = r
  BY <1>2
<1>8. phase' = [r \in Requests |-> IF r \in T(n) THEN "granted" ELSE ph[r]]
  BY <1>1
<1>9. ASSUME NEW g \in T(n)
      PROVE  /\ \A s \in W : AheadNext(s, g) => s \in T(n)
             /\ Cardinality(H) + Cardinality({s \in T(n) : AheadNext(s, g)}) < limit'[g]
  <2>1. PICK i \in 1..n : g = w[i]
    BY <1>7
  <2>2. i \in 1..Len(w) /\ i - 1 \in 0..Len(w)
    BY <1>2
  <2>3. ASSUME NEW s \in W, AheadNext(s, g)
        PROVE  s \in T(i - 1) /\ s \in T(n)
    <3>1. PICK j \in 1..Len(w) : w[j] = s
      BY <1>2
    <3>2. j < i
      BY <2>1, <2>2, <2>3, <3>1, <1>5
    <3>3. j \in 1..(i - 1) /\ j \in 1..n
      BY <3>2, <1>2, <2>2
    <3> QED
      BY <3>1, <3>3
  <2>4. ASSUME NEW s \in T(i - 1)
        PROVE  s \in T(n) /\ AheadNext(s, g)
    <3>1. PICK j \in 1..(i - 1) : w[j] = s
      OBVIOUS
    <3>2. j \in 1..n /\ j \in 1..Len(w) /\ j < i
      BY <1>2, <2>2
    <3> QED
      BY <3>1, <3>2, <2>1, <2>2, <1>5
  <2>5. {s \in T(n) : AheadNext(s, g)} = T(i - 1)
    <3> HIDE DEF T
    <3> QED
      BY <2>3, <2>4, <1>7
  <2>6. Cardinality({s \in T(n) : AheadNext(s, g)}) = i - 1
    BY <2>2, <2>5, <1>6, Zenon
  <2>7. a + i - 1 < limit'[g]
    BY <1>1, <2>1
  <2> QED
    <3> HIDE DEF T, H, W
    <3>1. Cardinality(H) + Cardinality({s \in T(n) : AheadNext(s, g)}) < limit'[g]
      <4> DEFINE C == Cardinality({s \in T(n) : AheadNext(s, g)})
                 D == Cardinality(H)
      <4>1. C = i - 1 /\ D = a
        BY <2>6, <1>3
      <4> HIDE DEF C, D
      <4>2. D + C < limit'[g]
        BY <4>1, <2>7, <1>3, <2>2
      <4> QED
        BY <4>2 DEF C, D
    <3> QED
      BY <2>3, <3>1
<1>10. ASSUME NEW s \in W \ T(n), \A t \in W \ T(n) : ~AheadNext(t, s)
       PROVE  Cardinality(H) + Cardinality(T(n)) >= limit'[s]
  <2>1. PICK k \in 1..Len(w) : w[k] = s
    BY <1>2
  <2>2. k > n
    BY <2>1, <1>2, <1>10
  <2>3. n + 1 \in 1..Len(w) /\ n < Len(w)
    BY <2>2, <1>2
  <2>4. w[n + 1] \in W \ T(n)
    <3>1. ASSUME NEW j \in 1..n
          PROVE  w[j] # w[n + 1]
      <4>1. j \in 1..Len(w) /\ j < n + 1
        BY <1>2, <2>3
      <4> QED
        BY <4>1, <2>3, <1>2, <1>4
    <3> QED
      BY <3>1, <2>3, <1>2
  <2>5. k = n + 1
    <3>1. ~AheadNext(w[n + 1], w[k])
      BY <2>1, <2>4, <1>10
    <3> QED
      BY <3>1, <2>2, <2>3, <1>5
  <2>6. a + n >= limit'[s]
    BY <2>1, <2>3, <2>5, <1>1
  <2>7. Cardinality(T(n)) = n
    BY <1>6
  <2> HIDE DEF T, H
  <2> QED
    BY <2>6, <2>7, <1>3
<1>11. \A s, r : Service!Ahead(s, r)' <=> AheadNext(s, r)
  BY DEF Service!Ahead, AheadNext
<1> QED
  <2> HIDE DEF T
  <2>1. \A g \in T(n) :
          {s \in T(n) : Service!Ahead(s, g)'} = {s \in T(n) : AheadNext(s, g)}
    BY <1>11
  <2>2. \A g \in T(n) :
          /\ \A s \in W : Service!Ahead(s, g)' => s \in T(n)
          /\ Cardinality(H) + Cardinality({s \in T(n) : Service!Ahead(s, g)'}) < limit'[g]
    BY <2>1, <1>9, <1>11, Zenon
  <2>3. \A s \in W \ T(n) :
          (\A t \in W \ T(n) : ~Service!Ahead(t, s)')
          => Cardinality(H) + Cardinality(T(n)) >= limit'[s]
    BY <1>10, <1>11, Zenon
  <2> QED
    BY <2>2, <2>3, <1>7, <1>8, SameCardinality, Zenon DEF Service!Serve

\* Requests arrive in the order of their numbers.
InOrderOfArrival == \A r \in Requests : r <= arrived => phase[r] # "new"

LEMMA ArrivalOrder ==
  ASSUME IInv, InOrderOfArrival, [Next]_vars
  PROVE  InOrderOfArrival'
<1> DEFINE r == arrived + 1
<1>1. TypeOK
  BY DEF IInv
<1>2. ASSUME NEW ph, ph \in [Requests -> Phases], DrainedTo(ph),
             \A s \in Requests : s <= arrived' => ph[s] # "new"
      PROVE  InOrderOfArrival'
  <2>1. PICK q, a, w : DrainedFrom(q, a, w, ph)
    BY <1>2 DEF DrainedTo
  <2>2. PICK n \in 0..Len(w) :
          phase' = [s \in Requests |-> IF \E i \in 1..n : w[i] = s THEN "granted" ELSE ph[s]]
    BY <2>1 DEF DrainedFrom, Drain
  <2> QED
    BY <2>2, <1>2 DEF InOrderOfArrival
<1>3. ASSUME NEW concurrency \in Concurrencies, NEW inBackground \in BOOLEAN,
             Acquire(concurrency, inBackground)
      PROVE  InOrderOfArrival'
  <2> DEFINE ph == [phase EXCEPT ![r] = "waiting"]
  <2>1. DrainedTo(ph)
    BY <1>3, AcquireDrains
  <2>2. arrived' = r /\ r \in Requests
    BY <1>3 DEF Acquire
  <2>3. ph \in [Requests -> Phases] /\ \A s \in Requests : s <= arrived' => ph[s] # "new"
    BY <2>2, <1>1 DEF TypeOK, Phases, InOrderOfArrival, Requests
  <2> HIDE DEF ph
  <2> QED
    BY <2>1, <2>3, <1>2
<1>4. ASSUME NEW s \in Requests, Abort(s)
      PROVE  InOrderOfArrival'
  <2> DEFINE ph == [phase EXCEPT ![s] = "rejected"]
  <2>1. DrainedTo(ph)
    BY <1>4, AbortDrains
  <2>2. arrived' = arrived
    BY <1>4 DEF Abort, requestVars
  <2>3. ph \in [Requests -> Phases] /\ \A x \in Requests : x <= arrived' => ph[x] # "new"
    BY <2>2, <1>1 DEF TypeOK, Phases, InOrderOfArrival
  <2> HIDE DEF ph
  <2> QED
    BY <2>1, <2>3, <1>2
<1>5. ASSUME NEW s \in Requests, Release(s)
      PROVE  InOrderOfArrival'
  <2> DEFINE ph == [phase EXCEPT ![s] = "released"]
  <2>1. DrainedTo(ph)
    BY <1>5, ReleaseDrains
  <2>2. arrived' = arrived
    BY <1>5 DEF Release, requestVars
  <2>3. ph \in [Requests -> Phases] /\ \A x \in Requests : x <= arrived' => ph[x] # "new"
    BY <2>2, <1>1 DEF TypeOK, Phases, InOrderOfArrival
  <2> HIDE DEF ph
  <2> QED
    BY <2>1, <2>3, <1>2
<1>6. CASE AcquireAborted
  BY <1>6, <1>1 DEF AcquireAborted, InOrderOfArrival, TypeOK, Requests
<1>7. CASE UNCHANGED vars
  BY <1>7 DEF vars, requestVars, poolVars, InOrderOfArrival
<1> QED
  BY <1>3, <1>4, <1>5, <1>6, <1>7 DEF Next

\* The phases a step was drained from are the ones its starts are chosen in.
LEMMA DrainedServes ==
  ASSUME NEW ph, DrainedTo(ph)
  PROVE  Service!Serve(ph)
<1>1. PICK q, a, w : DrainedFrom(q, a, w, ph)
  BY DEF DrainedTo
<1> QED
  BY <1>1, DrainServes DEF DrainedFrom

\* A step of the pools is a step of the service, or changes nothing of it.
LEMMA StepServes ==
  ASSUME IInv, InOrderOfArrival, [Next]_vars
  PROVE  [Service!Next]_Service!vars
<1> DEFINE r == arrived + 1
<1>1. TypeOK
  BY DEF IInv
<1>2. ASSUME r \in Requests
      PROVE  Service!IsNext(r)
  BY <1>1, <1>2 DEF Service!IsNext, IInv, NotArrived, InOrderOfArrival, TypeOK, Requests
<1>3. ASSUME NEW concurrency \in Concurrencies, NEW inBackground \in BOOLEAN,
             Acquire(concurrency, inBackground)
      PROVE  r \in Requests /\ Service!Arrive(r)
  <2>1. /\ r \in Requests
        /\ limit' = [limit EXCEPT ![r] = AtLeastOne(concurrency)]
        /\ background' = IF inBackground THEN background \union {r} ELSE background
    BY <1>3 DEF Acquire
  <2>2. AtLeastOne(concurrency) \in Nat \ {0}
    BY ConcurrenciesAssumption DEF AtLeastOne
  <2>3. limit'[r] \in Nat \ {0} /\ limit' = [limit EXCEPT ![r] = limit'[r]]
    BY <2>1, <2>2, <1>1 DEF TypeOK
  <2>4. background' \in {background, background \union {r}}
    BY <2>1
  <2>5. Service!Serve([phase EXCEPT ![r] = "waiting"])
    BY <1>3, AcquireDrains, DrainedServes
  <2> HIDE DEF r
  <2> QED
    BY <2>1, <2>3, <2>4, <2>5, <1>2 DEF Service!Arrive
<1>4. ASSUME NEW s \in Requests, Abort(s)
      PROVE  Service!Withdraw(s)
  BY <1>4, AbortDrains, DrainedServes DEF Abort, requestVars, Service!Withdraw
<1>5. ASSUME NEW s \in Requests, Release(s)
      PROVE  Service!Finish(s)
  BY <1>5, ReleaseDrains, DrainedServes DEF Release, requestVars, Service!Finish
<1>6. CASE AcquireAborted
  BY <1>6, <1>2 DEF AcquireAborted, Service!Refuse, Service!Next
<1>7. CASE UNCHANGED vars
  BY <1>7 DEF vars, requestVars, poolVars, Service!vars
<1> QED
  BY <1>3, <1>4, <1>5, <1>6, <1>7 DEF Next, Service!Next

\* The pools with their counters and queues implement the service: whatever arrives,
\* is aborted or is released, just the requests that are next and may start do start.
THEOREM Refinement == Spec => ImplementsService
<1>1. Init => Service!Init /\ InOrderOfArrival
  BY NumRequestsAssumption DEF Init, Service!Init, InOrderOfArrival, Requests
<1>2. IInv /\ InOrderOfArrival /\ [Next]_vars
      => [Service!Next]_Service!vars /\ InOrderOfArrival'
  BY StepServes, ArrivalOrder
<1> QED
  BY <1>1, <1>2, Invariance, PTL DEF Spec, ImplementsService, Service!Spec
============================================================================
