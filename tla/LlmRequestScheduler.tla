------------------------ MODULE LlmRequestScheduler ------------------------
(***************************************************************************)
(* The slots of one connection (provider) of the LLM request scheduler.    *)
(* Connections share nothing, so one stands for all.                       *)
(*                                                                         *)
(* The closures of a request keep the pool object they were made with,     *)
(* while the map may meanwhile hold another one or none: a pool is named   *)
(* after the request that created it, and `pool` is the map's entry.       *)
(* Everything between two calls into the scheduler is one synchronous run  *)
(* of JavaScript, drain included.                                          *)
(***************************************************************************)
EXTENDS Integers, Sequences, FiniteSets

CONSTANTS
  NumRequests,   \* bound: requests that may arrive; ids are given in order
  Concurrencies  \* limits the settings may hold when a request arrives

ASSUME NumRequestsAssumption == NumRequests \in Nat
ASSUME ConcurrenciesAssumption == Concurrencies \subseteq Int

Requests == 1..NumRequests
NoPool == 0

VARIABLES
  arrived,      \* requests that have arrived so far
  phase,        \* "new", "waiting", "granted", "released", "rejected"
  limit,        \* the limit a request was made with
  background,   \* requests made in background work and not fifo
  poolOf,       \* the pool object a request's closures refer to
  pool,         \* pools.get(providerName): a pool, or NoPool
  active,       \* pool.active of each pool object
  waiting       \* pool.waiting of each pool object

requestVars == <<arrived, limit, background, poolOf>>
poolVars == <<phase, pool, active, waiting>>
vars == <<requestVars, poolVars>>

Pools == {NoPool} \union Requests
Phases == {"new", "waiting", "granted", "released", "rejected"}

Init ==
  /\ arrived = 0
  /\ phase = [r \in Requests |-> "new"]
  /\ limit = [r \in Requests |-> 1]
  /\ background = {}
  /\ poolOf = [r \in Requests |-> NoPool]
  /\ pool = NoPool
  /\ active = [r \in Requests |-> 0]
  /\ waiting = [r \in Requests |-> <<>>]

----------------------------------------------------------------------------
\* Math.max(1, Math.floor(concurrency)) of an integer.
AtLeastOne(concurrency) == IF concurrency < 1 THEN 1 ELSE concurrency

\* The sequence with r before its i-th entry, and without its i-th entry.
InsertedBefore(w, i, r) == SubSeq(w, 1, i - 1) \o <<r>> \o SubSeq(w, i, Len(w))
Removed(w, i) == SubSeq(w, 1, i - 1) \o SubSeq(w, i + 1, Len(w))

\* Mutant: every request goes to the end.
AddedLast(w, r, inBackground) == Append(w, r)

\* A reply-path request goes ahead of the first background one, else last.
Added(w, r, inBackground) ==
  LET behind == {i \in DOMAIN w : w[i] \in background}
  IN IF inBackground \/ behind = {} THEN Append(w, r)
     ELSE InsertedBefore(w, CHOOSE i \in behind : \A k \in behind : i <= k, r)

\* Mutant: a pool is dropped as soon as nobody waits.
EntryAfterNoWaiter(q, entry, a, w) == IF w = <<>> /\ entry = q THEN NoPool ELSE entry

\* The map's entry after pool q was left with `a` active requests and the
\* queue w.
EntryAfter(q, entry, a, w) == IF a = 0 /\ w = <<>> /\ entry = q THEN NoPool ELSE entry

\* drain() of pool q with the map's `entry`, `a` active requests, the queue w and
\* the phases ph:
\* the first n waiters start, n being the first number at which the next one
\* finds no slot (exactly one n qualifies).
Drain(q, entry, a, w, ph) ==
  \E n \in 0..Len(w) :
    /\ \A i \in 1..n : a + i - 1 < limit'[w[i]]
    /\ n < Len(w) => a + n >= limit'[w[n + 1]]
    /\ phase' = [r \in Requests |-> IF \E i \in 1..n : w[i] = r THEN "granted" ELSE ph[r]]
    /\ active' = [active EXCEPT ![q] = a + n]
    /\ waiting' = [waiting EXCEPT ![q] = SubSeq(w, n + 1, Len(w))]
    /\ pool' = EntryAfter(q, entry, a + n, SubSeq(w, n + 1, Len(w)))

\* acquireLlmRequestSlot: the pool of the connection is found or made, the
\* request is queued, and the queue is drained.
Acquire(concurrency, inBackground) ==
  LET r == arrived + 1
      q == IF pool = NoPool THEN r ELSE pool
  IN /\ r \in Requests
     /\ arrived' = r
     /\ limit' = [limit EXCEPT ![r] = AtLeastOne(concurrency)]
     /\ background' = IF inBackground THEN background \union {r} ELSE background
     /\ poolOf' = [poolOf EXCEPT ![r] = q]
     /\ Drain(q, q, active[q], Added(waiting[q], r, inBackground),
              [phase EXCEPT ![r] = "waiting"])

\* The same with a signal that is already aborted: nothing is queued.
AcquireAborted ==
  /\ arrived + 1 \in Requests
  /\ arrived' = arrived + 1
  /\ phase' = [phase EXCEPT ![arrived + 1] = "rejected"]
  /\ UNCHANGED <<limit, background, poolOf, pool, active, waiting>>

\* cancel(): the signal of a waiting request is aborted.  Once it has started
\* the listener is gone, and the abort is the business of its holder.
Abort(r) ==
  LET q == poolOf[r]
  IN /\ phase[r] = "waiting"
     /\ UNCHANGED requestVars
     /\ \E i \in DOMAIN waiting[q] :
          /\ waiting[q][i] = r
          /\ Drain(q, pool, active[q], Removed(waiting[q], i), [phase EXCEPT ![r] = "rejected"])

\* Mutant: the slot is given back without draining the queue.
ReleaseOnly(r) ==
  /\ phase[r] = "granted"
  /\ phase' = [phase EXCEPT ![r] = "released"]
  /\ active' = [active EXCEPT ![poolOf[r]] = @ - 1]
  /\ UNCHANGED <<requestVars, pool, waiting>>

\* The holder calls release(), which does nothing the second time.
Release(r) ==
  LET q == poolOf[r]
  IN /\ phase[r] = "granted"
     /\ UNCHANGED requestVars
     /\ Drain(q, pool, active[q] - 1, waiting[q], [phase EXCEPT ![r] = "released"])

----------------------------------------------------------------------------
Next ==
  \/ \E concurrency \in Concurrencies, inBackground \in BOOLEAN :
       Acquire(concurrency, inBackground)
  \/ AcquireAborted
  \/ \E r \in Requests : Abort(r) \/ Release(r)

\* Every holder releases in a finally block, once its request has ended.
Fairness == \A r \in Requests : WF_vars(Release(r))

Spec == Init /\ [][Next]_vars
FairSpec == Spec /\ Fairness

----------------------------------------------------------------------------
Holding == {r \in Requests : phase[r] = "granted"}
Waiting == {r \in Requests : phase[r] = "waiting"}

\* s must be served before r: a reply before a background request, and in
\* order of arrival within a kind.
Ahead(s, r) ==
  IF s \in background <=> r \in background THEN s < r ELSE r \in background

TypeOK ==
  /\ arrived \in 0..NumRequests
  /\ phase \in [Requests -> Phases]
  /\ limit \in [Requests -> Nat \ {0}]
  /\ background \subseteq Requests
  /\ poolOf \in [Requests -> Pools]
  /\ pool \in Pools
  /\ active \in [Requests -> Int]
  /\ waiting \in [Requests -> Seq(Requests)]

\* Every request that waits or holds a slot belongs to the pool the map has:
\* a pool object is dropped only when no closure will use it again, so two
\* pools never grant slots of one connection at once.
PoolIsCurrent == \A r \in Waiting \union Holding : poolOf[r] = pool /\ pool # NoPool

\* A waiter at the head of the queue has no slot to take: each event that
\* frees a slot or changes the head (release, abort, arrival) drains the
\* queue, as no other event would wake it.
NoIdleWaiter ==
  \A q \in Requests : waiting[q] # <<>> => active[q] >= limit[Head(waiting[q])]

\* The queue of a pool is made of its waiting requests, in service order.
QueueInOrder ==
  /\ \A q \in Requests :
       /\ \A i, k \in DOMAIN waiting[q] : i < k => Ahead(waiting[q][i], waiting[q][k])
       /\ \A i \in DOMAIN waiting[q] : waiting[q][i] \in Waiting /\ poolOf[waiting[q][i]] = q
  /\ \A r \in Waiting : \E i \in DOMAIN waiting[poolOf[r]] : waiting[poolOf[r]][i] = r

\* Requests that have not arrived yet are in no queue and hold no slot.
NotArrived == \A r \in Requests : r > arrived => phase[r] = "new" /\ r \notin background

\* The count of a pool is the number of slots it has granted and not got back.
CountIsExact ==
  \A q \in Requests : active[q] = Cardinality({r \in Holding : poolOf[r] = q})

IInv ==
  /\ TypeOK
  /\ PoolIsCurrent
  /\ NoIdleWaiter
  /\ QueueInOrder
  /\ CountIsExact
  /\ NotArrived

\* However limits change from request to request, never more than k requests
\* made under a limit of k or less are in flight together.
SlotsWithinLimit ==
  \A k \in 1..NumRequests : Cardinality({r \in Holding : limit[r] <= k}) <= k

\* Nobody overtakes: a request starts only if nobody who is to be served
\* before it stays behind, whatever arrives, is aborted or ends in between.
StartOrder ==
  [][\A r, s \in Requests :
       /\ phase[r] # "granted" /\ phase'[r] = "granted"
       /\ phase[s] = "waiting" /\ Ahead(s, r)'
       => phase'[s] # "waiting"]_vars

\* The pools, with their counters and queues, do what SlotService says: every event is
\* followed at once by the start of just those requests that are next and may start.
Service == INSTANCE SlotService
ImplementsService == Service!Spec

\* Every waiting request is served or gives up, provided that slots are
\* given back.
EveryWaiterServed == \A r \in Requests : phase[r] = "waiting" ~> phase[r] # "waiting"
============================================================================
