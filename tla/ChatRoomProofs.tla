--------------------------- MODULE ChatRoomProofs ---------------------------
(* Proofs about ChatRoom, for any members, connections, slots, limit on     *)
(* wakes, number of generations and bounds: the room is sound, nobody is    *)
(* woken after a stop, and a reaction yields to everybody else.             *)
EXTENDS ChatRoom, FiniteSetTheorems, WellFoundedInduction, TLAPS

Runs == [at : {"none", "preparing", "routing", "working", "judging"},
         stopped : BOOLEAN, used : 0..ChainLimit, last : SUBSET Members]
Replies == [Members -> [at : {"none", "answering", "translating"},
                        link : Links \cup {0}, routed : BOOLEAN]]

\* Slots are respected by the replies rep.
SlotsOf(rep) ==
    \A m \in Members : Cardinality({n \in Flying(rep) : ConnectionOf[n] = ConnectionOf[m]})
                          <= Slots[ConnectionOf[m]]

\* The run and its members: nobody answers outside "working", the judge is asked only
\* while there is a wake left, and wakes are promised to members who answer, in a run
\* that goes on.
Room ==
    /\ run \in Runs /\ queue \in Seq(Members) /\ reply \in Replies
    /\ reserved \in SUBSET (Members \X Members) /\ waiting \in BOOLEAN
    /\ run.at = "none" => run = NoRun
    /\ run.at # "working" => Flying(reply) = {}
    /\ run.at = "judging" => run.used < ChainLimit
    /\ \A e \in reserved : e[1] \in Flying(reply)
    /\ run.stopped => reserved = {}
    /\ WakesWithinLimit
    /\ SlotsOf(reply)

\* The reactions: one that is neither cut nor over holds the room, and its message is
\* the room's news; a process that is down or about to be starts nothing.
Reactions ==
    /\ order \in BOOLEAN /\ scheduled \in BOOLEAN /\ service \in {"on", "stopping", "off"}
    /\ left \in [{"sends", "jobs", "mishaps"} -> Nat]
    /\ job \in [Links -> {"none", "running", "done"}]
    /\ source \in [Links -> {"none", "stored", "overtaken", "lost"}]
    /\ reaction \in [Links -> {"no", "pending", "running", "done", "skipped", "failed"}]
    /\ attempts \in [Links -> Nat]
    /\ work \in [Links -> {"no", "previews", "model"}]
    /\ turn \in Links \cup {0} /\ cut \in SUBSET Links /\ halting \in SUBSET Links
    /\ TriedOnce
    /\ \A l \in Links : reaction[l] = "running" /\ work[l] = "model" /\ l \notin cut =>
          turn = l /\ source[l] = "stored"
    /\ \A l \in Links : reaction[l] \in {"pending", "running"} => job[l] = "done"
    /\ scheduled => service = "on"
    /\ service = "off" => turn = 0 /\ \A l \in Links : work[l] = "no"

IInv == Room /\ OneHolder /\ Reactions

USE LinkAssumption, ChainAssumption DEF Links

----------------------------------------------------------------------------
(* Finite sets of members, and the last of some places.                     *)

LEMMA FiniteMembers ==
  /\ \A A \in SUBSET Members : IsFiniteSet(A) /\ Cardinality(A) \in Nat
  /\ \A A \in SUBSET (Members \X Members) : IsFiniteSet(A) /\ Cardinality(A) \in Nat
<1>1. IsFiniteSet(Members \X Members)
  BY MembersAssumption, FS_Product
<1> QED
  BY <1>1, MembersAssumption, FS_Subset, FS_CardinalityType

LEMMA FinitePlaces ==
  ASSUME NEW n \in Nat
  PROVE  IsFiniteSet(1..n)
<1>1. 1 \in Int /\ n \in Int
  OBVIOUS
<1> QED
  BY <1>1, FS_Interval

\* A nonempty set of places of a queue has a last one.
LEMMA LastPlace ==
  ASSUME NEW n \in Nat, NEW P \in SUBSET (1..n), P # {}
  PROVE  \E g \in P : \A i \in P : i <= g
<1> DEFINE R == {ss \in Nat \X Nat : ss[1] < ss[2]}
           fromEnd == {n - i : i \in P}
<1>1. IsWellFoundedOn(R, Nat)
  BY NatLessThanWellFounded DEF OpToRel
<1>2. fromEnd \subseteq Nat /\ fromEnd # {}
  <2>1. PICK i \in P : TRUE
    OBVIOUS
  <2>2. n - i \in fromEnd
    BY <2>1
  <2> QED
    BY <2>2
<1>3. PICK x \in fromEnd : \A y \in fromEnd : ~(<<y, x>> \in R)
  <2> HIDE DEF R, fromEnd
  <2> QED
    BY <1>1, <1>2, WFMin
<1>4. PICK g \in P : x = n - g
  BY <1>3
<1>5. \A i \in P : ~(n - i < n - g)
  BY <1>2, <1>3, <1>4
<1> QED
  BY <1>5

----------------------------------------------------------------------------
(* The scan for members to start.                                           *)

\* It gives out no slot that is not free: the last one it starts on a connection has
\* counted all the others.
LEMMA PassKeepsSlots ==
  ASSUME NEW r, NEW q \in Seq(Members), NEW rep \in Replies, SlotsOf(rep),
         NEW S \in SUBSET (DOMAIN q), IsPass(r, q, rep, S), NEW now \in Replies,
         \A m \in Members : now[m].at # "none" =>
             rep[m].at # "none" \/ \E i \in S : q[i] = m
  PROVE  SlotsOf(now)
<1> SUFFICES ASSUME NEW m \in Members
             PROVE  Cardinality({x \in Flying(now) : ConnectionOf[x] = ConnectionOf[m]})
                      <= Slots[ConnectionOf[m]]
  BY DEF SlotsOf
<1> DEFINE c == ConnectionOf[m]
           before == {x \in Flying(rep) : ConnectionOf[x] = c}
           after == {x \in Flying(now) : ConnectionOf[x] = c}
           P == {i \in S : ConnectionOf[q[i]] = c}
<1>1. after \in SUBSET Members /\ before \in SUBSET Members /\ Slots[c] \in Nat
  BY SlotsAssumption DEF Flying
<1>2. Len(q) \in Nat /\ P \in SUBSET (1..Len(q)) /\ \A i \in S : q[i] \in Members
  OBVIOUS
<1>3. CASE P = {}
  <2>1. after \subseteq before
    BY <1>3 DEF Flying
  <2>2. Cardinality(after) <= Cardinality(before)
    BY <1>1, <2>1, FiniteMembers, FS_Subset
  <2>3. Cardinality(before) <= Slots[c]
    BY DEF SlotsOf
  <2> QED
    BY <1>1, <2>2, <2>3, FiniteMembers
<1>4. CASE P # {}
  <2>1. PICK g \in P : \A i \in P : i <= g
    BY <1>2, <1>4, LastPlace
  <2> DEFINE ahead == Flying(rep) \cup {q[k] : k \in {n \in S : n < g}}
             counted == {x \in ahead : ConnectionOf[x] = ConnectionOf[q[g]]}
  <2>2. Cardinality(counted) < Slots[c]
    BY <2>1 DEF IsPass
  <2>3. after \subseteq counted \cup {q[g]}
    <3> SUFFICES ASSUME NEW x \in after PROVE x \in counted \cup {q[g]}
      OBVIOUS
    <3>1. x \in Members /\ ConnectionOf[x] = c /\ ConnectionOf[q[g]] = c
      BY <1>1, <2>1
    <3>2. CASE rep[x].at # "none"
      BY <3>1, <3>2 DEF Flying
    <3>3. ASSUME NEW i \in S, q[i] = x
          PROVE  x \in counted \cup {q[g]}
      <4>1. i \in P /\ i <= g /\ i \in Nat /\ g \in Nat
        BY <1>2, <2>1, <3>1, <3>3
      <4> QED
        BY <3>1, <3>3, <4>1
    <3> QED
      BY <3>1, <3>2, <3>3 DEF Flying
  <2>4. counted \in SUBSET Members
    BY <1>2 DEF Flying
  <2>5. /\ IsFiniteSet(counted \cup {q[g]})
        /\ Cardinality(counted \cup {q[g]}) <= Cardinality(counted) + 1
        /\ Cardinality(counted) \in Nat /\ Cardinality(counted \cup {q[g]}) \in Nat
    <3>1. IsFiniteSet(counted) /\ Cardinality(counted) \in Nat
      BY <2>4, FiniteMembers
    <3>2. /\ IsFiniteSet(counted \cup {q[g]})
          /\ Cardinality(counted \cup {q[g]})
               = IF q[g] \in counted THEN Cardinality(counted) ELSE Cardinality(counted) + 1
      <4> HIDE DEF counted
      <4> QED
        BY <3>1, FS_AddElement, Zenon
    <3> HIDE DEF counted
    <3> QED
      BY <3>1, <3>2
  <2>6. Cardinality(after) <= Cardinality(counted \cup {q[g]})
    BY <2>3, <2>5, FS_Subset
  <2> QED
    BY <1>1, <2>2, <2>5, <2>6, FiniteMembers
<1> QED
  BY <1>3, <1>4

LEMMA FreshRuns ==
  /\ NoRun \in Runs /\ NoRun.used = 0 /\ NoRun.stopped = FALSE /\ NoRun.at = "none"
  /\ NewRun \in Runs /\ NewRun.used = 0 /\ NewRun.stopped = FALSE /\ NewRun.at = "preparing"
<1>1. 0 \in 0..ChainLimit /\ {} \in SUBSET Members
  OBVIOUS
<1>2. NoRun \in Runs /\ NoRun.used = 0 /\ NoRun.stopped = FALSE /\ NoRun.at = "none"
  BY <1>1 DEF NoRun, Runs
<1> QED
  BY <1>2 DEF NewRun, Runs

\* A room where nobody answers, idle or with a message to prepare, is sound.
LEMMA FreshRoom ==
  ASSUME run' = NoRun \/ run' = NewRun, queue' \in Seq(Members), reserved' = {},
         reply' \in Replies, Flying(reply') = {}, waiting' \in BOOLEAN
  PROVE  Room'
<1>1. /\ run' \in Runs /\ run'.used = 0 /\ run'.stopped = FALSE
      /\ run'.at \in {"none", "preparing"} /\ (run'.at = "none" => run' = NoRun)
  BY FreshRuns
<1>2. Cardinality({}) = 0
  BY FS_EmptySet
<1>3. SlotsOf(reply')
  <2> SUFFICES ASSUME NEW m \in Members
               PROVE  Cardinality({n \in Flying(reply') : ConnectionOf[n] = ConnectionOf[m]})
                        <= Slots[ConnectionOf[m]]
    BY DEF SlotsOf
  <2>1. {n \in Flying(reply') : ConnectionOf[n] = ConnectionOf[m]} = {}
    OBVIOUS
  <2> QED
    BY <2>1, <1>2, SlotsAssumption
<1>4. SlotsOf(reply)' /\ Flying(reply)' = {}
  BY <1>3 DEF SlotsOf, Flying
<1>5. WakesWithinLimit'
  BY <1>1, <1>2 DEF WakesWithinLimit
<1> QED
  BY <1>1, <1>4, <1>5 DEF Room

\* The end of a run leaves an idle room, or one that the next message prepares.
LEMMA EndKeepsRoom ==
  ASSUME waiting \in BOOLEAN, EndRun
  PROVE  Room' /\ ~waiting'
<1>1. (run' = NoRun \/ run' = NewRun) /\ waiting' = FALSE /\ queue' = <<>> /\ reserved' = {}
      /\ reply' = [m \in Members |-> NoReply]
  BY DEF EndRun, PassOn
<1>2. Flying(reply') = {} /\ reply' \in Replies
  BY <1>1 DEF Flying, NoReply, Replies
<1>3. queue' \in Seq(Members)
  BY <1>1
<1> QED
  BY <1>1, <1>2, <1>3, FreshRoom

\* processQueue keeps the room, from any run, queue and replies that are sound.
LEMMA GoOnKeepsRoom ==
  ASSUME NEW r \in Runs, NEW q \in Seq(Members), NEW rep \in Replies, SlotsOf(rep),
         NEW res \in SUBSET (Members \X Members), \A e \in res : e[1] \in Flying(rep),
         r.stopped => res = {}, r.used + Cardinality(res) <= ChainLimit,
         waiting \in BOOLEAN, waiting => r.stopped,
         GoOn(r, q, rep, res)
  PROVE  Room' /\ (waiting' => run'.stopped)
<1>1. PICK S \in SUBSET (DOMAIN q) :
         LET now == [m \in Members |-> IF m \in {q[i] : i \in S} THEN NewReply ELSE rep[m]]
         IN /\ IsPass(r, q, rep, S)
            /\ \/ /\ Flying(now) # {}
                  /\ run' = [r EXCEPT !.at = "working"]
                  /\ UNCHANGED waiting
                  /\ \E place \in InOrder(DOMAIN q \ S) :
                        queue' = [n \in DOMAIN place |-> q[place[n]]]
                  /\ reply' = now /\ reserved' = res
               \/ /\ Flying(now) = {}
                  /\ ~r.stopped /\ r.used < ChainLimit /\ r.last # {}
                  /\ run' = [r EXCEPT !.at = "judging"]
                  /\ UNCHANGED waiting
                  /\ queue' = <<>> /\ reply' = now /\ reserved' = res
               \/ Flying(now) = {} /\ EndRun
  BY Zenon DEF GoOn
<1> DEFINE now == [m \in Members |-> IF m \in {q[i] : i \in S} THEN NewReply ELSE rep[m]]
<1>2. now \in Replies
  BY DEF Replies, NewReply, NoReply
<1>3. Flying(rep) \subseteq Flying(now)
  BY DEF Flying, NewReply, NoReply
<1>4. SlotsOf(now)
  <2>1. \A m \in Members : now[m].at # "none" => rep[m].at # "none" \/ \E i \in S : q[i] = m
    OBVIOUS
  <2> HIDE DEF now
  <2> QED
    BY <1>1, <1>2, <2>1, PassKeepsSlots
<1>5. Cardinality(res) \in Nat
  BY FiniteMembers
<1> HIDE DEF now
<1>6. CASE /\ Flying(now) # {}
           /\ run' = [r EXCEPT !.at = "working"] /\ UNCHANGED waiting
           /\ \E place \in InOrder(DOMAIN q \ S) : queue' = [n \in DOMAIN place |-> q[place[n]]]
           /\ reply' = now /\ reserved' = res
  <2>1. queue' \in Seq(Members)
    <3>1. PICK place \in InOrder(DOMAIN q \ S) : queue' = [n \in DOMAIN place |-> q[place[n]]]
      BY <1>6
    <3> DEFINE k == Cardinality(DOMAIN q \ S)
    <3>2. k \in Nat
      <4>1. Len(q) \in Nat /\ DOMAIN q = 1..Len(q)
        OBVIOUS
      <4>2. IsFiniteSet(DOMAIN q)
        BY <4>1, FinitePlaces
      <4>3. IsFiniteSet(DOMAIN q \ S)
        BY <4>2, FS_Subset
      <4> QED
        BY <4>3, FS_CardinalityType
    <3>3. place \in [1..k -> DOMAIN q \ S]
      BY DEF InOrder
    <3> HIDE DEF k
    <3>4. \A n \in 1..k : q[place[n]] \in Members
      BY <3>3
    <3> QED
      BY <3>1, <3>2, <3>3, <3>4
  <2>2. run' \in Runs /\ run'.at = "working" /\ run'.stopped = r.stopped /\ run'.used = r.used
    BY <1>6 DEF Runs
  <2> QED
    BY <1>2, <1>3, <1>4, <1>5, <1>6, <2>1, <2>2 DEF Room, WakesWithinLimit, SlotsOf, Flying
<1>7. CASE /\ Flying(now) = {}
           /\ ~r.stopped /\ r.used < ChainLimit
           /\ run' = [r EXCEPT !.at = "judging"] /\ UNCHANGED waiting
           /\ queue' = <<>> /\ reply' = now /\ reserved' = res
  <2>1. run' \in Runs /\ run'.at = "judging" /\ run'.stopped = r.stopped /\ run'.used = r.used
    BY <1>7 DEF Runs
  <2> QED
    BY <1>2, <1>3, <1>4, <1>5, <1>7, <2>1 DEF Room, WakesWithinLimit, SlotsOf, Flying
<1>8. CASE EndRun
  BY <1>8, EndKeepsRoom
<1> QED
  BY <1>1, <1>6, <1>7, <1>8 DEF now

\* stop() keeps the room.
LEMMA HaltKeepsRoom ==
  ASSUME Room, HaltRun, waiting' \in BOOLEAN
  PROVE  /\ Room' /\ run'.at = run.at
         /\ run.at # "none" => run'.stopped
<1>1. run' \in Runs /\ run'.at = run.at /\ run'.used = run.used
      /\ (run.at # "none" => run'.stopped) /\ (run.at = "none" => run' = run)
  BY DEF Room, HaltRun, Runs
<1>2. reserved' = {} /\ Cardinality({}) = 0 /\ queue' = <<>> /\ reply' = reply
  BY FS_EmptySet DEF HaltRun
<1> QED
  BY <1>1, <1>2 DEF Room, WakesWithinLimit, Runs, SlotsOf, Flying

----------------------------------------------------------------------------
(* The steps of a run.                                                      *)

LEMMA OrdersOfMembers ==
  ASSUME NEW R \in SUBSET Members, NEW q \in Orders(R)
  PROVE  q \in Seq(Members)
<1>1. q \in [1..Cardinality(R) -> R] /\ Cardinality(R) \in Nat
  BY FiniteMembers DEF Orders
<1> QED
  BY <1>1

LEMMA FewerReplies ==
  ASSUME NEW rep \in Replies, SlotsOf(rep), NEW now \in Replies, Flying(now) \subseteq Flying(rep)
  PROVE  SlotsOf(now)
<1> SUFFICES ASSUME NEW m \in Members
             PROVE  Cardinality({x \in Flying(now) : ConnectionOf[x] = ConnectionOf[m]})
                      <= Slots[ConnectionOf[m]]
  BY DEF SlotsOf
<1> DEFINE A == {x \in Flying(rep) : ConnectionOf[x] = ConnectionOf[m]}
           B == {x \in Flying(now) : ConnectionOf[x] = ConnectionOf[m]}
<1>1. B \subseteq A /\ A \in SUBSET Members /\ B \in SUBSET Members
  BY DEF Flying
<1>2. Cardinality(B) <= Cardinality(A) /\ Cardinality(A) \in Nat /\ Cardinality(B) \in Nat
  <2> HIDE DEF A, B
  <2> QED
    BY <1>1, FiniteMembers, FS_Subset
<1>3. Cardinality(A) <= Slots[ConnectionOf[m]] /\ Slots[ConnectionOf[m]] \in Nat
  BY SlotsAssumption DEF SlotsOf
<1> QED
  BY <1>2, <1>3

\* The reply of m is over: the others are as sound as before.
LEMMA OneReplyLess ==
  ASSUME Room, NEW m \in Members
  PROVE  LET rep == [reply EXCEPT ![m] = NoReply]
         IN rep \in Replies /\ SlotsOf(rep) /\ Flying(rep) = Flying(reply) \ {m}
<1> DEFINE rep == [reply EXCEPT ![m] = NoReply]
<1>1. rep \in Replies /\ reply \in Replies
  BY DEF Room, Replies, NoReply
<1>2. Flying(rep) = Flying(reply) \ {m}
  BY <1>1 DEF Flying, NoReply, Replies
<1>3. SlotsOf(reply)
  BY DEF Room
<1> HIDE DEF rep
<1>4. SlotsOf(rep)
  BY <1>1, <1>2, <1>3, FewerReplies
<1> QED
  BY <1>1, <1>2, <1>4 DEF rep

\* What is reserved for m and for the others.
LEMMA Shares ==
  ASSUME Room, NEW m \in Members
  PROVE  LET own == {e \in reserved : e[1] = m}
             others == {e \in reserved : e[1] # m}
             called == {e[2] : e \in own}
         IN /\ called \in SUBSET Members /\ others \in SUBSET (Members \X Members)
            /\ reserved \ own = others
            /\ Cardinality(called) + Cardinality(others) <= Cardinality(reserved)
            /\ Cardinality(called) \in Nat /\ Cardinality(others) \in Nat
            /\ Cardinality(reserved) \in Nat
<1> DEFINE own == {e \in reserved : e[1] = m}
           others == {e \in reserved : e[1] # m}
           called == {e[2] : e \in own}
           f == [x \in called |-> <<m, x>>]
<1>1. reserved \in SUBSET (Members \X Members)
  BY DEF Room
<1>2. /\ called \in SUBSET Members /\ others \in SUBSET (Members \X Members)
      /\ own \in SUBSET (Members \X Members) /\ reserved \ own = others
      /\ own \cup others = reserved /\ own \cap others = {}
  BY <1>1
<1>3. \A x \in called : <<m, x>> \in own
  BY <1>1
<1>4. f \in Injection(called, own)
  BY <1>3 DEF Injection, IsInjective
<1>5. /\ IsFiniteSet(own) /\ IsFiniteSet(others)
      /\ Cardinality(own) \in Nat /\ Cardinality(others) \in Nat
      /\ Cardinality(called) \in Nat /\ Cardinality(reserved) \in Nat
  <2> HIDE DEF own, others, called
  <2> QED
    BY <1>1, <1>2, FiniteMembers
<1>6. Cardinality(called) <= Cardinality(own)
  <2> HIDE DEF own, called, f
  <2> QED
    BY <1>4, <1>5, FS_Injection
<1>7. Cardinality(reserved) = Cardinality(own) + Cardinality(others)
  <2> HIDE DEF own, others
  <2>1. Cardinality(own \cup others)
          = Cardinality(own) + Cardinality(others) - Cardinality(own \cap others)
    BY <1>5, FS_Union
  <2>2. own \cup others = reserved /\ own \cap others = {} /\ Cardinality({}) = 0
    BY <1>2, FS_EmptySet
  <2>3. Cardinality(reserved) = Cardinality(own) + Cardinality(others) - 0
    BY <2>1, <2>2
  <2> QED
    BY <1>5, <2>3
<1> HIDE DEF own, others, called
<1>8. Cardinality(called) + Cardinality(others) <= Cardinality(reserved)
  BY <1>5, <1>6, <1>7
<1> QED
  BY <1>2, <1>5, <1>8 DEF own, others, called

\* While a run holds the room no reaction does, and what the run does is no concern of
\* the reactions but for their messages.
LEMMA RunIsAlone ==
  ASSUME IInv, run.at # "none"
  PROVE  ~order /\ turn = 0 /\ (waiting => run.stopped)
BY DEF IInv, OneHolder

LEMMA RunSparesReactions ==
  ASSUME IInv, run.at # "none", Unreacted, scheduled' \in BOOLEAN,
         scheduled' => service = "on",
         source' \in [Links -> {"none", "stored", "overtaken", "lost"}],
         waiting' => run'.stopped
  PROVE  OneHolder' /\ Reactions'
<1>1. ~order /\ turn = 0
  BY DEF IInv, OneHolder
<1>2. order' = order /\ job' = job /\ reaction' = reaction /\ attempts' = attempts
      /\ work' = work /\ turn' = turn /\ cut' = cut /\ halting' = halting
      /\ service' = service /\ left' = left
  BY DEF Unreacted, reactionVars
<1>3. OneHolder'
  BY <1>1, <1>2 DEF OneHolder
<1>4. Reactions'
  BY <1>1, <1>2 DEF IInv, Reactions, TriedOnce
<1> QED
  BY <1>3, <1>4

\* What the rest of the room has when a run holds it.
LEMMA RunFacts ==
  ASSUME IInv
  PROVE  /\ Room /\ run \in Runs /\ queue \in Seq(Members) /\ reply \in Replies /\ SlotsOf(reply)
         /\ reserved \in SUBSET (Members \X Members) /\ waiting \in BOOLEAN
         /\ \A e \in reserved : e[1] \in Flying(reply)
         /\ run.stopped => reserved = {}
         /\ run.used + Cardinality(reserved) <= ChainLimit
         /\ source \in [Links -> {"none", "stored", "overtaken", "lost"}]
         /\ scheduled \in BOOLEAN /\ (scheduled => service = "on")
BY DEF IInv, Room, Reactions, WakesWithinLimit

\* When nobody answers nothing is promised.
LEMMA NobodyIsPromised ==
  ASSUME Room, run.at # "working"
  PROVE  reserved = {} /\ Flying(reply) = {} /\ Cardinality(reserved) = 0
<1>1. reserved = {} /\ Flying(reply) = {}
  BY DEF Room
<1> QED
  BY <1>1, FS_EmptySet

LEMMA DeliverKeeps ==
  ASSUME IInv, Deliver
  PROVE  IInv'
<1>1. /\ run.at = "preparing" /\ Unreacted /\ UNCHANGED scheduled
      /\ source' = [l \in Links |-> IF source[l] = "stored" THEN "overtaken" ELSE source[l]]
  BY DEF Deliver
<1>2. Room' /\ (waiting' => run'.stopped)
  <2>1. CASE /\ run' = [run EXCEPT !.at = "routing"]
             /\ UNCHANGED <<queue, reply, reserved, waiting>>
    <3>1. run' \in Runs /\ run'.at = "routing" /\ run'.stopped = run.stopped
          /\ run'.used = run.used
      BY <2>1, RunFacts DEF Runs
    <3>2. Flying(reply) = {} /\ (waiting => run.stopped)
      BY <1>1, RunFacts, NobodyIsPromised, RunIsAlone
    <3> QED
      BY <2>1, <3>1, <3>2 DEF IInv, Room, WakesWithinLimit, SlotsOf, Flying
  <2>2. ASSUME NEW R \in SUBSET Members, NEW q \in Orders(R), GoOn(run, q, reply, reserved)
        PROVE  Room' /\ (waiting' => run'.stopped)
    <3>1. q \in Seq(Members) /\ (waiting => run.stopped)
      BY <1>1, OrdersOfMembers, RunIsAlone
    <3> QED
      BY <2>2, <3>1, RunFacts, GoOnKeepsRoom
  <2> QED
    BY <2>1, <2>2 DEF Deliver
<1>3. /\ source' \in [Links -> {"none", "stored", "overtaken", "lost"}]
      /\ scheduled' \in BOOLEAN /\ (scheduled' => service = "on")
  BY <1>1, RunFacts
<1> QED
  BY <1>1, <1>2, <1>3, RunSparesReactions DEF IInv

LEMMA PreparationFailsKeeps ==
  ASSUME IInv, PreparationFails
  PROVE  IInv'
<1>1. Room' /\ ~waiting'
  BY RunFacts, EndKeepsRoom DEF PreparationFails
<1> QED
  BY <1>1, RunFacts, RunSparesReactions DEF IInv, PreparationFails

LEMMA RouteKeeps ==
  ASSUME IInv, Route
  PROVE  IInv'
<1>1. Room' /\ (waiting' => run'.stopped)
  <2>1. PICK q \in {<<>>} \cup {<<m>> : m \in Members} : GoOn(run, q, reply, reserved)
    BY DEF Route
  <2>2. q \in Seq(Members)
    <3>1. q = <<>> \/ \E m \in Members : q = <<m>>
      OBVIOUS
    <3>2. <<>> \in Seq(Members) /\ \A m \in Members : <<m>> \in Seq(Members)
      OBVIOUS
    <3> QED
      BY <3>1, <3>2
  <2>3. waiting => run.stopped
    BY RunIsAlone DEF Route
  <2> QED
    BY <2>1, <2>2, <2>3, RunFacts, GoOnKeepsRoom
<1> QED
  BY <1>1, RunFacts, RunSparesReactions DEF IInv, Route

LEMMA JudgeEndsKeeps ==
  ASSUME IInv, JudgeEnds
  PROVE  IInv'
<1>1. Room' /\ (waiting' => run'.stopped)
  <2>1. ASSUME NEW m \in Members, ~run.stopped,
               GoOn([run EXCEPT !.used = @ + 1], <<m>>, reply, reserved)
        PROVE  Room' /\ (waiting' => run'.stopped)
    <3> DEFINE r == [run EXCEPT !.used = @ + 1]
    <3>1. run.at = "judging" /\ run.used < ChainLimit
      BY DEF JudgeEnds, IInv, Room
    <3>2. r \in Runs /\ r.used = run.used + 1 /\ r.stopped = run.stopped /\ r.used <= ChainLimit
      BY <3>1, RunFacts DEF Runs
    <3>3. Cardinality(reserved) = 0 /\ (waiting => run.stopped)
      BY <3>1, RunFacts, NobodyIsPromised, RunIsAlone
    <3>4. r.used + Cardinality(reserved) <= ChainLimit
      BY <3>2, <3>3 DEF Runs
    <3>5. <<m>> \in Seq(Members) /\ GoOn(r, <<m>>, reply, reserved)
      BY <2>1
    <3> HIDE DEF r
    <3> QED
      BY <3>2, <3>3, <3>4, <3>5, RunFacts, GoOnKeepsRoom
  <2>2. CASE EndRun
    BY <2>2, RunFacts, EndKeepsRoom
  <2> QED
    BY <2>1, <2>2 DEF JudgeEnds
<1> QED
  BY <1>1, RunFacts, RunSparesReactions DEF IInv, JudgeEnds

\* A reply that is over leaves the room to processQueue.
LEMMA LeaveKeeps ==
  ASSUME IInv, NEW m \in Members, reply[m].at # "none", NEW r \in Runs,
         r.stopped = run.stopped, NEW q \in Seq(Members),
         NEW res \in SUBSET {e \in reserved : e[1] # m},
         r.used + Cardinality(res) <= ChainLimit,
         NEW what \in {"stored", "lost"}, Leave(m, r, q, res, what)
  PROVE  IInv'
<1> DEFINE rep == [reply EXCEPT ![m] = NoReply]
<1>1. rep \in Replies /\ SlotsOf(rep) /\ Flying(rep) = Flying(reply) \ {m}
  BY RunFacts, OneReplyLess
<1>2. run.at # "none"
  BY DEF IInv, Room, Flying
<1>3. waiting => r.stopped
  BY <1>2, RunIsAlone
<1>4. res \in SUBSET (Members \X Members) /\ \A e \in res : e[1] \in Flying(rep)
  BY <1>1, RunFacts
<1>5. r.stopped => res = {}
  BY RunFacts
<1>6. GoOn(r, q, rep, res) /\ Unreacted /\ waiting \in BOOLEAN
  BY RunFacts DEF Leave
<1>7. Room' /\ (waiting' => run'.stopped)
  <2> HIDE DEF rep
  <2> QED
    BY <1>1, <1>3, <1>4, <1>5, <1>6, GoOnKeepsRoom
<1>8. source' \in [Links -> {"none", "stored", "overtaken", "lost"}]
  BY RunFacts DEF Leave
<1>9. scheduled' \in BOOLEAN /\ (scheduled' => service = "on")
  BY RunFacts DEF Leave, Hook
<1> QED
  BY <1>2, <1>6, <1>7, <1>8, <1>9, RunSparesReactions DEF IInv

LEMMA StoreKeeps ==
  ASSUME IInv, NEW m \in Members, Store(m)
  PROVE  IInv'
<1> DEFINE own == {e \in reserved : e[1] = m}
           others == {e \in reserved : e[1] # m}
           called == {e[2] : e \in own}
           now == [run EXCEPT !.last = {m}]
<1>1. reply[m].at # "none" /\ Room
  BY RunFacts DEF Store
<1>2. now \in Runs /\ now.stopped = run.stopped /\ now.used = run.used /\ run.used \in Nat
  BY RunFacts DEF Runs
<1>3. /\ called \in SUBSET Members /\ reserved \ own = others
      /\ Cardinality(called) + Cardinality(others) <= Cardinality(reserved)
      /\ Cardinality(called) \in Nat /\ Cardinality(others) \in Nat
      /\ Cardinality(reserved) \in Nat
  BY <1>1, Shares
<1>4. \/ run.stopped /\ Leave(m, now, queue, reserved, "stored")
      \/ /\ ~run.stopped
         /\ \E s \in Orders(called) :
               Leave(m, [now EXCEPT !.used = @ + Cardinality(called)], queue \o s,
                     reserved \ own, "stored")
  BY DEF Store
<1> HIDE DEF now
<1>5. CASE run.stopped /\ Leave(m, now, queue, reserved, "stored")
  <2>1. reserved \in SUBSET {e \in reserved : e[1] # m}
    BY <1>5, RunFacts
  <2>2. now.used + Cardinality(reserved) <= ChainLimit
    BY <1>2, RunFacts
  <2> QED
    BY <1>1, <1>2, <1>5, <2>1, <2>2, RunFacts, LeaveKeeps
<1>6. ASSUME ~run.stopped, NEW s \in Orders(called),
             Leave(m, [now EXCEPT !.used = @ + Cardinality(called)], queue \o s,
                   reserved \ own, "stored")
      PROVE  IInv'
  <2> DEFINE r == [now EXCEPT !.used = @ + Cardinality(called)]
  <2>1. s \in Seq(Members)
    <3> HIDE DEF called
    <3> QED
      BY <1>3, OrdersOfMembers
  <2>2. queue \o s \in Seq(Members)
    BY <2>1, RunFacts
  <2>3. /\ run.used + Cardinality(called) + Cardinality(others) <= ChainLimit
        /\ run.used + Cardinality(called) \in 0..ChainLimit
    <3> HIDE DEF called, others
    <3> QED
      BY <1>2, <1>3, RunFacts
  <2>4. r \in Runs /\ r.stopped = run.stopped /\ r.used = run.used + Cardinality(called)
    <3> HIDE DEF called
    <3> QED
      BY <1>2, <2>3 DEF Runs
  <2>5. Leave(m, r, queue \o s, others, "stored")
    <3> HIDE DEF others, called
    <3> QED
      BY <1>3, <1>6
  <2>6. r.used + Cardinality(others) <= ChainLimit
    <3> HIDE DEF others, called, r
    <3> QED
      BY <2>3, <2>4
  <2> HIDE DEF r
  <2> QED
    BY <1>1, <2>2, <2>4, <2>5, <2>6, LeaveKeeps
<1> QED
  BY <1>4, <1>5, <1>6

LEMMA FailKeeps ==
  ASSUME IInv, NEW m \in Members, Fail(m)
  PROVE  IInv'
<1> DEFINE others == {e \in reserved : e[1] # m}
           now == [run EXCEPT !.last = {}]
<1>1. reply[m].at # "none" /\ Room
  BY RunFacts DEF Fail
<1>2. now \in Runs /\ now.stopped = run.stopped /\ now.used = run.used /\ run.used \in Nat
  BY RunFacts DEF Runs
<1>3. run.used + Cardinality(others) <= ChainLimit
  <2>1. Cardinality(others) <= Cardinality(reserved)
        /\ Cardinality(others) \in Nat /\ Cardinality(reserved) \in Nat
    <3> DEFINE own == {e \in reserved : e[1] = m}
               called == {e[2] : e \in own}
    <3>1. /\ Cardinality(called) + Cardinality(others) <= Cardinality(reserved)
          /\ Cardinality(called) \in Nat
          /\ Cardinality(others) \in Nat /\ Cardinality(reserved) \in Nat
      BY <1>1, Shares
    <3> QED
      BY <3>1
  <2> QED
    BY <1>2, <2>1, RunFacts
<1>4. \/ Leave(m, now, queue, others, "stored")
      \/ Leave(m, run, queue, others, "lost")
  BY DEF Fail
<1> HIDE DEF now
<1> QED
  BY <1>1, <1>2, <1>3, <1>4, RunFacts, LeaveKeeps

\* reserve() promises no wake that is not left.
LEMMA ReserveKeepsLimit ==
  ASSUME Room, NEW m \in Members, NEW R \in SUBSET Members, reply[m].at # "none",
         Reservable(m, R), Reserve(m, R)
  PROVE  /\ reserved' \in SUBSET (Members \X Members) /\ ~run.stopped
         /\ \A e \in reserved' : e[1] \in Flying(reply)
         /\ run.used + Cardinality(reserved') <= ChainLimit
<1> DEFINE others == {e \in reserved : e[1] # m}
           own == {e \in reserved : e[1] = m}
           called == {e[2] : e \in own}
<1>1. /\ others \in SUBSET (Members \X Members)
      /\ Cardinality(called) + Cardinality(others) <= Cardinality(reserved)
      /\ Cardinality(called) \in Nat /\ Cardinality(others) \in Nat
      /\ Cardinality(reserved) \in Nat
  BY Shares
<1>2. reserved' = others \cup ({m} \X R) /\ ~run.stopped
  BY DEF Reserve, Reservable
<1>3. \A e \in reserved' : e[1] \in Flying(reply)
  <2>1. \A e \in others : e[1] \in Flying(reply)
    BY DEF Room
  <2> QED
    BY <1>2, <2>1 DEF Flying
<1>4. reserved' \in SUBSET (Members \X Members)
  BY <1>1, <1>2
<1>5. run.used \in Nat /\ run.used + Cardinality(reserved) <= ChainLimit
  BY DEF Room, Runs, WakesWithinLimit
<1>6. CASE R = {}
  <2>1. reserved' = others
    BY <1>2, <1>6
  <2>2. run.used + Cardinality(others) <= ChainLimit
    <3> HIDE DEF called, others
    <3> QED
      BY <1>1, <1>5
  <2> QED
    BY <1>2, <1>3, <1>4, <2>1, <2>2
<1>7. CASE R # {}
  <2>1. run.used + Cardinality(others) + Cardinality(R) <= ChainLimit
    BY <1>7 DEF Reservable
  <2>2. Cardinality({m} \X R) = Cardinality(R) /\ IsFiniteSet({m} \X R) /\ Cardinality(R) \in Nat
    <3>1. IsFiniteSet({m}) /\ Cardinality({m}) = 1 /\ IsFiniteSet(R) /\ Cardinality(R) \in Nat
      BY FiniteMembers, FS_Singleton
    <3>2. IsFiniteSet({m} \X R) /\ Cardinality({m} \X R) = Cardinality({m}) * Cardinality(R)
      BY <3>1, FS_Product
    <3> QED
      BY <3>1, <3>2
  <2>3. IsFiniteSet(others) /\ IsFiniteSet({m} \X R) /\ others \cap ({m} \X R) = {}
    BY <1>1, <2>2, FiniteMembers
  <2> HIDE DEF others, called
  <2>4. Cardinality(reserved') = Cardinality(others) + Cardinality({m} \X R)
    <3>1. Cardinality(others \cup ({m} \X R))
            = Cardinality(others) + Cardinality({m} \X R)
                - Cardinality(others \cap ({m} \X R))
      BY <2>3, FS_Union
    <3>2. Cardinality(others \cap ({m} \X R)) = 0
      BY <2>3, FS_EmptySet
    <3> QED
      BY <1>1, <1>2, <2>2, <3>1, <3>2
  <2>5. run.used + Cardinality(reserved') <= ChainLimit
    BY <1>1, <1>5, <2>1, <2>2, <2>4
  <2> QED
    BY <1>2, <1>3, <1>4, <2>5
<1> QED
  BY <1>6, <1>7

\* A reply goes on: nobody starts or stops, and the promises are within the limit.
LEMMA RepliesGoOn ==
  ASSUME Room, UNCHANGED <<run, queue, waiting>>, reply' \in Replies,
         \A m \in Members : reply'[m].at = "none" <=> reply[m].at = "none",
         reserved' \in SUBSET (Members \X Members),
         \A e \in reserved' : e[1] \in Flying(reply),
         run.stopped => reserved' = {},
         run.used + Cardinality(reserved') <= ChainLimit
  PROVE  Room'
<1>1. Flying(reply') = Flying(reply)
  BY DEF Flying
<1>2. SlotsOf(reply')
  BY <1>1 DEF SlotsOf, Room
<1> QED
  BY <1>1, <1>2 DEF Room, WakesWithinLimit, SlotsOf, Flying

LEMMA CallKeeps ==
  ASSUME IInv, NEW m \in Members, Call(m)
  PROVE  IInv'
<1>1. PICK R \in SUBSET Members : Reservable(m, R) /\ Reserve(m, R)
  BY DEF Call
<1>2. reply[m].at # "none" /\ run.at # "none" /\ Unreacted
  BY DEF Call, IInv, Room, Flying
<1>3. /\ reserved' \in SUBSET (Members \X Members) /\ ~run.stopped
      /\ \A e \in reserved' : e[1] \in Flying(reply)
      /\ run.used + Cardinality(reserved') <= ChainLimit
  BY <1>1, <1>2, RunFacts, ReserveKeepsLimit
<1>4. /\ reply' \in Replies
      /\ \A n \in Members : reply'[n].at = "none" <=> reply[n].at = "none"
  BY RunFacts DEF Call, Replies
<1>5. UNCHANGED <<run, queue, waiting, source, scheduled>>
  BY DEF Call
<1>6. Room'
  BY <1>3, <1>4, <1>5, RunFacts, RepliesGoOn
<1> QED
  BY <1>2, <1>5, <1>6, RunFacts, RunIsAlone, RunSparesReactions DEF IInv

LEMMA AnswerKeeps ==
  ASSUME IInv, NEW m \in Members, Answer(m)
  PROVE  IInv'
<1>1. reply[m].at # "none" /\ run.at # "none" /\ Unreacted
  BY DEF Answer, IInv, Room, Flying
<1>2. /\ reserved' \in SUBSET (Members \X Members)
      /\ \A e \in reserved' : e[1] \in Flying(reply)
      /\ run.stopped => reserved' = {}
      /\ run.used + Cardinality(reserved') <= ChainLimit
  <2>1. CASE UNCHANGED reserved
    BY <2>1, RunFacts
  <2>2. ASSUME NEW R \in SUBSET Members, Reservable(m, R), Reserve(m, R)
        PROVE  /\ reserved' \in SUBSET (Members \X Members) /\ ~run.stopped
               /\ \A e \in reserved' : e[1] \in Flying(reply)
               /\ run.used + Cardinality(reserved') <= ChainLimit
    BY <1>1, <2>2, RunFacts, ReserveKeepsLimit
  <2> QED
    BY <2>1, <2>2 DEF Answer
<1>3. /\ reply' \in Replies
      /\ \A n \in Members : reply'[n].at = "none" <=> reply[n].at = "none"
  BY RunFacts DEF Answer, Replies
<1>4. UNCHANGED <<run, queue, waiting, source, scheduled>>
  BY DEF Answer
<1>5. Room'
  BY <1>2, <1>3, <1>4, RunFacts, RepliesGoOn
<1> QED
  BY <1>1, <1>4, <1>5, RunFacts, RunIsAlone, RunSparesReactions DEF IInv

LEMMA SubmitJobKeeps ==
  ASSUME IInv, NEW m \in Members, NEW l \in Links, SubmitJob(m, l)
  PROVE  IInv'
<1>1. /\ reply' \in Replies
      /\ \A n \in Members : reply'[n].at = "none" <=> reply[n].at = "none"
  BY RunFacts DEF SubmitJob, Replies
<1>2. UNCHANGED <<run, queue, reserved, waiting>>
  BY DEF SubmitJob
<1>3. Room'
  BY <1>1, <1>2, RunFacts, RepliesGoOn
<1>4. OneHolder'
  BY <1>2 DEF IInv, OneHolder, SubmitJob, reactionVars
<1>5. Reactions'
  <2>1. left' \in [{"sends", "jobs", "mishaps"} -> Nat]
    BY DEF SubmitJob, Spend, IInv, Reactions
  <2>2. job' = [job EXCEPT ![l] = "running"] /\ job[l] = "none"
    BY DEF SubmitJob
  <2>3. order' = order /\ source' = source /\ reaction' = reaction /\ attempts' = attempts
        /\ work' = work /\ turn' = turn /\ cut' = cut /\ halting' = halting
        /\ scheduled' = scheduled /\ service' = service
    BY DEF SubmitJob, reactionVars
  <2> QED
    BY <2>1, <2>2, <2>3 DEF IInv, Reactions, TriedOnce
<1> QED
  BY <1>3, <1>4, <1>5 DEF IInv

----------------------------------------------------------------------------
(* The steps of a user, which stop what holds the room.                     *)

LEMMA SpendTyped ==
  ASSUME IInv, NEW what \in {"sends", "jobs", "mishaps"}, Spend(what)
  PROVE  left' \in [{"sends", "jobs", "mishaps"} -> Nat]
BY DEF IInv, Reactions, Spend

LEMMA SendKeeps ==
  ASSUME IInv, Send
  PROVE  IInv'
<1>1. Room' /\ (waiting' => order \/ run'.stopped) /\ (run.at = "none" => order \/ ~waiting')
      /\ (order => run'.at = "none")
  <2>1. CASE (run.at # "none" \/ order) /\ HaltRun /\ waiting' = TRUE
    <3>1. Room' /\ run'.at = run.at /\ (run.at # "none" => run'.stopped)
      BY <2>1, RunFacts, HaltKeepsRoom
    <3> QED
      BY <2>1, <3>1 DEF IInv, OneHolder
  <2>2. CASE ~(run.at # "none" \/ order)
             /\ run' = NewRun /\ UNCHANGED <<queue, reply, reserved, waiting>>
    <3>1. run = NoRun /\ ~waiting
      BY <2>2, FreshRuns DEF IInv, Room, OneHolder
    <3>2. reserved = {} /\ Flying(reply) = {} /\ Cardinality(reserved) = 0
      BY <2>2, RunFacts, NobodyIsPromised
    <3>3. Room'
      BY <2>2, <3>2, RunFacts, FreshRoom
    <3> QED
      BY <2>2, <3>1, <3>3
  <2> QED
    BY <2>1, <2>2 DEF Send
<1>2. /\ reaction' = [l \in Links |->
                      IF job[l] # "none" /\ reaction[l] \in {"no", "pending", "running"}
                      THEN "skipped" ELSE reaction[l]]
      /\ cut' = cut \cup ({turn} \ {0}) /\ turn' = 0
      /\ UNCHANGED <<attempts, work, halting, order, job, source, scheduled, service>>
  BY DEF Send, SkipReactions
<1>3. left' \in [{"sends", "jobs", "mishaps"} -> Nat]
  BY SpendTyped DEF Send
<1>4. OneHolder'
  BY <1>1, <1>2 DEF IInv, OneHolder
<1>5. Reactions'
  <2>1. cut' \in SUBSET Links
    BY <1>2 DEF IInv, Reactions
  <2>2. reaction' \in [Links -> {"no", "pending", "running", "done", "skipped", "failed"}]
    BY <1>2 DEF IInv, Reactions
  <2>3. \A l \in Links : reaction'[l] # "running"
    BY <1>2 DEF IInv, Reactions
  <2>4. TriedOnce'
    BY <1>2 DEF IInv, Reactions, TriedOnce
  <2> QED
    BY <1>2, <1>3, <2>1, <2>2, <2>3, <2>4 DEF IInv, Reactions
<1> QED
  BY <1>1, <1>4, <1>5 DEF IInv

LEMMA InterruptKeeps ==
  ASSUME IInv, Interrupt
  PROVE  IInv'
<1>1. Room' /\ run'.at = run.at /\ (run.at # "none" => run'.stopped)
  BY RunFacts, HaltKeepsRoom DEF Interrupt
<1>2. /\ cut' = cut \cup ({turn} \ {0}) /\ halting' = halting \cup ({turn} \ {0})
      /\ UNCHANGED <<waiting, order, job, source, reaction, attempts, work, turn,
                     scheduled, service>>
  BY DEF Interrupt
<1>3. left' \in [{"sends", "jobs", "mishaps"} -> Nat]
  BY SpendTyped DEF Interrupt
<1>4. run.at = "none" => ~run.stopped
  BY FreshRuns DEF IInv, Room
<1>5. OneHolder'
  BY <1>1, <1>2, <1>4 DEF IInv, OneHolder
<1>6. Reactions'
  BY <1>2, <1>3 DEF IInv, Reactions, TriedOnce
<1> QED
  BY <1>1, <1>5, <1>6 DEF IInv

LEMMA InterruptTimesOutKeeps ==
  ASSUME IInv, NEW l \in Links, InterruptTimesOut(l)
  PROVE  IInv'
<1>1. Room' /\ run'.at = run.at /\ (run.at # "none" => run'.stopped)
  BY RunFacts, HaltKeepsRoom DEF InterruptTimesOut
<1>2. /\ halting' = halting \ {l}
      /\ UNCHANGED <<waiting, order, job, source, reaction, attempts, work, turn, cut,
                     scheduled, service, left>>
  BY DEF InterruptTimesOut
<1>3. run.at = "none" => ~run.stopped
  BY FreshRuns DEF IInv, Room
<1>4. OneHolder'
  BY <1>1, <1>2, <1>3 DEF IInv, OneHolder
<1>5. Reactions'
  BY <1>2 DEF IInv, Reactions, TriedOnce
<1> QED
  BY <1>1, <1>4, <1>5 DEF IInv

----------------------------------------------------------------------------
(* The steps that leave the run alone.                                      *)

LEMMA SameRoom ==
  ASSUME Room, UNCHANGED roomVars
  PROVE  Room'
BY DEF Room, roomVars, WakesWithinLimit, SlotsOf, Flying

LEMMA WaitTimesOutKeeps ==
  ASSUME IInv, WaitTimesOut
  PROVE  IInv'
<1>1. Room' /\ OneHolder'
  BY DEF IInv, WaitTimesOut, Room, OneHolder, reactionVars, WakesWithinLimit, SlotsOf, Flying
<1>2. Reactions'
  BY DEF IInv, WaitTimesOut, Reactions, TriedOnce, reactionVars
<1> QED
  BY <1>1, <1>2 DEF IInv

LEMMA JobEndsKeeps ==
  ASSUME IInv, NEW l \in Links, JobEnds(l)
  PROVE  IInv'
<1>1. Room' /\ OneHolder'
  BY SameRoom DEF IInv, JobEnds, OneHolder, reactionVars, roomVars
<1>2. Reactions'
  <2>1. scheduled' \in BOOLEAN /\ (scheduled' => service = "on")
    BY RunFacts DEF JobEnds, Hook
  <2>2. job' = [job EXCEPT ![l] = "done"] /\ UNCHANGED <<order, source, reactionVars, service, left>>
    BY DEF JobEnds
  <2> QED
    BY <2>1, <2>2 DEF IInv, Reactions, TriedOnce, reactionVars
<1> QED
  BY <1>1, <1>2 DEF IInv

\* The scan for candidates: a row that runs stays, and the others are new or pending.
LEMMA TryAllFacts ==
  ASSUME IInv, NEW row \in [Links -> {"no", "pending", "running", "done", "skipped", "failed"}],
         TryAll(row)
  PROVE  /\ reaction' \in [Links -> {"no", "pending", "running", "done", "skipped", "failed"}]
         /\ work' \in [Links -> {"no", "previews", "model"}]
         /\ \A l \in Links :
               /\ reaction'[l] = "running" <=> row[l] = "running"
               /\ reaction'[l] \in {"no", "pending"} => row[l] \in {"no", "pending"}
               /\ reaction'[l] = "pending" => row[l] = "pending" \/ job[l] = "done"
               /\ work'[l] = "model" <=> work[l] = "model"
<1>1. work \in [Links -> {"no", "previews", "model"}]
  BY DEF IInv, Reactions
<1> QED
  BY <1>1 DEF TryAll

LEMMA ReconcileKeeps ==
  ASSUME IInv, Reconcile
  PROVE  IInv'
<1>1. UNCHANGED <<roomVars, order, job, source, attempts, turn, cut, halting, service, left>>
      /\ scheduled' = FALSE /\ TryAll(reaction)
  BY DEF Reconcile
<1>2. reaction \in [Links -> {"no", "pending", "running", "done", "skipped", "failed"}]
  BY DEF IInv, Reactions
<1>3. /\ reaction' \in [Links -> {"no", "pending", "running", "done", "skipped", "failed"}]
      /\ work' \in [Links -> {"no", "previews", "model"}]
      /\ \A l \in Links :
            /\ reaction'[l] = "running" <=> reaction[l] = "running"
            /\ reaction'[l] \in {"no", "pending"} => reaction[l] \in {"no", "pending"}
            /\ reaction'[l] = "pending" => reaction[l] = "pending" \/ job[l] = "done"
            /\ work'[l] = "model" <=> work[l] = "model"
  BY <1>1, <1>2, TryAllFacts
<1>4. service # "off"
  BY DEF IInv, Reconcile, Reactions
<1>5. Room' /\ OneHolder'
  BY <1>1, <1>3, SameRoom DEF IInv, OneHolder, Reactions, roomVars
<1>6. TriedOnce'
  BY <1>1, <1>3 DEF IInv, Reactions, TriedOnce
<1> QED
  BY <1>1, <1>3, <1>4, <1>5, <1>6 DEF IInv, Reactions

LEMMA ClaimReactionKeeps ==
  ASSUME IInv, NEW l \in Links, ClaimReaction(l)
  PROVE  IInv'
<1>1. UNCHANGED <<roomVars, order, job, source, cut, halting, scheduled, service, left>>
      /\ work[l] = "previews"
  BY DEF ClaimReaction
<1>2. CASE /\ Eligible(l) /\ reaction[l] = "pending"
           /\ reaction' = [reaction EXCEPT ![l] = "running"]
           /\ attempts' = [attempts EXCEPT ![l] = @ + 1]
           /\ work' = [work EXCEPT ![l] = "model"]
           /\ turn' = l
  <2>1. run.at = "none" /\ ~order /\ turn = 0 /\ source[l] = "stored" /\ l # 0
    BY <1>2 DEF Eligible, IsRunning
  <2>2. Room' /\ OneHolder'
    BY <1>1, <1>2, <2>1, SameRoom DEF IInv, OneHolder, Reactions, roomVars
  <2>3. TriedOnce'
    BY <1>1, <1>2 DEF IInv, Reactions, TriedOnce
  <2>4. job[l] = "done"
    BY <1>2 DEF IInv, Reactions
  <2> QED
    BY <1>1, <1>2, <2>1, <2>2, <2>3, <2>4 DEF IInv, Reactions
<1>3. CASE /\ reaction' = [reaction EXCEPT ![l] = IF @ = "pending" THEN "skipped" ELSE @]
           /\ work' = [work EXCEPT ![l] = "no"]
           /\ UNCHANGED <<attempts, turn>>
  <2>1. Room' /\ OneHolder'
    BY <1>1, <1>3, SameRoom DEF IInv, OneHolder, Reactions, roomVars
  <2>2. TriedOnce'
    BY <1>1, <1>3 DEF IInv, Reactions, TriedOnce
  <2> QED
    BY <1>1, <1>3, <2>1, <2>2 DEF IInv, Reactions
<1> QED
  BY <1>2, <1>3 DEF ClaimReaction

\* A turn that ends leaves the room to whom it finds there, or stops it for the
\* interrupt that waited.
LEMMA EndTurnKeeps ==
  ASSUME IInv, NEW l \in Links, EndTurn(l),
         reaction' \in [Links -> {"no", "pending", "running", "done", "skipped", "failed"}],
         \A k \in Links \ {l} : reaction'[k] = reaction[k],
         reaction'[l] = reaction[l] \/ reaction'[l] \in {"done", "skipped", "failed"},
         \* it ran, unless it is left as it is
         reaction'[l] # reaction[l] => reaction[l] \in {"pending", "running"}
  PROVE  IInv'
<1>1. /\ work' = [work EXCEPT ![l] = "no"]
      /\ turn' = IF turn = l THEN 0 ELSE turn
      /\ cut' = cut \ {l} /\ halting' = halting \ {l} /\ Hook
      /\ UNCHANGED <<waiting, order, job, source, attempts, service, left>>
  BY DEF EndTurn
<1>2. scheduled' \in BOOLEAN /\ (scheduled' => service = "on")
  BY <1>1, RunFacts DEF Hook
<1>3. Room' /\ run'.at = run.at /\ (run.stopped => run'.stopped)
  <2>1. CASE HaltRun
    <3>1. Room' /\ run'.at = run.at /\ (run.at # "none" => run'.stopped)
      BY <1>1, <2>1, RunFacts, HaltKeepsRoom
    <3>2. run.at = "none" => ~run.stopped
      BY FreshRuns DEF IInv, Room
    <3> QED
      BY <3>1, <3>2
  <2>2. CASE UNCHANGED <<run, queue, reserved, reply>>
    BY <1>1, <2>2, SameRoom DEF IInv, roomVars
  <2> QED
    BY <2>1, <2>2 DEF EndTurn
<1>4. OneHolder'
  BY <1>1, <1>3 DEF IInv, OneHolder, Reactions
<1>5. TriedOnce'
  BY <1>1 DEF IInv, Reactions, TriedOnce
<1>6. /\ work' \in [Links -> {"no", "previews", "model"}]
      /\ \A k \in Links : work'[k] = "model" => k # l /\ work[k] = "model"
      /\ service' = "off" => turn' = 0 /\ \A k \in Links : work'[k] = "no"
  BY <1>1 DEF IInv, Reactions
<1>7. \A k \in Links : reaction'[k] = "running" /\ work'[k] = "model" /\ k \notin cut' =>
         turn' = k /\ source'[k] = "stored"
  <2> SUFFICES ASSUME NEW k \in Links, reaction'[k] = "running", work'[k] = "model", k \notin cut'
               PROVE  turn' = k /\ source'[k] = "stored"
    OBVIOUS
  <2>1. k # l /\ work[k] = "model"
    BY <1>6
  <2>2. reaction[k] = "running" /\ k \notin cut
    BY <1>1, <2>1
  <2> QED
    BY <1>1, <2>1, <2>2 DEF IInv, Reactions
<1>8. \A k \in Links : reaction'[k] \in {"pending", "running"} => job'[k] = "done"
  BY <1>1 DEF IInv, Reactions
<1>9. turn' \in Links \cup {0} /\ cut' \in SUBSET Links /\ halting' \in SUBSET Links
  BY <1>1 DEF IInv, Reactions
<1> QED
  BY <1>1, <1>2, <1>3, <1>4, <1>5, <1>6, <1>7, <1>8, <1>9 DEF IInv, Reactions

LEMMA ReactionStepKeeps ==
  ASSUME IInv, NEW l \in Links, ReactionStep(l)
  PROVE  IInv'
<1>1. reaction \in [Links -> {"no", "pending", "running", "done", "skipped", "failed"}]
  BY DEF IInv, Reactions
<1>2. CASE ClaimReaction(l)
  BY <1>2, ClaimReactionKeeps
<1>3. CASE React(l)
  BY <1>1, <1>3, EndTurnKeeps DEF React
<1>4. CASE DropReaction(l)
  <2>1. PICK end \in {"skipped", "failed"} :
           reaction' = [reaction EXCEPT ![l] = IF @ = "running" THEN end ELSE @]
    BY <1>4 DEF DropReaction
  <2>2. EndTurn(l)
    BY <1>4 DEF DropReaction
  <2> QED
    BY <1>1, <2>1, <2>2, EndTurnKeeps
<1>5. CASE ReactionFails(l)
  <2>1. reaction' = [reaction EXCEPT ![l] = IF @ \in {"pending", "running"} THEN "failed" ELSE @]
    BY <1>5 DEF ReactionFails
  <2>2. CASE EndTurn(l)
    BY <1>1, <2>1, <2>2, EndTurnKeeps
  <2>3. CASE /\ work[l] = "previews"
             /\ work' = [work EXCEPT ![l] = "no"]
             /\ UNCHANGED <<roomVars, order, job, source, attempts, turn, cut, halting,
                            scheduled, service, left>>
    <3>1. Room' /\ OneHolder'
      BY <2>1, <2>3, SameRoom DEF IInv, OneHolder, Reactions, roomVars
    <3>2. TriedOnce'
      BY <2>1, <2>3 DEF IInv, Reactions, TriedOnce
    <3> QED
      BY <2>1, <2>3, <3>1, <3>2 DEF IInv, Reactions
  <2> QED
    BY <1>5, <2>2, <2>3 DEF ReactionFails
<1> QED
  BY <1>2, <1>3, <1>4, <1>5 DEF ReactionStep

----------------------------------------------------------------------------
(* Orders, and the process.                                                 *)

LEMMA BeginOrderKeeps ==
  ASSUME IInv, BeginOrder
  PROVE  IInv'
<1>1. /\ run.at = "none" /\ ~order /\ turn = 0 /\ order' = TRUE
      /\ UNCHANGED <<roomVars, job, source, reactionVars, scheduled, service>>
  BY DEF BeginOrder, IsRunning
<1>2. left' \in [{"sends", "jobs", "mishaps"} -> Nat]
  BY SpendTyped DEF BeginOrder
<1>3. Room' /\ OneHolder'
  BY <1>1, SameRoom DEF IInv, OneHolder, reactionVars, roomVars
<1> QED
  BY <1>1, <1>2, <1>3 DEF IInv, Reactions, TriedOnce, reactionVars

LEMMA OrderEndsKeeps ==
  ASSUME IInv, OrderEnds
  PROVE  IInv'
<1>1. /\ order /\ order' = FALSE /\ PassOn /\ Hook
      /\ UNCHANGED <<queue, reply, reserved, job, source, reactionVars, service, left>>
  BY DEF OrderEnds
<1>2. run.at = "none" /\ turn = 0
  BY <1>1 DEF IInv, OneHolder
<1>3. reserved = {} /\ Flying(reply) = {} /\ Cardinality(reserved) = 0
  BY <1>2, RunFacts, NobodyIsPromised
<1>4. Room'
  <2>1. (run' = NoRun \/ run' = NewRun) /\ waiting' \in BOOLEAN
    BY <1>1 DEF PassOn
  <2>2. queue' \in Seq(Members) /\ reserved' = {} /\ reply' \in Replies /\ Flying(reply') = {}
    BY <1>1, <1>3, RunFacts
  <2> QED
    BY <2>1, <2>2, FreshRoom
<1>5. OneHolder'
  BY <1>1, <1>2 DEF OneHolder, PassOn, reactionVars
<1>6. scheduled' \in BOOLEAN /\ (scheduled' => service = "on")
  BY <1>1, RunFacts DEF Hook
<1> QED
  BY <1>1, <1>4, <1>5, <1>6 DEF IInv, Reactions, TriedOnce, reactionVars

LEMMA ShutDownKeeps ==
  ASSUME IInv, ShutDown
  PROVE  IInv'
<1>1. /\ service = "on" /\ service' = "stopping" /\ scheduled' = FALSE
      /\ reaction' = [l \in Links |-> IF reaction[l] = "pending" \/ (l = turn /\ reaction[l] = "running")
                                     THEN "skipped" ELSE reaction[l]]
      /\ cut' = cut \cup ({turn} \ {0}) /\ turn' = 0
      /\ UNCHANGED <<roomVars, order, job, source, attempts, work, halting>>
  BY DEF ShutDown
<1>2. left' \in [{"sends", "jobs", "mishaps"} -> Nat]
  BY SpendTyped DEF ShutDown
<1>3. Room' /\ OneHolder'
  BY <1>1, SameRoom DEF IInv, OneHolder, roomVars
<1>4. TriedOnce'
  BY <1>1 DEF IInv, Reactions, TriedOnce
<1>5. \A l \in Links : reaction'[l] = "running" => reaction[l] = "running" /\ l # turn
  BY <1>1 DEF IInv, Reactions
<1>6. reaction' \in [Links -> {"no", "pending", "running", "done", "skipped", "failed"}]
      /\ cut' \in SUBSET Links
  BY <1>1 DEF IInv, Reactions
<1> QED
  BY <1>1, <1>2, <1>3, <1>4, <1>5, <1>6 DEF IInv, Reactions

LEMMA VanishKeeps ==
  ASSUME IInv, Vanish, left' \in [{"sends", "jobs", "mishaps"} -> Nat]
  PROVE  IInv'
<1>1. Room'
  <2>1. run' = NoRun /\ reserved' = {} /\ queue' = <<>> /\ waiting' = FALSE
        /\ reply' = [m \in Members |-> NoReply]
    BY DEF Vanish
  <2>2. Flying(reply') = {} /\ reply' \in Replies
    BY <2>1 DEF Flying, NoReply, Replies
  <2>3. queue' \in Seq(Members)
    BY <2>1
  <2> QED
    BY <2>1, <2>2, <2>3, FreshRoom
<1>2. OneHolder'
  BY FreshRuns DEF Vanish, OneHolder
<1>3. Reactions'
  BY DEF Vanish, IInv, Reactions, TriedOnce
<1> QED
  BY <1>1, <1>2, <1>3 DEF IInv

LEMMA RestartKeeps ==
  ASSUME IInv, Restart
  PROVE  IInv'
<1> DEFINE row == [l \in Links |-> IF reaction[l] = "running" THEN "failed" ELSE reaction[l]]
<1>1. /\ service = "off" /\ service' = "on" /\ TryAll(row)
      /\ UNCHANGED <<roomVars, order, job, source, attempts, turn, cut, halting, scheduled, left>>
  BY DEF Restart
<1>2. row \in [Links -> {"no", "pending", "running", "done", "skipped", "failed"}]
      /\ \A l \in Links : row[l] # "running" /\ (row[l] \in {"no", "pending"} => row[l] = reaction[l])
  BY DEF IInv, Reactions
<1>3. turn = 0
  BY <1>1 DEF IInv, Reactions
<1> HIDE DEF row
<1>4. /\ reaction' \in [Links -> {"no", "pending", "running", "done", "skipped", "failed"}]
      /\ work' \in [Links -> {"no", "previews", "model"}]
      /\ \A l \in Links :
            /\ reaction'[l] # "running"
            /\ reaction'[l] \in {"no", "pending"} => reaction[l] \in {"no", "pending"}
            /\ reaction'[l] = "pending" => reaction[l] = "pending" \/ job[l] = "done"
  <2>1. /\ reaction' \in [Links -> {"no", "pending", "running", "done", "skipped", "failed"}]
        /\ work' \in [Links -> {"no", "previews", "model"}]
        /\ \A l \in Links :
              /\ reaction'[l] = "running" <=> row[l] = "running"
              /\ reaction'[l] \in {"no", "pending"} => row[l] \in {"no", "pending"}
              /\ reaction'[l] = "pending" => row[l] = "pending" \/ job[l] = "done"
    BY <1>1, <1>2, TryAllFacts
  <2> QED
    BY <1>2, <2>1
<1>5. Room' /\ OneHolder'
  BY <1>1, <1>3, SameRoom DEF IInv, OneHolder, roomVars
<1>6. TriedOnce'
  BY <1>1, <1>4 DEF IInv, Reactions, TriedOnce
<1> QED
  BY <1>1, <1>3, <1>4, <1>5, <1>6 DEF IInv, Reactions

----------------------------------------------------------------------------
(* The theorems.                                                            *)

LEMMA InitHolds == Init => IInv
<1> SUFFICES ASSUME Init PROVE IInv
  OBVIOUS
<1>1. Flying(reply) = {} /\ reply \in Replies /\ reserved = {} /\ run = NoRun
      /\ queue \in Seq(Members) /\ waiting = FALSE
  BY DEF Init, Flying, NoReply, Replies
<1>2. Cardinality({}) = 0
  BY FS_EmptySet
<1>3. SlotsOf(reply)
  <2> SUFFICES ASSUME NEW m \in Members
               PROVE  Cardinality({n \in Flying(reply) : ConnectionOf[n] = ConnectionOf[m]})
                        <= Slots[ConnectionOf[m]]
    BY DEF SlotsOf
  <2>1. {n \in Flying(reply) : ConnectionOf[n] = ConnectionOf[m]} = {}
    BY <1>1
  <2> QED
    BY <2>1, <1>2, SlotsAssumption
<1>4. WakesWithinLimit
  BY <1>1, <1>2, FreshRuns DEF WakesWithinLimit
<1>5. Room
  BY <1>1, <1>3, <1>4, FreshRuns DEF Room
<1>6. OneHolder
  BY <1>1, FreshRuns DEF Init, OneHolder
<1>7. left \in [{"sends", "jobs", "mishaps"} -> Nat]
  BY BudgetsAssumption DEF Init
<1>8. TriedOnce /\ attempts \in [Links -> Nat]
  BY DEF Init, TriedOnce
<1>9. Reactions
  BY <1>7, <1>8 DEF Init, Reactions
<1> QED
  BY <1>5, <1>6, <1>9 DEF IInv

LEMMA StutterKeeps == IInv /\ UNCHANGED vars => IInv'
<1> SUFFICES ASSUME IInv, UNCHANGED vars PROVE IInv'
  OBVIOUS
<1>1. Room' /\ OneHolder'
  BY SameRoom DEF IInv, OneHolder, vars, roomVars, reactionVars
<1>2. Reactions'
  BY DEF IInv, vars, reactionVars, Reactions, TriedOnce
<1> QED
  BY <1>1, <1>2 DEF IInv

LEMMA NextKeeps == IInv /\ [Next]_vars => IInv'
<1> SUFFICES ASSUME IInv, [Next]_vars PROVE IInv'
  OBVIOUS
<1>1. CASE Send \/ WaitTimesOut \/ Interrupt
  BY <1>1, SendKeeps, WaitTimesOutKeeps, InterruptKeeps
<1>2. CASE Deliver \/ PreparationFails \/ Route \/ JudgeEnds
  BY <1>2, DeliverKeeps, PreparationFailsKeeps, RouteKeeps, JudgeEndsKeeps
<1>3. ASSUME NEW m \in Members, Call(m) \/ ReplyStep(m)
      PROVE  IInv'
  BY <1>3, CallKeeps, AnswerKeeps, StoreKeeps, FailKeeps DEF ReplyStep
<1>4. ASSUME NEW m \in Members, NEW l \in Links, SubmitJob(m, l)
      PROVE  IInv'
  BY <1>4, SubmitJobKeeps
<1>5. ASSUME NEW l \in Links, JobEnds(l) \/ ReactionStep(l) \/ InterruptTimesOut(l)
      PROVE  IInv'
  BY <1>5, JobEndsKeeps, ReactionStepKeeps, InterruptTimesOutKeeps
<1>6. CASE Reconcile \/ BeginOrder \/ OrderEnds \/ ShutDown
  BY <1>6, ReconcileKeeps, BeginOrderKeeps, OrderEndsKeeps, ShutDownKeeps
<1>7. CASE Exit \/ Crash
  <2>1. Vanish /\ left' \in [{"sends", "jobs", "mishaps"} -> Nat]
    BY <1>7, SpendTyped DEF Exit, Crash, IInv, Reactions
  <2> QED
    BY <2>1, VanishKeeps
<1>8. CASE Restart
  BY <1>8, RestartKeeps
<1>9. CASE UNCHANGED vars
  BY <1>9, StutterKeeps
<1> QED
  BY <1>1, <1>2, <1>3, <1>4, <1>5, <1>6, <1>7, <1>8, <1>9 DEF Next

\* The inductive invariant holds.
THEOREM Invariance == Spec => []IInv
<1>1. Init => IInv
  BY InitHolds
<1>2. IInv /\ [Next]_vars => IInv'
  BY NextKeeps
<1> QED
  BY <1>1, <1>2, PTL DEF Spec

\* A run, an order and a reaction never share the room, no wake, slot or attempt is
\* given out beyond its limit (groupChatService.ts:260, :441, :477, llmChatService.ts:813).
THEOREM RoomIsSound == Spec => []RoomInv
<1>1. IInv => RoomInv
  <2> SUFFICES ASSUME IInv PROVE RoomInv
    OBVIOUS
  <2>1. TypeOK
    BY DEF IInv, Room, Reactions, Runs, Replies, TypeOK
  <2>2. SlotsRespected
    BY DEF IInv, Room, SlotsOf, SlotsRespected
  <2> QED
    BY <2>1, <2>2 DEF IInv, Room, Reactions, RoomInv
<1> QED
  BY <1>1, Invariance, PTL

\* processQueue starts nobody in a run that is stopped.
LEMMA GoOnWakesNobody ==
  ASSUME NEW r, NEW q \in Seq(Members), NEW rep \in Replies, NEW res,
         GoOn(r, q, rep, res), r.stopped, NEW m \in Members, reply'[m].at = "answering"
  PROVE  rep[m].at = "answering"
<1>1. PICK S \in SUBSET (DOMAIN q) :
         /\ IsPass(r, q, rep, S)
         /\ \/ reply' = [n \in Members |-> IF n \in {q[i] : i \in S} THEN NewReply ELSE rep[n]]
            \/ EndRun
  BY Zenon DEF GoOn
<1>2. S = {}
  BY <1>1 DEF IsPass
<1>3. CASE reply' = [n \in Members |-> IF n \in {q[i] : i \in S} THEN NewReply ELSE rep[n]]
  BY <1>2, <1>3
<1>4. CASE EndRun
  BY <1>4 DEF EndRun, NoReply
<1> QED
  BY <1>1, <1>3, <1>4

\* After a stop nobody who was called, picked by the judge or waiting for a slot starts
\* to answer (groupChatService.ts:63).
THEOREM NobodyIsWoken == Spec => NobodyWokenAfterStop
<1>1. ASSUME IInv, Next, run.stopped, run'.stopped, NEW m \in Members,
             reply'[m].at = "answering"
      PROVE  reply[m].at = "answering"
  <2> USE <1>1
  <2>1. queue \in Seq(Members) /\ reply \in Replies
    BY RunFacts
  <2>2. CASE Send \/ WaitTimesOut \/ Interrupt \/ \E l \in Links : InterruptTimesOut(l)
    BY <2>2 DEF Send, WaitTimesOut, Interrupt, InterruptTimesOut, HaltRun
  <2>3. CASE Deliver
    BY <2>3 DEF Deliver
  <2>4. CASE PreparationFails \/ JudgeEnds
    <3>1. EndRun
      BY <2>4 DEF PreparationFails, JudgeEnds
    <3> QED
      BY <3>1 DEF EndRun, NoReply
  <2>5. CASE Route
    <3>1. PICK q \in {<<>>} \cup {<<n>> : n \in Members} : GoOn(run, q, reply, reserved)
      BY <2>5 DEF Route
    <3>2. q \in Seq(Members)
      <4>1. q = <<>> \/ \E n \in Members : q = <<n>>
        OBVIOUS
      <4>2. <<>> \in Seq(Members) /\ \A n \in Members : <<n>> \in Seq(Members)
        OBVIOUS
      <4> QED
        BY <4>1, <4>2
    <3> QED
      BY <2>1, <3>1, <3>2, GoOnWakesNobody
  <2>6. ASSUME NEW n \in Members, NEW r, r.stopped, NEW res, NEW what,
               Leave(n, r, queue, res, what)
        PROVE  reply[m].at = "answering"
    <3> DEFINE rep == [reply EXCEPT ![n] = NoReply]
    <3>1. rep \in Replies
      BY <2>1 DEF Replies, NoReply
    <3>2. rep[m].at = "answering"
      <4>1. GoOn(r, queue, rep, res)
        BY <2>6 DEF Leave
      <4> HIDE DEF rep
      <4> QED
        BY <2>1, <2>6, <3>1, <4>1, GoOnWakesNobody
    <3> QED
      BY <2>1, <3>2 DEF NoReply, Replies
  <2>7. ASSUME NEW n \in Members, Store(n) \/ Fail(n)
        PROVE  reply[m].at = "answering"
    <3> DEFINE A == [run EXCEPT !.last = {n}]
               B == [run EXCEPT !.last = {}]
    <3>1. A.stopped /\ B.stopped
      BY RunFacts DEF Runs
    <3>2. \/ \E res, what : Leave(n, A, queue, res, what)
          \/ \E res, what : Leave(n, B, queue, res, what)
          \/ \E res, what : Leave(n, run, queue, res, what)
      BY <2>7 DEF Store, Fail
    <3> HIDE DEF A, B
    <3> QED
      BY <2>6, <3>1, <3>2
  <2>8. ASSUME NEW n \in Members, Call(n) \/ Answer(n) \/ \E l \in Links : SubmitJob(n, l)
        PROVE  reply[m].at = "answering"
    BY <2>1, <2>8 DEF Call, Answer, SubmitJob, Replies
  <2>9. CASE \E l \in Links : JobEnds(l) \/ ReactionStep(l)
    BY <2>9 DEF JobEnds, ReactionStep, ClaimReaction, React, DropReaction, ReactionFails,
                EndTurn, HaltRun, roomVars
  <2>10. CASE Reconcile \/ BeginOrder \/ OrderEnds \/ ShutDown \/ Restart
    BY <2>10 DEF Reconcile, BeginOrder, OrderEnds, ShutDown, Restart, roomVars
  <2>11. CASE Exit \/ Crash
    BY <2>11 DEF Exit, Crash, Vanish, NoReply
  <2> QED
    BY <2>2, <2>3, <2>4, <2>5, <2>7, <2>8, <2>9, <2>10, <2>11 DEF Next, ReplyStep
<1>2. IInv /\ [Next]_vars =>
        [run.stopped /\ run'.stopped =>
           \A m \in Members : reply'[m].at = "answering" => reply[m].at = "answering"]_vars
  BY <1>1
<1> QED
  BY <1>2, Invariance, PTL DEF Spec, NobodyWokenAfterStop

\* A reaction that is stored finds nobody else who writes, and no message of the user
\* after its own (chatGenerationReactions.ts:98, llmChatService.ts:970).
THEOREM ReactionsYield == Spec => ReactionYields
<1>1. ASSUME IInv, Next, NEW l \in Links, reaction'[l] = "done", reaction[l] # "done"
      PROVE  run.at = "none" /\ ~order /\ ~waiting /\ source[l] = "stored"
  <2> USE <1>1
  <2>1. reaction \in [Links -> {"no", "pending", "running", "done", "skipped", "failed"}]
    BY DEF IInv, Reactions
  <2>2. CASE Send \/ WaitTimesOut \/ Interrupt \/ \E k \in Links : InterruptTimesOut(k)
    BY <2>2 DEF Send, SkipReactions, WaitTimesOut, Interrupt, InterruptTimesOut, reactionVars
  <2>3. CASE Deliver \/ PreparationFails \/ Route \/ JudgeEnds
    BY <2>3 DEF Deliver, PreparationFails, Route, JudgeEnds, Unreacted, reactionVars
  <2>4. ASSUME NEW n \in Members,
               Call(n) \/ ReplyStep(n) \/ \E k \in Links : SubmitJob(n, k)
        PROVE  FALSE
    BY <2>4 DEF Call, ReplyStep, Answer, Store, Fail, Leave, SubmitJob, Unreacted, reactionVars
  <2>5. ASSUME NEW k \in Links, JobEnds(k) \/ ClaimReaction(k) \/ ReactionFails(k)
        PROVE  FALSE
    BY <2>1, <2>5 DEF JobEnds, ClaimReaction, ReactionFails, reactionVars
  <2>6. ASSUME NEW k \in Links, DropReaction(k)
        PROVE  FALSE
    <3>1. PICK end \in {"skipped", "failed"} :
             reaction' = [reaction EXCEPT ![k] = IF @ = "running" THEN end ELSE @]
      BY <2>6 DEF DropReaction
    <3> QED
      BY <2>1, <3>1
  <2>7. ASSUME NEW k \in Links, React(k)
        PROVE  run.at = "none" /\ ~order /\ ~waiting /\ source[l] = "stored"
    <3>1. k = l /\ k \notin cut /\ reaction[k] = "running" /\ work[k] = "model"
      BY <2>1, <2>7 DEF React, EndTurn
    <3>2. turn = l /\ source[l] = "stored" /\ turn # 0
      BY <3>1 DEF IInv, Reactions
    <3>3. run = NoRun
      BY <3>2 DEF IInv, OneHolder, Room
    <3> QED
      BY <3>2, <3>3, FreshRuns DEF IInv, OneHolder
  <2>8. CASE Reconcile
    BY <2>1, <2>8 DEF Reconcile, TryAll
  <2>9. CASE Restart
    <3>1. TryAll([k \in Links |-> IF reaction[k] = "running" THEN "failed" ELSE reaction[k]])
      BY <2>9 DEF Restart
    <3> QED
      BY <2>1, <3>1 DEF TryAll
  <2>10. CASE BeginOrder \/ OrderEnds \/ ShutDown \/ Exit \/ Crash
    BY <2>1, <2>10 DEF BeginOrder, OrderEnds, ShutDown, Exit, Crash, Vanish, reactionVars
  <2> QED
    BY <2>2, <2>3, <2>4, <2>5, <2>6, <2>7, <2>8, <2>9, <2>10 DEF Next, ReactionStep
<1>2. IInv /\ [Next]_vars =>
        [\A l \in Links : reaction'[l] = "done" /\ reaction[l] # "done" =>
            run.at = "none" /\ ~order /\ ~waiting /\ source[l] = "stored"]_vars
  BY <1>1
<1> QED
  BY <1>2, Invariance, PTL DEF Spec, ReactionYields
=============================================================================
