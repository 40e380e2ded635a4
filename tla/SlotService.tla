---------------------------- MODULE SlotService ----------------------------
(***************************************************************************)
(* What the LLM request scheduler promises about the requests of one       *)
(* connection, without its pools, counters and queues: whatever happens is *)
(* followed at once by the start of exactly those waiting requests that    *)
(* are next in the order of service and find a slot under their own limit. *)
(***************************************************************************)
EXTENDS Naturals, FiniteSets

CONSTANT Requests  \* numbered in order of arrival

VARIABLES
  phase,      \* "new", "waiting", "granted", "released", "rejected"
  limit,      \* the limit each request was made with
  background  \* requests that give way to the others

vars == <<phase, limit, background>>

Init == /\ phase = [r \in Requests |-> "new"]
        /\ limit = [r \in Requests |-> 1]
        /\ background = {}

\* s is to be served before r.
Ahead(s, r) ==
  IF s \in background <=> r \in background THEN s < r ELSE r \in background

\* From the phases ph the requests G start: in order, each with fewer in flight than
\* its limit, and no more could.
Serve(ph) ==
  LET waiting == {r \in Requests : ph[r] = "waiting"}
      inFlight == Cardinality({r \in Requests : ph[r] = "granted"})
  IN \E G \in SUBSET waiting :
       /\ phase' = [r \in Requests |-> IF r \in G THEN "granted" ELSE ph[r]]
       /\ \A g \in G :
            /\ \A s \in waiting : Ahead(s, g)' => s \in G
            /\ inFlight + Cardinality({s \in G : Ahead(s, g)'}) < limit'[g]
       /\ \A s \in waiting \ G :
            (\A t \in waiting \ G : ~Ahead(t, s)') => inFlight + Cardinality(G) >= limit'[s]

IsNext(r) == phase[r] = "new" /\ \A s \in Requests : s < r => phase[s] # "new"

Arrive(r) ==
  /\ IsNext(r)
  /\ limit'[r] \in Nat \ {0} /\ limit' = [limit EXCEPT ![r] = limit'[r]]
  /\ background' \in {background, background \union {r}}
  /\ Serve([phase EXCEPT ![r] = "waiting"])

\* A request that is given up before it arrives, or while it waits.
Refuse(r) ==
  /\ IsNext(r)
  /\ phase' = [phase EXCEPT ![r] = "rejected"]
  /\ UNCHANGED <<limit, background>>

Withdraw(r) ==
  /\ phase[r] = "waiting"
  /\ UNCHANGED <<limit, background>>
  /\ Serve([phase EXCEPT ![r] = "rejected"])

Finish(r) ==
  /\ phase[r] = "granted"
  /\ UNCHANGED <<limit, background>>
  /\ Serve([phase EXCEPT ![r] = "released"])

Next == \E r \in Requests : Arrive(r) \/ Refuse(r) \/ Withdraw(r) \/ Finish(r)

Spec == Init /\ [][Next]_vars
============================================================================
