------------------------- MODULE ExecutionLifecycle -------------------------
(***************************************************************************)
(* What an execution of a graph workflow goes through, without the queue,  *)
(* the workers and the nodes: it waits, is prepared, works, is closed and  *)
(* ends in one way that is never revised.  An execution that is told to    *)
(* stop stays told, and does not begin to work.  One that loses its        *)
(* process is interrupted: it does not go on, but fails.                   *)
(***************************************************************************)
CONSTANT Executions

VARIABLES
  phase,  \* where each execution is
  told    \* it has been told to stop while it was in hand

vars == <<phase, told>>

InHand == {"preparing", "working", "closing"}
Ended == {"completed", "failed", "cancelled"}
Phases == {"absent", "waiting", "interrupted"} \union InHand \union Ended

Init == /\ phase = [e \in Executions |-> "absent"]
        /\ told = [e \in Executions |-> FALSE]

Stays(e) == phase'[e] = phase[e] /\ told'[e] = told[e]

\* What begins is not told yet, what ends is told no more.
Moves(e, from, to) == phase[e] \in from /\ phase'[e] \in to /\ ~told'[e]

\* An execution may be taken up as soon as it is there; one that is started past
\* the queue works at once.
Enter(e) == Moves(e, {"absent"}, {"waiting", "preparing", "working"})
Begin(e) == Moves(e, {"waiting"}, {"preparing"})

Tell(e) == phase[e] \in InHand /\ phase'[e] = phase[e] /\ told'[e]

Work(e) == Moves(e, {"preparing"}, {"working"}) /\ ~told[e]
Close(e) == /\ phase[e] = "working" /\ phase'[e] = "closing"
            /\ told'[e] = told[e]

Interrupt(e) == Moves(e, InHand, {"interrupted"})

\* Only what was closed completes; what waits or was told is cancelled, or what
\* cancels itself while it works.
Complete(e) == Moves(e, {"closing"}, {"completed"})
Fail(e) == Moves(e, InHand \union {"interrupted"}, {"failed"})
Withdraw(e) == Moves(e, {"waiting", "working"}, {"cancelled"})
Obey(e) == Moves(e, {"preparing"}, {"cancelled"}) /\ told[e]

ExecutionStep(e) ==
  \/ Stays(e) \/ Enter(e) \/ Begin(e) \/ Tell(e) \/ Work(e) \/ Close(e) \/ Interrupt(e)
  \/ Complete(e) \/ Fail(e) \/ Withdraw(e) \/ Obey(e)

\* Any number of executions may move at once: a pass takes up several, and the end
\* of a process interrupts all of its own.
Next == /\ phase' \in [Executions -> Phases]
        /\ told' \in [Executions -> BOOLEAN]
        /\ \A e \in Executions : ExecutionStep(e)

Spec == Init /\ [][Next]_vars

\* The same from where they have been taken up; what has nothing to do works at once.
InitTakenUp == /\ phase \in [Executions -> {"preparing", "working"}]
               /\ told = [e \in Executions |-> FALSE]

SpecTakenUp == InitTakenUp /\ [][Next]_vars
=============================================================================
