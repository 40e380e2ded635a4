---------------------------- MODULE JobLifecycle ----------------------------
(***************************************************************************)
(* What the generation queue promises about a job, without its workers,    *)
(* processes and upstream services: a job waits, is taken up at most once  *)
(* and only while nobody has asked to cancel it, is handed to its service  *)
(* at most once, and ends in one way that is never revised.                *)
(***************************************************************************)
EXTENDS Naturals

CONSTANT Jobs

VARIABLES
  phase,   \* "none" before the job exists
  asked,   \* a cancellation has been asked for
  runs     \* how often the job was handed to its service

vars == <<phase, asked, runs>>

Ended == {"completed", "failed", "cancelled"}
Phases == {"none", "waiting", "active"} \union Ended

Init == /\ phase = [j \in Jobs |-> "none"]
        /\ asked = [j \in Jobs |-> FALSE]
        /\ runs = [j \in Jobs |-> 0]

Stays(j) == phase'[j] = phase[j] /\ asked'[j] = asked[j] /\ runs'[j] = runs[j]

Enter(j) == /\ phase[j] = "none" /\ phase'[j] = "waiting"
            /\ asked'[j] = asked[j] /\ runs'[j] = runs[j]

Ask(j) == /\ phase[j] \in {"waiting", "active"} /\ asked'[j]
          /\ phase'[j] = phase[j] /\ runs'[j] = runs[j]

Begin(j) == /\ phase[j] = "waiting" /\ ~asked[j] /\ phase'[j] = "active"
            /\ asked'[j] = asked[j] /\ runs'[j] = runs[j]

Run(j) == /\ phase[j] = "active" /\ runs[j] = 0 /\ runs'[j] = 1
          /\ phase'[j] = phase[j] /\ asked'[j] = asked[j]

\* Only a job that has run completes; only one that was asked to is cancelled.
End(j) == /\ phase[j] \in {"waiting", "active"} /\ phase'[j] \in Ended
          /\ phase'[j] = "completed" => phase[j] = "active" /\ runs[j] = 1
          /\ IF phase'[j] = "cancelled" THEN asked'[j] ELSE asked'[j] = asked[j]
          /\ runs'[j] = runs[j]

JobStep(j) == Stays(j) \/ Enter(j) \/ Ask(j) \/ Begin(j) \/ Run(j) \/ End(j)

\* Any number of jobs may move at once: recovery settles all of them together.
Next == /\ phase' \in [Jobs -> Phases]
        /\ asked' \in [Jobs -> BOOLEAN]
        /\ runs' \in [Jobs -> 0..1]
        /\ \A j \in Jobs : JobStep(j)

Spec == Init /\ [][Next]_vars
=============================================================================
