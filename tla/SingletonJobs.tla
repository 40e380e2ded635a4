--------------------------- MODULE SingletonJobs ---------------------------
(***************************************************************************)
(* What the runtime jobs promise, without their processes, heartbeats and  *)
(* recoveries: of the jobs with one key at most one is open, the handler   *)
(* of a job is entered once and as its row is claimed, only the handler    *)
(* completes the job, only a job that was asked to is cancelled, and a     *)
(* closed job is never opened or closed differently.  A row may be failed  *)
(* under its handler.                                                      *)
(***************************************************************************)
CONSTANTS Jobs, KeyOf, NoKey

VARIABLES
  phase,
  asked,  \* its cancellation was asked for
  busy    \* its handler is in progress

vars == <<phase, asked, busy>>

Open == {"queued", "running"}
Closed == {"completed", "failed", "cancelled"}
Phases == {"absent", "deleted"} \union Open \union Closed

Init == /\ phase = [j \in Jobs |-> "absent"]
        /\ asked = [j \in Jobs |-> FALSE]
        /\ busy = [j \in Jobs |-> FALSE]

SameKey(j, k) == j # k /\ KeyOf[j] = KeyOf[k] /\ KeyOf[j] # NoKey

\* No other job of the key is open, nor opens at the same time.
Alone(j) == \A k \in Jobs : SameKey(j, k) => phase[k] \notin Open /\ phase'[k] \notin Open

Stays(j) == phase'[j] = phase[j] /\ asked'[j] = asked[j] /\ busy'[j] = busy[j]

\* A job is new: it waits, its handler is entered at once, or it cannot be started.
Create(j) ==
  /\ phase[j] = "absent" /\ Alone(j) /\ ~busy[j] /\ ~asked'[j]
  /\ \/ phase'[j] \in {"queued", "failed"} /\ ~busy'[j]
     \/ phase'[j] = "running" /\ busy'[j]

Begin(j) == /\ phase[j] = "queued" /\ phase'[j] = "running" /\ ~busy[j] /\ busy'[j]
            /\ asked'[j] = asked[j]

Ask(j) == /\ phase[j] \in Open /\ asked'[j]
          /\ phase'[j] = phase[j] /\ busy'[j] = busy[j]

\* The handler returns, or is lost with its process or its row.
Complete(j) == /\ phase[j] = "running" /\ phase'[j] = "completed" /\ busy[j] /\ ~busy'[j]
               /\ asked'[j] = asked[j]
Leave(j) == /\ busy[j] /\ ~busy'[j]
            /\ phase'[j] = phase[j] /\ asked'[j] = asked[j]

\* Somebody closes the row, whether or not its handler is still in progress.
Close(j) == /\ phase[j] \in Open /\ asked'[j] = asked[j]
            /\ busy'[j] => busy[j]
            /\ \/ phase'[j] = "failed"
               \/ phase'[j] = "cancelled" /\ asked[j]

Delete(j) == /\ phase[j] \in Closed /\ phase'[j] = "deleted"
             /\ asked'[j] = asked[j] /\ busy'[j] = busy[j]

JobStep(j) == \/ Stays(j) \/ Create(j) \/ Begin(j) \/ Ask(j) \/ Complete(j) \/ Leave(j)
              \/ Close(j) \/ Delete(j)

\* Any number of jobs may move at once: a recovery closes many rows, and the end of
\* the server takes all its handlers.
Next == /\ phase' \in [Jobs -> Phases]
        /\ asked' \in [Jobs -> BOOLEAN]
        /\ busy' \in [Jobs -> BOOLEAN]
        /\ \A j \in Jobs : JobStep(j)

Spec == Init /\ [][Next]_vars
=============================================================================
