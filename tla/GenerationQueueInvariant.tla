---------------------- MODULE GenerationQueueInvariant ----------------------
(***************************************************************************)
(* The inductive invariant behind the safety properties of the generation  *)
(* queue, and the mapping of its state to that of JobLifecycle.            *)
(***************************************************************************)
EXTENDS GenerationQueue

\* The worker is the owner of its job unless a stop has aborted its signal, the
\* signal of an asked worker is aborted, and nothing in memory survives the process.
Ownership(j) ==
  /\ worker[j] # "idle" => status[j] \in Running
  /\ worker[j] # "idle" /\ mode = "up" => j \in owned
  /\ worker[j] # "idle" => j \in owned \union aborted
  /\ worker[j] # "idle" /\ cancelRequested[j] => j \in aborted
  /\ mode = "down" => worker[j] = "idle" /\ ~probing /\ j \notin waiters /\ j \notin cancelling
                        /\ j \notin reconciling
  /\ j \in waiters => status[j] \in Active
  /\ j \in cancelling => ServiceOf[j] = "comfyui"

\* What each stage of the worker knows of the row and of the upstream service.
Progress(j) ==
  /\ worker[j] = "preparing" => status[j] = "dispatching"
  /\ status[j] \in {"absent", "queued"} \/ worker[j] \in {"preparing", "submitting"}
       => upstream[j] = "none" /\ posts[j] = 0
  /\ worker[j] \in {"submitting", "posting"} => submitState[j] # "none"
  /\ worker[j] \in {"posting", "waiting", "saving"} => posts[j] = 1
  /\ worker[j] = "posting" => ServiceOf[j] # "codex" /\ upstream[j] # "none"
  /\ worker[j] = "saving" => upstream[j] = "finished"
  /\ worker[j] = "compensating" => ServiceOf[j] = "comfyui"
  /\ posts[j] \in {0, 1}

\* Upstream work is on record.
OnRecord(j) ==
  /\ upstream[j] \in {"sending", "alive"} => submitState[j] # "none"
  /\ ServiceOf[j] = "novelai" /\ upstream[j] # "none" => submitState[j] # "none"

\* The submit state of a NovelAI job: nobody but its worker touches it while the
\* worker lives, and what the worker leaves tells a charge from a doubtful one.
NaiSubmitState(j) ==
  ServiceOf[j] = "novelai" =>
    /\ status[j] \in {"absent", "queued"} => submitState[j] = "none"
    /\ worker[j] \in {"submitting", "posting"} => submitState[j] = "in_flight"
    /\ worker[j] \in {"waiting", "saving", "cancelling"} => submitState[j] = "accepted"
    /\ worker[j] = "failing" => upstream[j] = "none" \/ submitState[j] = "accepted"
    /\ worker[j] = "failing_ambiguous" => submitState[j] = "orphan_unresolved"
    /\ submitState[j] = "orphan_suspected" => worker[j] = "idle"
    /\ j \in reconciling =>
         worker[j] = "idle" /\ submitState[j] \in {"orphan_suspected", "orphan_unresolved"}
    /\ status[j] \in {"failed", "cancelled"} =>
         \/ upstream[j] = "none"
         \/ submitState[j] \in {"accepted", "orphan_unresolved"}

RetrySettled(j) ==
  retryOf[j] # 0 /\ ServiceOf[j] = "novelai" =>
    /\ ServiceOf[retryOf[j]] = "novelai"
    /\ status[retryOf[j]] \in {"failed", "cancelled"}
    /\ upstream[retryOf[j]] = "none" \/ submitState[retryOf[j]] = "accepted"

JobInv(j) == Ownership(j) /\ Progress(j) /\ OnRecord(j) /\ NaiSubmitState(j)

\* TypeOK is not inductive about the rest by itself: SubmittedAtMostOnce rests on
\* what the stages know, and they rest on the worker owning its job.
IInv == /\ TypeOK
        /\ \A j \in Jobs : JobInv(j)
        /\ \A j \in Jobs : RetrySettled(j)

----------------------------------------------------------------------------

PhaseOf(s) == IF s = "absent" THEN "none"
              ELSE IF s = "queued" THEN "waiting"
              ELSE IF s \in Running THEN "active"
              ELSE s

Lifecycle == INSTANCE JobLifecycle
               WITH phase <- [j \in Jobs |-> PhaseOf(status[j])],
                    asked <- cancelRequested,
                    runs <- posts

\* The queue implements the lifecycle of JobLifecycle: over every interleaving,
\* crash and restart a job is taken up only while unasked, handed over once,
\* and ends once.
ImplementsLifecycle == Lifecycle!Spec
=============================================================================
