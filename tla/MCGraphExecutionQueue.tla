----------------------- MODULE MCGraphExecutionQueue -----------------------
(* Constant values for model checking GraphExecutionQueue: two reservations *)
(* of two schedules in one lane beside two manual runs, or a reservation    *)
(* beside runs past the queue.                                              *)
EXTENDS GraphExecutionQueue

MCTriggers == {<<"schedule", "manual", "schedule", "manual">>,
               <<"schedule", "direct", "standalone", "direct">>}
MCSchedule == <<"nightly", "none", "hourly", "none">>
MCLanesOf == <<{"novelai"}, {}, {"novelai"}, {}>>
MCLanes == {"novelai"}
OnePerLane == [l \in Lanes |-> 1]
============================================================================
