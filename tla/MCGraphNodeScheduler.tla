----------------------- MODULE MCGraphNodeScheduler -----------------------
(* Constant values for model checking GraphNodeScheduler: a workflow of    *)
(* three independent nodes, of which one generates and two are joined by a *)
(* fourth, beside a node of another execution that needs the same slot.    *)
EXTENDS GraphNodeScheduler

CONSTANTS wide, single

MCExecutions == {wide, single}
MCExecutionOf == <<wide, wide, wide, wide, single>>
MCDependsOn == <<{}, {}, {}, {1, 2}, {}>>
MCExternal == {1, 5}
============================================================================
