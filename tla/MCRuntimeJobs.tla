--------------------------- MODULE MCRuntimeJobs ---------------------------
(* Constant values for model checking RuntimeJobs: two jobs of a           *)
(* 'subprocess' kind under one key, and an inline job under another.       *)
EXTENDS RuntimeJobs

CONSTANTS c1, c2, i1, rematch, backup

MCJobs == {c1, c2, i1}
MCKinds == {rematch, backup}
MCKeyOf == [j \in Jobs |-> IF j = i1 THEN backup ELSE rematch]
MCExecution == [j \in Jobs |-> IF j = i1 THEN "inline" ELSE "subprocess"]
============================================================================
