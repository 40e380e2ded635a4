------------------------- MODULE MCGenerationQueue -------------------------
(* Constant values for model checking GenerationQueue.                      *)
EXTENDS GenerationQueueInvariant

Comfy2 == <<"comfyui", "comfyui">>
Nai2Codex == <<"novelai", "novelai", "codex">>
ComfyNai == <<"comfyui", "novelai">>
SamePriority == <<1, 1>>
LastFirst == <<2, 2, 1>>
AllJobs == Jobs
OneWorkerEach == [s \in Services |-> 1]
============================================================================
