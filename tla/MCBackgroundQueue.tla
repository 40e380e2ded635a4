------------------------- MODULE MCBackgroundQueue -------------------------
(* Constant values for model checking BackgroundQueue.                      *)
EXTENDS BackgroundQueue
=============================================================================
