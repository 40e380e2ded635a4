----------------------- MODULE MCLlmRequestScheduler -----------------------
(* Constant values for model checking LlmRequestScheduler: a setting of 0  *)
(* (raised to 1) and 2 slots.                                           *)
EXTENDS LlmRequestScheduler

MCConcurrencies == {0, 2}
============================================================================
