--------------------------- MODULE MCInputStores ---------------------------
(* Constant values for model checking InputStores.                          *)
EXTENDS InputStores
============================================================================
