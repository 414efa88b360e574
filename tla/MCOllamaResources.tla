--------------------------- MODULE MCOllamaResources ---------------------------
(***************************************************************************)
(* OllamaResources for TLC: three total slots, one heavy slot, three heavy *)
(* and two light callers, so that heavy waiters block total slots.         *)
(***************************************************************************)
EXTENDS OllamaResources
=============================================================================
