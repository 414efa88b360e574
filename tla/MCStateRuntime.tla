---------------------------- MODULE MCStateRuntime ----------------------------
(***************************************************************************)
(* StateRuntime for TLC: every combination of backends and requirements,   *)
(* and one application object that is started twice.                       *)
(***************************************************************************)
EXTENDS StateRuntime
=============================================================================
