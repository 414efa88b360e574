----------------------------- MODULE MCAgentGraph -----------------------------
(***************************************************************************)
(* AgentGraph for TLC: plans of up to two tasks with equal or different    *)
(* ids, with and without the need of evidence, and budgets that just       *)
(* suffice for a final revision, so that every limit is met somewhere.     *)
(***************************************************************************)
EXTENDS AgentGraph, TLC

Symmetry == Permutations(TaskIds)
=============================================================================
