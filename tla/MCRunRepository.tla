---------------------------- MODULE MCRunRepository ----------------------------
(***************************************************************************)
(* RunRepository for TLC: two runs that compete for the same conversation, *)
(* identities that disagree with the stored record, and enough tokens for  *)
(* two takeovers.                                                          *)
(***************************************************************************)
EXTENDS RunRepository, TLC

Symmetry == Permutations(Owners)
=============================================================================
