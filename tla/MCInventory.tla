----------------------------- MODULE MCInventory -----------------------------
(***************************************************************************)
(* Inventory for TLC: two callers, so that one waits for the lock while    *)
(* the other refreshes.                                                    *)
(***************************************************************************)
EXTENDS Inventory
=============================================================================
