-------------------------- MODULE MCEntryLifecycle --------------------------
(***************************************************************************)
(* Instances of EntryLifecycle for TLC.                                    *)
(***************************************************************************)
EXTENDS EntryLifecycle, TLC

CONSTANTS first, second

MCOrders == {first, second}
OrderSymmetry == Permutations(MCOrders)
=============================================================================
