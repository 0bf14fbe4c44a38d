---------------------------- MODULE MCCatalogSync ----------------------------
(***************************************************************************)
(* One column under review, two targets and two command line processes.    *)
(* Three writes are enough for a save to race with a flush, the flush of   *)
(* another target to follow, and a query to read what is left.             *)
(***************************************************************************)
EXTENDS CatalogSync, TLC

Symmetry == Permutations(Targets) \cup Permutations(Clis)
=============================================================================
