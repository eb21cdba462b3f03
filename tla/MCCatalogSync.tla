--------------------------- MODULE MCCatalogSync ---------------------------
(***************************************************************************)
(* Instances of CatalogSync for TLC.  The processes are interchangeable,   *)
(* so the runs that check no liveness take them up to permutation.         *)
(***************************************************************************)
EXTENDS CatalogSync, TLC

Symmetry == Permutations(Workers)
============================================================================
