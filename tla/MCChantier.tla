----------------------------- MODULE MCChantier -----------------------------
(***************************************************************************)
(* Instances of Chantier for TLC: pages and lists of needs are             *)
(* interchangeable.                                                        *)
(***************************************************************************)
EXTENDS Chantier, TLC

Symmetry == Permutations(Clients) \cup Permutations(Materials)
=============================================================================
