----------------------------- MODULE MCOfferCache -----------------------------
(***************************************************************************)
(* Instances of OfferCache for TLC: one reference in each of two stores,   *)
(* taken in either order, or two references of one store.                  *)
(***************************************************************************)
EXTENDS OfferCache

CONSTANTS a1, a2, b1

BothOrders == {<< {a1}, {b1} >>, << {b1}, {a1} >>}
TwoReferences == {<< {a1, a2} >>}

EveryRoute == BothOrders \cup TwoReferences

=============================================================================
