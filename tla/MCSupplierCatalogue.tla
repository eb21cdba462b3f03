-------------------------- MODULE MCSupplierCatalogue --------------------------
(***************************************************************************)
(* The requests SupplierCatalogue is checked on.                           *)
(***************************************************************************)
EXTENDS SupplierCatalogue, TLC

CONSTANTS r1, r2, p1, p2, i1, i2, f1

Line(code, quantity, priced) == [code |-> code, quantity |-> quantity, priced |-> priced]

\* Two references without codes; one of them, with a code and another conditioning.
Whole == (r1 :> Line(None, 2, TRUE)) @@ (r2 :> Line(None, 2, FALSE))
Coded == (r1 :> Line(p1, 1, TRUE))

Import(file, chosen) == [kind |-> "import", file |-> file, chosen |-> chosen]
Map(product, confirm) ==
    [kind |-> "map", ref |-> r1, product |-> product, confirm |-> confirm]

Edits ==
    {Map(p2, FALSE), Map(None, FALSE),
     [kind |-> "correct", ref |-> r1, quantity |-> 1], [kind |-> "clear", ref |-> r1]}

Deletions == {[kind |-> "delete", catalog |-> i1]}
Files2 == {Import(Whole, << >>), Import(Coded, << >>), Import(Coded, r1 :> None)}
FeedsAsked == {[kind |-> "brico", file |-> Coded], [kind |-> "gedimat", file |-> Whole]}
Passes == {[kind |-> "pass", source |-> "exact_rule"], [kind |-> "pass", source |-> "specific"],
           [kind |-> "reconcile"]}

EveryRequest == Edits \cup Deletions \cup Files2 \cup FeedsAsked \cup Passes
Symmetry == Permutations(Sessions)
=============================================================================
