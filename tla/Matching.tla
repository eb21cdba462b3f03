------------------------------ MODULE Matching ------------------------------
(***************************************************************************)
(* How a supplier's reference is confronted with the products of a family  *)
(* (src/app/services/product_mapping/generic_matcher.py, driven by a       *)
(* CategoryRule). An attribute that was not extracted, or that the product *)
(* does not hold, is Unknown, which is neither equal to nor different from *)
(* anything. Attributes are already in the rule's own keys: the renaming   *)
(* of product keys and the nominal lengths are data of the rules.          *)
(***************************************************************************)
EXTENDS Integers, Sequences, Functions

CONSTANTS Keys,     \* the attributes
          Values,   \* what an attribute can be worth
          Unknown,  \* an attribute that is not known
          NoProduct,
          NoKey     \* the rule has no such key

ASSUME NothingIsNothing == Unknown \notin Values

Attrs == [Keys -> Values \cup {Unknown}]

\* What an IdentityModel fixes for the matcher. The last key of the identity
\* is the one that tells apart products that a family otherwise confuses.
Rules == [identity : Seq(Keys), dims : SUBSET Keys, compat : SUBSET Keys,
          typeKey : Keys \cup {NoKey}, allowHigh : BOOLEAN,
          hierarchy : BOOLEAN, head : Seq(Keys), secondary : SUBSET Keys]

Statuses == {"EXACT", "HIGH", "REVIEW", "UNMAPPED"}
Rank == [s \in Statuses |-> CASE s = "EXACT" -> 0 [] s = "HIGH" -> 1
                              [] s = "REVIEW" -> 2 [] s = "UNMAPPED" -> 3]

Match(status, product, score) ==
  [status |-> status, product |-> product, score |-> score]
Unmapped == Match("UNMAPPED", NoProduct, 0)

\* Two attributes both known, and equal or different.
Agree(e, t, k) == e[k] # Unknown /\ t[k] # Unknown /\ e[k] = t[k]
Clash(e, t, k) == e[k] # Unknown /\ t[k] # Unknown /\ e[k] # t[k]

IdentityKeys(rule) == Range(rule.identity)
Complete(rule, e) == \A k \in IdentityKeys(rule) : e[k] # Unknown
SameIdentity(rule, e, t) == \A k \in IdentityKeys(rule) : Agree(e, t, k)
SameDims(rule, e, t) == rule.dims # {} /\ \A k \in rule.dims : Agree(e, t, k)
Contradicted(rule, e, t) == \E k \in rule.compat : Clash(e, t, k)

\* The same dimensions: HIGH for the same type, nothing for another one.
DimsFallback(rule, e, p, t) ==
  LET typed == /\ rule.allowHigh
               /\ rule.typeKey # NoKey
               /\ SameDims(rule, e, t)
  IN CASE typed /\ Agree(e, t, rule.typeKey) -> Match("HIGH", p, 85)
       [] typed /\ Clash(e, t, rule.typeKey) -> Unmapped
       [] SameDims(rule, e, t) -> Match("REVIEW", p, 55)
       [] OTHER -> Unmapped

\* The same head of the hierarchy with another last key is another product;
\* the same first key is worth a review, without a product when the second
\* key is not the same (two unknowns are the same here).
HierarchyFallback(rule, e, p, t) ==
  LET head == rule.head
      last == rule.identity[Len(rule.identity)]
      other == /\ head # <<>>
               /\ \A k \in Range(head) : Agree(e, t, k)
               /\ Clash(e, t, last)
      aligned == Len(head) < 2 \/ e[head[2]] = t[head[2]]
  IN IF ~other /\ head # <<>> /\ Agree(e, t, head[1])
     THEN Match("REVIEW", IF aligned THEN p ELSE NoProduct, 30)
     ELSE Unmapped

\* An incompatibility known on both sides never makes an EXACT.
Score(rule, e, p, t) ==
  IF Contradicted(rule, e, t)
  THEN IF SameDims(rule, e, t) THEN Match("REVIEW", p, 20) ELSE Unmapped
  ELSE IF SameIdentity(rule, e, t) THEN Match("EXACT", p, 100)
  ELSE IF rule.hierarchy THEN HierarchyFallback(rule, e, p, t)
  ELSE DimsFallback(rule, e, p, t)

HasRequiredInput(rule, e) ==
  IF rule.dims # {} THEN \A k \in rule.dims : e[k] # Unknown
  ELSE Complete(rule, e)

NoMatch(rule, e) ==
  [reason |-> IF Complete(rule, e) THEN "NO_PMC_PRODUCT" ELSE "INSUFFICIENT_DATA",
   product |-> NoProduct]

Scores(rule, e, cands) == {Score(rule, e, p, cands[p]) : p \in DOMAIN cands}
Better(m, n) == \/ Rank[m.status] < Rank[n.status]
                \/ (m.status = n.status /\ m.score > n.score)
\* A mutant of Ambiguous: the first of the best is taken.
NeverAmbiguous(rule, m, scores) == FALSE
Ambiguous(rule, m, scores) ==
  /\ m.status \in {"EXACT"} \cup (IF rule.allowHigh THEN {"HIGH"} ELSE {})
  /\ \E n \in scores : /\ n.status = m.status
                       /\ n.product \notin {NoProduct, m.product}

Conclude(rule, e, m, scores) ==
  CASE Ambiguous(rule, m, scores) -> [reason |-> "AMBIGUOUS", product |-> m.product]
    [] m.product = NoProduct -> NoMatch(rule, e)
    [] OTHER -> [reason |-> m.status, product |-> m.product]

\* What best_match answers over the candidates, a function from products to
\* their attributes: one answer for each of the best scores, since nothing
\* orders the candidates that are read.
BestMatch(rule, e, cands) ==
  LET scores == Scores(rule, e, cands)
      bests == {m \in scores : \A n \in scores : ~Better(n, m)}
  IN IF ~HasRequiredInput(rule, e)
     THEN {[reason |-> "INSUFFICIENT_DATA", product |-> NoProduct]}
     ELSE IF DOMAIN cands = {} THEN {NoMatch(rule, e)}
     ELSE {Conclude(rule, e, m, scores) : m \in bests}

\* is_exact_applicable: the products an EXACT lets the rule attach.
ExactProducts(rule, e, cands) ==
  {m.product : m \in {x \in BestMatch(rule, e, cands) :
                        x.reason = "EXACT" /\ x.product # NoProduct /\ Complete(rule, e)}}

\* What an exact match should be, said without the matcher: one product, and
\* no other, has the identity of the reference, whole, and none of the flags
\* it has is known to be otherwise.
Fits(rule, e, t) == SameIdentity(rule, e, t) /\ ~Contradicted(rule, e, t)
TheOnlyFit(rule, e, p, cands) ==
  /\ p \in DOMAIN cands
  /\ Fits(rule, e, cands[p])
  /\ \A q \in DOMAIN cands \ {p} : ~Fits(rule, e, cands[q])
=============================================================================
