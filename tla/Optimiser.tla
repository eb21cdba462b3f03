------------------------------- MODULE Optimiser ------------------------------
(***************************************************************************)
(* A comparison (services/comparison.py) and the search for its strategies *)
(* (services/optimization.py, services/procurement_cost.py): the line that *)
(* is bought of each product, the basket of each supplier, and the search  *)
(* through the subsets of agencies and the thresholds of preparation for   *)
(* the single stop, the cheapest materials and the best compromise.        *)
(*                                                                         *)
(* An agency without a place in the layout of the request is not           *)
(* geolocated: the national catalogue.  Prices are those of the basis      *)
(* compared in, before rounding; Cent of their units make a cent.          *)
(***************************************************************************)
EXTENDS TourOrder

CONSTANTS
    Families,      \* the comparisons asked: carts, limits, layouts and shelves
    Cent,          \* a cent, in units of price
    PerKm,         \* cost_per_km, time_value_per_hour, extra_stop_cost
    PerMinute,
    PerExtraStop,
    None

VARIABLES
    request,       \* cart: the quantity of each product; offers; layout; limit
    options,       \* "Tout chez ..." and "Panier optimisé"
    pc,
    subset, left,  \* the agencies searched, the thresholds left to try on them
    seen,          \* seen_allocations
    candidates,
    routes,        \* route_cache
    strategies

search == <<subset, left, seen, candidates, routes>>
vars == <<request, options, pc, search, strategies>>

Later == {"delayed", "order_only"}
Fulfillments == Later \cup {"stock", "available", "unavailable"}

Articles == [price : Nat, pack : Nat \ {0}, stock : Nat, prep : Nat,
             fulfillment : Fulfillments, comparable : BOOLEAN]

\* A shelf gives the article of a <<product, supplier, agency, reference>>, or None;
\* get_offers gives the offers of it.
OffersOf(shelf) ==
    {[product |-> slot[1], supplier |-> slot[2], agency |-> slot[3], ref |-> slot[4],
      price |-> shelf[slot].price, pack |-> shelf[slot].pack,
      stock |-> shelf[slot].stock, prep |-> shelf[slot].prep,
      fulfillment |-> shelf[slot].fulfillment,
      comparable |-> shelf[slot].comparable] :
        slot \in {s \in DOMAIN shelf : shelf[s] # None}}

CatalogueOffers ==
    [product : Nat \ {0}, supplier : Nat \ {0}, agency : Nat \ {0}, ref : Nat \ {0},
     price : Nat, pack : Nat \ {0}, stock : Nat, prep : Nat,
     fulfillment : Fulfillments, comparable : BOOLEAN]

\* The most that is asked of a product, and what an uncounted offer has of it.
Million == 1000000

\* CartLine: no product twice, its quantity more than 0 and at most a million.
Carts(cart) ==
    /\ DOMAIN cart # {} /\ IsFiniteSet(DOMAIN cart)
    /\ DOMAIN cart \subseteq Nat \ {0}
    /\ \A p \in DOMAIN cart : cart[p] \in 1..Million

\* A shelf is finite; suppliers, agencies and references have numbers, and an agency
\* is one supplier's.
Shelves(shelf) ==
    /\ IsFiniteSet(DOMAIN shelf)
    /\ DOMAIN shelf \subseteq [1..4 -> Nat \ {0}]
    /\ \A slot \in DOMAIN shelf : shelf[slot] \in Articles \cup {None}
    /\ \A s, t \in DOMAIN shelf : s[3] = t[3] => s[2] = t[2]

Layouts(layout) ==
    DOMAIN layout \subseteq Nat \ {0} /\ \A a \in DOMAIN layout : layout[a] \in Int \X Int

ASSUME FamiliesAssumption ==
    \A i \in DOMAIN Families :
        /\ Carts(Families[i].cart)
        /\ \A limit \in Families[i].limits : limit \in Nat
        /\ \A layout \in Families[i].layouts : Layouts(layout)
        /\ \A shelf \in Families[i].shelves : Shelves(shelf)

\* A tour, and a strategy: a basket of some offers that is complete, its tour or none.
Circuits == [order : Seq(Nat \ {0}), time : Nat, distance : Nat]

Deals(cart, offers) ==
    [basket : [DOMAIN cart -> [kind : {"available"}, offer : offers, packs : Nat \ {0}]],
     tour : Circuits \cup {None}, material : Nat, cost : Nat]

ASSUME NoneAssumption ==
    /\ None \notin Articles \cup Fulfillments \cup Nat \cup Circuits
    /\ \A i \in DOMAIN Families : None \notin Deals(Families[i].cart, CatalogueOffers)

\* CostParameters
ASSUME CostsAssumption ==
    Cent \in Nat \ {0} /\ PerKm \in Nat /\ PerMinute \in Nat /\ PerExtraStop \in Nat

-----------------------------------------------------------------------------
(* Lines and baskets *)

Rounded(amount) == (amount + Cent \div 2) \div Cent

Geolocated(o) == o.agency \in DOMAIN request.layout

RequiredPacks(quantity, pack) == (quantity + pack - 1) \div pack

\* Stock 0 is not a shortage: a shop said "available", or no shop at all.
Uncounted(o) == o.stock = 0 /\ (o.fulfillment = "available" \/ ~ Geolocated(o))

AvailableQuantity(o) == IF Uncounted(o) THEN Million ELSE o.pack * o.stock

CoversPacks(o, packs) == Uncounted(o) \/ o.stock >= packs

LineCost(o, packs) == Rounded(o.price * packs)

\* As the crow flies; what is not geolocated comes last.
Distance(o) ==
    IF Geolocated(o)
    THEN LET place == request.layout[o.agency]
         IN  place[1] * place[1] + place[2] * place[2]
    ELSE Million

\* Mutant: the price of one pack is compared, not that of the packs needed.
OfferRankUnit(o, packs) ==
    <<LineCost(o, 1), Distance(o), o.prep, o.supplier, o.agency, o.ref>>

OfferRank(o, packs) ==
    <<LineCost(o, packs), Distance(o), o.prep, o.supplier, o.agency, o.ref>>

Needed(o) == RequiredPacks(request.cart[o.product], o.pack)

Comparables(offers, p) == {o \in offers : o.product = p /\ o.comparable}

Stocked(offers, p) ==
    {o \in Comparables(offers, p) : o.fulfillment \notin Later \cup {"unavailable"}}

\* full, partial, delayed and on_order, in the order they are tried.
Pools == <<"available", "partial", "delayed", "order_only">>

Pool(kind, offers, p) ==
    CASE kind = "available" -> {o \in Stocked(offers, p) : CoversPacks(o, Needed(o))}
      [] kind = "partial" ->
            {o \in Stocked(offers, p) : o.stock > 0 /\ ~ CoversPacks(o, Needed(o))}
      [] OTHER -> {o \in Comparables(offers, p) : o.fulfillment = kind}

Packs(kind, o) == IF kind = "partial" THEN Min({o.stock, Needed(o)}) ELSE Needed(o)

\* The most packs of a partial line, then the best rank.
LineRank(kind, o) ==
    (IF kind = "partial" THEN <<- Packs(kind, o)>> ELSE <<>>) \o OfferRank(o, Packs(kind, o))

\* The line of a product: the best offer of the first pool that has any.
Line(offers, p) ==
    LET filled == {i \in DOMAIN Pools : Pool(Pools[i], offers, p) # {}}
        kind == Pools[Min(filled)]
        best == Least([o \in Pool(kind, offers, p) |-> LineRank(kind, o)])
    IN  IF filled = {}
        THEN [kind |-> IF Stocked(offers, p) # {} THEN "out_of_stock" ELSE "unavailable"]
        ELSE [kind |-> kind, offer |-> best, packs |-> Packs(kind, best)]

Basket(offers) == [p \in DOMAIN request.cart |-> Line(offers, p)]

Bought(basket) ==
    {p \in DOMAIN basket : basket[p].kind \in {"available", "partial"} \cup Later}

Complete(basket) == \A p \in DOMAIN basket : basket[p].kind = "available"

Total(basket) ==
    SumFunction([p \in Bought(basket) |-> LineCost(basket[p].offer, basket[p].packs)])

Used(basket) == {basket[p].offer.agency : p \in Bought(basket)}

Preparation(basket) == Max({0} \cup {basket[p].offer.prep : p \in Bought(basket)})

\* Materials, distance, time and stops, each rounded by itself.
Cost(basket, tour) ==
    Total(basket) + Rounded(tour.distance * PerKm)
        + Rounded((tour.time + Preparation(basket)) * PerMinute)
        + Max({Cardinality(Used(basket)) - 1, 0}) * PerExtraStop

\* resolve_tax_basis
Comparable == {o \in request.offers : o.comparable}

Eligible ==
    {o \in Comparable : /\ o.product \in DOMAIN request.cart
                        /\ AvailableQuantity(o) >= request.cart[o.product]}

OnRoute == {o \in Eligible : Geolocated(o)}

Keys == {o.agency : o \in OnRoute}

Thresholds == {o.prep : o \in OnRoute}

Covers(offers) == {o.product : o \in offers} = DOMAIN request.cart

Within(keys, threshold) ==
    {o \in OnRoute : o.agency \in keys /\ o.prep <= threshold}

Signature(basket) ==
    [p \in DOMAIN basket |-> <<basket[p].offer.agency, basket[p].offer.ref>>]

\* The order of combinations(): by size, then by keys.
Earlier(s, t) ==
    \/ Cardinality(s) < Cardinality(t)
    \/ /\ Cardinality(s) = Cardinality(t)
       /\ s # t
       /\ Min(SymDiff(s, t)) \in s

Following(s) ==
    LET after == {t \in SUBSET Keys : Earlier(s, t)}
    IN  IF after = {} THEN {}
        ELSE CHOOSE t \in after : \A u \in after \ {t} : Earlier(t, u)

\* Mutant: the strategies are ranked by their materials.
CostRankMaterials(c) == <<c.material, c.cost, Len(c.tour.order), c.tour.time>> \o c.tour.order

CostRank(c) == <<c.cost, c.material, Len(c.tour.order), c.tour.time>> \o c.tour.order

\* min(candidates, key=cost_rank)
Cheapest(found) == Least([c \in found |-> CostRank(c)])

National(basket) == [basket |-> basket, tour |-> None, material |-> Total(basket),
                     cost |-> Total(basket)]

-----------------------------------------------------------------------------
(* compare, then optimize *)

Init ==
    /\ \E i \in DOMAIN Families :
           \E limit \in Families[i].limits, layout \in Families[i].layouts,
              shelf \in Families[i].shelves :
               request = [cart |-> Families[i].cart, limit |-> limit,
                          layout |-> layout, offers |-> OffersOf(shelf)]
    /\ options = None
    /\ pc = "asked"
    /\ subset = {} /\ left = {}
    /\ seen = {} /\ candidates = {} /\ routes = <<>>
    /\ strategies = None

\* The options of compare: one basket for each supplier, one of all offers.
Offered ==
    [s \in {o.supplier : o \in request.offers} \cup {0} |->
        Basket({o \in Comparable : s = 0 \/ o.supplier = s})]

\* No basket of geolocated agencies is complete: the materials alone.
NoTour ==
    /\ pc = "asked"
    /\ ~ Complete(Basket(OnRoute))
    /\ options' = Offered
    /\ strategies' = [single |-> None, compromise |-> None,
                      minimum |-> IF Complete(Basket(Eligible))
                                  THEN National(Basket(Eligible)) ELSE None]
    /\ pc' = "answered"
    /\ UNCHANGED <<request, search>>

\* OptimizationLimitError
Refuse ==
    /\ pc = "asked"
    /\ Complete(Basket(OnRoute))
    /\ Cardinality(Keys) > request.limit
    /\ pc' = "refused"
    /\ UNCHANGED <<request, options, search, strategies>>

Start ==
    /\ pc = "asked"
    /\ Complete(Basket(OnRoute))
    /\ Cardinality(Keys) <= request.limit
    /\ options' = Offered
    /\ subset' = Following({})
    /\ left' = Thresholds
    /\ pc' = "search"
    /\ UNCHANGED <<request, seen, candidates, routes, strategies>>

\* The subset does not sell everything, or all its thresholds were tried.
NextSubset ==
    /\ pc = "search"
    /\ subset # {}
    /\ left = {} \/ ~ Covers(Within(subset, Max(Thresholds)))
    /\ subset' = Following(subset)
    /\ left' = Thresholds
    /\ UNCHANGED <<request, options, pc, seen, candidates, routes, strategies>>

Remember(basket) == seen' = seen \cup {Signature(basket)}

\* The cheapest basket of the subset within a threshold, if it is a new one.
TryThreshold ==
    LET threshold == Min(left)
        basket == Basket(Within(subset, threshold))
        used == Used(basket)
        tour == IF used \in DOMAIN routes THEN routes[used]
                ELSE ShortestTour(request.layout, used)
        found == [basket |-> basket, tour |-> tour,
                  material |-> Total(basket), cost |-> Cost(basket, tour)]
    IN  /\ pc = "search"
        /\ subset # {}
        /\ left # {} /\ Covers(Within(subset, Max(Thresholds)))
        /\ left' = left \ {threshold}
        /\ IF /\ Covers(Within(subset, threshold))
              /\ Complete(basket)
              /\ Signature(basket) \notin seen
           THEN /\ Remember(basket)
                /\ routes' = [k \in DOMAIN routes \cup {used} |->
                              IF k = used THEN tour ELSE routes[k]]
                /\ candidates' = candidates \cup {found}
           ELSE UNCHANGED <<seen, candidates, routes>>
        /\ UNCHANGED <<request, options, pc, subset, strategies>>

\* The national prices stay only where they are strictly lower.
MinimumOf(found) ==
    LET national == Basket(Eligible)
        best == Least([c \in found |-> <<c.material>> \o CostRank(c)])
    IN  IF Total(national) < best.material THEN National(national) ELSE best

Answer ==
    LET singles == {c \in candidates : Len(c.tour.order) = 1}
    IN  /\ pc = "search"
        /\ subset = {}
        /\ strategies' = IF candidates = {}
                         THEN [single |-> None, compromise |-> None,
                               minimum |-> National(Basket(Eligible))]
                         ELSE [single |-> IF singles = {} THEN None ELSE Cheapest(singles),
                               minimum |-> MinimumOf(candidates),
                               compromise |-> Cheapest(candidates)]
        /\ pc' = "answered"
        /\ UNCHANGED <<request, options, search>>

Next == NoTour \/ Refuse \/ Start \/ NextSubset \/ TryThreshold \/ Answer

Spec == Init /\ [][Next]_vars

-----------------------------------------------------------------------------
(* What the search promises, against all the assignments there are *)

\* Type invariant.
TypeOK ==
    /\ pc \in {"asked", "search", "answered", "refused"}
    /\ subset \subseteq Keys /\ left \subseteq Thresholds
    /\ DOMAIN routes \subseteq SUBSET Keys
    /\ Cardinality(seen) = Cardinality(candidates)

\* Every way to buy each line whole, at one agency each, from its stock.
Assignments(offers) ==
    LET whole == {o \in offers : /\ o.comparable
                                 /\ o.fulfillment \notin Later \cup {"unavailable"}
                                 /\ \/ Uncounted(o)
                                    \/ o.stock * o.pack >= request.cart[o.product]}
    IN  {a \in [DOMAIN request.cart -> whole] :
            \A p \in DOMAIN a : a[p].product = p}

Packed(a) ==
    [p \in DOMAIN a |->
        [kind |-> "available", offer |-> a[p],
         packs |-> CHOOSE n \in 0..request.cart[p] :
                       /\ n * a[p].pack >= request.cart[p]
                       /\ (n - 1) * a[p].pack < request.cart[p]]]

\* The cost of an assignment on the best of all the orders of its stops.
FullCost(a) ==
    Cost(Packed(a), Exhaustive(request.layout, Used(Packed(a))))

OnRouteAssignments == Assignments({o \in request.offers :
                                      Geolocated(o) /\ o.product \in DOMAIN request.cart})

AllAssignments == Assignments({o \in request.offers : o.product \in DOMAIN request.cart})

\* The tour of a candidate visits the agencies its lines are bought at, no other,
\* in the order that is best of all, the order of the keys at equality.
ToursAreBest ==
    \A c \in candidates :
        c.tour = Exhaustive(request.layout, Used(c.basket))

\* "Meilleur compromis" costs no more than any assignment of the lines to agencies
\* with a place, and is missing only where there is none: the subsets, the
\* thresholds, the signatures and the tours lose nothing.
CompromiseIsCheapest ==
    /\ ToursAreBest
    /\ pc = "answered" =>
        /\ (strategies.compromise = None) <=> (OnRouteAssignments = {})
        /\ \A a \in OnRouteAssignments : strategies.compromise.cost <= FullCost(a)

\* The same of "1 seul arrêt" among the assignments to one agency. "Prix matériaux
\* minimum" is the least price of all assignments, national ones included; between
\* those of that price that have a tour, the one of least cost.
StrategiesAreCheapest ==
    /\ CompromiseIsCheapest
    /\ LET alone == {a \in OnRouteAssignments : Cardinality(Used(Packed(a))) = 1}
       IN  pc = "answered" =>
           /\ (strategies.single = None) <=> (alone = {})
           /\ \A a \in alone : strategies.single.cost <= FullCost(a)
           /\ (strategies.minimum = None) <=> (AllAssignments = {})
           /\ \A a \in AllAssignments :
                  strategies.minimum.material <= Total(Packed(a))
           /\ \A a \in OnRouteAssignments :
                  strategies.minimum.material = Total(Packed(a)) =>
                      /\ strategies.minimum.tour # None
                      /\ strategies.minimum.cost <= FullCost(a)

\* "Panier optimisé" is complete wherever a supplier alone is, and never dearer.
OptimisedIsBest ==
    options # None =>
        \A s \in DOMAIN options :
            Complete(options[s]) =>
                /\ Complete(options[0])
                /\ Total(options[0]) <= Total(options[s])
===============================================================================
