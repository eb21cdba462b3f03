------------------------------ MODULE ShoppingList ------------------------------
(***************************************************************************)
(* The shopping list (services/shopping_list.py): a solution found by      *)
(* Optimiser is kept as a snapshot, and its lines are read again from it   *)
(* by store, in the order of the tour, each under the key its purchase is  *)
(* saved and found with.  When the rows of purchases are written is in     *)
(* Chantier; here they are given.                                          *)
(***************************************************************************)
EXTENDS Optimiser

CONSTANT
    LiveKey        \* the <<namespace, id>> of the agencies of live stores

\* Those of live stores, and that of the agencies with a row.
Namespaces == {"db"} \cup {LiveKey[a][1] : a \in DOMAIN LiveKey}

AgencyKeys == Namespaces \X (Nat \ {0})

SelectedLines ==
    [product : Nat \ {0}, agency_key : AgencyKeys \cup {None}, agency_id : Nat \ {0},
     packs : Nat \ {0}, pack_price : Nat, line_total : Nat]

ASSUME KeysAssumption ==
    /\ None \notin AgencyKeys \cup SelectedLines \cup [real : Int, gap : Int]
    /\ \A a \in DOMAIN LiveKey : LiveKey[a] \in AgencyKeys /\ LiveKey[a][1] # "db"
    /\ \A a, b \in DOMAIN LiveKey : LiveKey[a] = LiveKey[b] => a = b

DbKey(id) == <<"db", id>>

\* agency_key
KeyOf(a) == IF a \in DOMAIN LiveKey THEN LiveKey[a] ELSE DbKey(a)

-----------------------------------------------------------------------------
(* What is retained *)

\* A strategy, or without a complete basket what there is of it, the effort.
Retainable ==
    {strategies[k] : k \in {k \in DOMAIN strategies : strategies[k] # None}}
        \cup (IF Complete(options[0]) \/ Bought(options[0]) = {} THEN {}
              ELSE {[basket |-> options[0], tour |-> None, material |-> None]})

\* A SelectedLine.
SelectedLine(basket, p) ==
    LET bought == basket[p]
        key == KeyOf(bought.offer.agency)
    IN  [product |-> p, agency_key |-> key, agency_id |-> key[2], packs |-> bought.packs,
         pack_price |-> Rounded(bought.offer.price),
         line_total |-> LineCost(bought.offer, bought.packs)]

\* The stops of the tour; without one the agencies, the nearest first.
Stops(solution) ==
    IF solution.tour # None THEN solution.tour.order
    ELSE Sorted([a \in Used(solution.basket) |-> <<Distance([agency |-> a]), a>>])

Snapshot(solution) ==
    LET bought == Sorted([p \in Bought(solution.basket) |-> <<p>>])
        stops == Stops(solution)
        points == <<0>> \o stops \o <<0>>
    IN  [lines |-> [i \in DOMAIN bought |-> SelectedLine(solution.basket, bought[i])],
         stops |-> [i \in DOMAIN stops |-> [agency_key |-> KeyOf(stops[i]),
                                            agency_id |-> KeyOf(stops[i])[2]]],
         legs |-> IF solution.tour = None THEN <<>>
                  ELSE [i \in 1..(Len(stops) + 1) |->
                           [end |-> IF i > Len(stops) THEN None ELSE KeyOf(stops[i]),
                            minutes |-> Leg(request.layout, points[i], points[i + 1]).time]]]

\* A snapshot of before the live stores: it holds no agency_key.
WithoutKeys(snapshot) ==
    [lines |-> [i \in DOMAIN snapshot.lines |->
                   [snapshot.lines[i] EXCEPT !.agency_key = None]],
     stops |-> [i \in DOMAIN snapshot.stops |->
                   [snapshot.stops[i] EXCEPT !.agency_key = None]],
     legs |-> snapshot.legs]

-----------------------------------------------------------------------------
(* What is shown of it *)

\* resolve_agency_key
AgencyKey(x) == IF x.agency_key = None THEN DbKey(x.agency_id) ELSE x.agency_key

\* Mutant: the namespace is not part of the key of a line.
MakeLineKeyOfId(line) == <<line.agency_id, line.product>>

MakeLineKey(line) ==
    LET key == AgencyKey(line)
    IN  IF key[1] = "db" THEN <<line.agency_id, line.product>>
        ELSE <<key[1], key[2], line.product>>

ParseLineKey(key) ==
    IF Len(key) = 2 THEN [agency |-> DbKey(key[1]), product |-> key[2]]
    ELSE [agency |-> <<key[1], key[2]>>, product |-> key[3]]

\* _snapshot_line: the first line the key is that of, or None for 404.
SnapshotLine(snapshot, key) ==
    LET parsed == ParseLineKey(key)
        found == {i \in DOMAIN snapshot.lines :
                     /\ AgencyKey(snapshot.lines[i]) = parsed.agency
                     /\ snapshot.lines[i].product = parsed.product}
    IN  IF found = {} THEN None ELSE snapshot.lines[Min(found)]

InOrder(places) == Sorted([i \in places |-> <<i>>])

\* The agencies of the stops, then those only lines have.
OrderedKeys(snapshot) ==
    LET keys == [i \in DOMAIN snapshot.stops |-> AgencyKey(snapshot.stops[i])]
                    \o [i \in DOMAIN snapshot.lines |-> AgencyKey(snapshot.lines[i])]
        first == InOrder({i \in DOMAIN keys : \A j \in 1..(i - 1) : keys[j] # keys[i]})
    IN  [n \in DOMAIN first |-> keys[first[n]]]

\* The minutes of the last leg that ends at the agency.
LegMinutes(snapshot, key) ==
    LET ends == {i \in DOMAIN snapshot.legs : snapshot.legs[i].end = key}
    IN  IF ends = {} THEN None ELSE snapshot.legs[Max(ends)].minutes

\* What a row of purchase makes of a line: its real price and the difference.  Whole
\* packs at a price in cents leave nothing to round.
TrackingView(row, line) ==
    IF row.quantity = None \/ row.price = None THEN None
    ELSE [real |-> row.quantity * row.price,
          gap |-> row.quantity * row.price - line.line_total]

\* The lines of a store, whatever the order they are shown in.
LinesOf(snapshot, key) == {line \in ToSet(snapshot.lines) : AgencyKey(line) = key}

\* suivi gives the row of each key that has one.
ListedLine(line, suivi) ==
    LET key == MakeLineKey(line)
    IN  [line_key |-> key, line |-> line,
         suivi |-> IF key \in DOMAIN suivi THEN TrackingView(suivi[key], line) ELSE None]

ListedStore(snapshot, suivi, key, order) ==
    LET lines == LinesOf(snapshot, key)
    IN  [agency_key |-> key, stop_order |-> order,
         minutes |-> LegMinutes(snapshot, key),
         subtotal |-> SumFunction([line \in lines |-> line.line_total]),
         lines |-> {ListedLine(line, suivi) : line \in lines}]

\* A store has a place in the order whether it is shown or not.
Stores(snapshot, suivi) ==
    LET keys == OrderedKeys(snapshot)
        shown == InOrder({i \in DOMAIN keys : LinesOf(snapshot, keys[i]) # {}})
    IN  [i \in DOMAIN shown |-> ListedStore(snapshot, suivi, keys[shown[i]], shown[i])]

\* The totals of the lines entered.
Actual(lines) ==
    LET entered == {item \in lines : item.suivi # None}
        real == SumFunction([item \in entered |-> item.suivi.real])
        planned == SumFunction([item \in entered |-> item.line.line_total])
    IN  [entered |-> Cardinality(entered),
         real |-> IF entered = {} THEN None ELSE real,
         gap |-> IF entered = {} THEN None ELSE real - planned]

BuildShoppingList(snapshot, suivi) ==
    LET stores == Stores(snapshot, suivi)
        all == UNION {stores[i].lines : i \in DOMAIN stores}
    IN  [stores |-> stores, lines |-> all, actual |-> Actual(all)]

\* The box of a line is ticked: the page fills in the packs and their price.
Prefilled(line) == [quantity |-> line.packs, price |-> line.pack_price]

\* The rows after the lines of these keys were ticked; a key nothing is found with
\* leaves none.
Ticked(snapshot, keys) ==
    [key \in {key \in keys : SnapshotLine(snapshot, key) # None} |->
        Prefilled(SnapshotLine(snapshot, key))]

-----------------------------------------------------------------------------
(* What a list has to be *)

\* Each line bought is shown in one store, the one it is bought at, under a key that
\* finds it again.
ShownWhereBought(list, snapshot, basket) ==
    /\ Cardinality(list.lines) = Cardinality(Bought(basket))
    /\ \A p \in Bought(basket) :
           \E store \in ToSet(list.stores) : \E item \in store.lines :
               /\ store.agency_key = KeyOf(basket[p].offer.agency)
               /\ item.line.product = p
               /\ SnapshotLine(snapshot, item.line_key) = item.line

\* The stores are the stops, in their order and with their minutes.
InOrderOfTheTour(list, stops, tour) ==
    /\ [i \in DOMAIN list.stores |-> list.stores[i].agency_key]
           = [i \in DOMAIN stops |-> KeyOf(stops[i])]
    /\ tour # None =>
           SumFunction([i \in DOMAIN list.stores |-> list.stores[i].minutes])
               + Leg(request.layout, Last(tour.order), 0).time = tour.time

\* Lines ticked as planned are all counted, off by no more than the rounding of the
\* price of each pack.
CountsWhatIsTicked(list, ticked) ==
    LET packs == SumFunction([item \in list.lines |-> item.line.packs])
    IN  /\ list.actual.entered = Cardinality(ticked)
        /\ ticked # {} => 2 * Absolute(list.actual.gap) <= packs + Cardinality(ticked)

IsTheSolution(list, snapshot, solution) ==
    /\ ShownWhereBought(list, snapshot, solution.basket)
    /\ InOrderOfTheTour(list, Stops(solution), solution.tour)
    /\ solution.material # None =>
           SumFunction([i \in DOMAIN list.stores |-> list.stores[i].subtotal]) = solution.material
    /\ \A ticked \in SUBSET {item.line_key : item \in list.lines} :
           CountsWhatIsTicked(BuildShoppingList(snapshot, Ticked(snapshot, ticked)), ticked)

\* Whatever solution is retained, and from the snapshots that hold no agency_key too:
\* each line bought is shown in one store, the one it is bought at, although stores of
\* two brands share their ids, and under a key that finds it again; the stores are
\* those of the tour, in its order and with its minutes; the subtotals make the price
\* of the materials; and lines ticked as planned, whichever, are all counted, off by no
\* more than the rounding of the price of each pack.
ListIsTheSolution ==
    pc = "answered" =>
    \A solution \in Retainable :
        \A made \in {Snapshot(solution)} :
            /\ IsTheSolution(BuildShoppingList(made, <<>>), made, solution)
            /\ (\A a \in Used(solution.basket) : KeyOf(a)[1] = "db") =>
                   IsTheSolution(BuildShoppingList(WithoutKeys(made), <<>>),
                                 WithoutKeys(made), solution)
===============================================================================
