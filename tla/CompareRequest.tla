----------------------------- MODULE CompareRequest -----------------------------
(***************************************************************************)
(* The request POST /api/compare up to the search of Optimiser: the origin *)
(* (services/origin.py, services/geocoding.py), the connectors that answer *)
(* (connectors/registry.py) and the offers each of them gives              *)
(* (repositories/offers.py, connectors/gedimat, connectors/bricodepot).    *)
(* Meanwhile an administrator activates suppliers and catalogues and the   *)
(* directory of Gedimat stores is refreshed.                               *)
(*                                                                         *)
(* The leases and transactions of the live cache are those of OfferCache;  *)
(* here a store asked gives any answer, or none.  Prices are exclusive of  *)
(* tax.  What a case holds fixed is read through the.                      *)
(***************************************************************************)
EXTENDS Optimiser

CONSTANTS
    Cases,         \* the requests: cart, shelves, references, settings and answers
    Brico,         \* SUPPLIER_NAME_ALIASES
    BricoLive,     \* SUPPLIER_NAME of the live connector, one of Brico
    Gedimat,
    MaxStores,     \* gedimat_nearest_store_limit, bricodepot_max_stores
    MaxEdits       \* changes made by others during the request

ASSUME BrandsAssumption == BricoLive \in Brico /\ Gedimat \notin Brico

ASSUME MaxStoresAssumption == MaxStores \in Nat \ {0}

Places == (Int \X Int) \cup {None}

\* A row of the cache is of a connector, a store and a reference; what it holds.
Slots == {"gedimat", "brico"} \X (Nat \ {0}) \X (Nat \ {0})

CachedRows ==
    [gedimat |-> [price : Nat \cup {None}, stock : Nat, sold : Fulfillments \ {"stock"},
                  fresh : BOOLEAN],
     brico |-> [price : Nat \cup {None}, stock : Nat \cup {None},
                sold : BOOLEAN \cup {None}, fresh : BOOLEAN]]

Hits ==
    [gedimat |-> [price : Nat \cup {None}, stock : Nat, sold : Fulfillments \ {"stock"}],
     brico |-> [price : Nat \cup {None}, stock : Nat \cup {None},
                sold : BOOLEAN \cup {None}]]

LiveOffers ==
    [product : Nat \ {0}, supplier : Nat \ {0}, agency : Nat \ {0}, ref : Nat \ {0},
     price : Nat, pack : Nat \ {0}, stock : Nat, prep : {0},
     fulfillment : Fulfillments, comparable : {TRUE}, shop : Nat \ {0}, place : Places]

Retailers == [id : Nat \ {0}, place : Places, distance : Nat \cup {None}]

StoreRows == [ecommerce : BOOLEAN, own : (Nat \ {0}) \cup {None}, place : Places]

\* Agencies are numbered apart: those of Gedimat, of Brico and of the catalogues.
GedimatKeys(c) ==
    {c.configured} \cup DOMAIN c.directory
        \cup {c.directory[s].own : s \in {s \in DOMAIN c.directory : c.directory[s] # None}}
        \cup UNION {{listing[s].page.shop : s \in {s \in DOMAIN listing : listing[s].page # None}} :
                       listing \in c.listings}

BricoKeys(c) == {r.id : r \in UNION {ToSet(list) : list \in c.retailers \cup {c.locator.list}}}

KeysApart(c) ==
    /\ GedimatKeys(c) \cap BricoKeys(c) = {}
    /\ {slot[3] : slot \in DOMAIN c.shelf} \cap (GedimatKeys(c) \cup BricoKeys(c)) = {}

\* What a case gives.
CaseOK(c) ==
    /\ Carts(c.cart) /\ c.limit \in Nat /\ Shelves(c.shelf) /\ KeysApart(c)
    /\ None \notin Deals(c.cart, CatalogueOffers \cup LiveOffers)
    /\ \A s \in c.suppliers : /\ IsFiniteSet(DOMAIN s) /\ DOMAIN s \subseteq Nat \ {0}
                              /\ \A n \in DOMAIN s : s[n] \in BOOLEAN \cup {None}
                              /\ Brico \cup {Gedimat} \subseteq DOMAIN s
                              /\ \A o \in c.opened : o \subseteq DOMAIN s
    /\ DOMAIN c.places \subseteq Nat \ {0}
    /\ \A a \in DOMAIN c.places : c.places[a] \in Places
    /\ c.mapped \in Seq([supplier : Nat \ {0}, product : Nat \ {0},
                         ref : Nat \ {0}, pack : Nat \ {0}])
    /\ c.live \subseteq {"gedimat", "brico"} /\ c.live \subseteq DOMAIN c.hits
    /\ \A kind \in c.live : c.hits[kind] \subseteq Hits[kind]
    /\ c.configured \in (Nat \ {0}) \cup {None}
    /\ IsFiniteSet(DOMAIN c.directory) /\ DOMAIN c.directory \subseteq Nat \ {0}
    /\ \A s \in DOMAIN c.directory : c.directory[s] \in StoreRows \cup {None}
    /\ \A listing \in c.listings : \A s \in DOMAIN listing :
           /\ listing[s].ecommerce \in BOOLEAN /\ listing[s].place \in Places
           /\ listing[s].page # None => listing[s].page.shop \in Nat \ {0}
    /\ \A list \in c.retailers \cup {c.locator.list} : list \in Seq(Retailers)
    /\ \A r \in c.rows : \A slot \in DOMAIN r :
           slot \in Slots /\ r[slot] \in CachedRows[slot[1]]
    /\ \A o \in c.origins :
           o.type \in {"none", "company", "coordinates"} => o.place \in Int \X Int
    /\ \A features \in c.answers :
           features \in Seq([place : Places, commune : Nat \cup {None}, score : Int])

ASSUME CasesAssumption ==
    DOMAIN Cases \subseteq Nat \ {0} /\ \A i \in DOMAIN Cases : CaseOK(Cases[i])

VARIABLES
    case,          \* the case asked; 0 where the search is given its request
    suppliers,     \* Supplier.active of each name, None without a row
    opened,        \* the suppliers whose catalogue is active
    directory,     \* gedimat_stores: a row of each store, or None
    locator,       \* the store locator of the commune as it is cached
    rows,          \* the cached answers, by <<connector, store, reference>>
    origin,
    live,          \* the brands whose live connector was built
    todo,          \* the connectors still to ask
    found,         \* the offers of the connector being asked
    collected,     \* raw_offers
    steady,        \* the suppliers on sale since the request came (history)
    edits

database == <<suppliers, opened, directory, steady, edits>>
cached == <<locator, rows>>
served == <<origin, live, todo, found, collected>>
requestVars == <<case, database, cached, served>>

the == Cases[case]

Serving == {"received", "located", "listed", "collecting"}

\* f where it is defined, g elsewhere.
Over(f, g) == [x \in DOMAIN f \cup DOMAIN g |-> IF x \in DOMAIN f THEN f[x] ELSE g[x]]

FirstOf(s, n) == SubSeq(s, 1, Min({n, Len(s)}))

-----------------------------------------------------------------------------
(* The origin *)

\* A feature with coordinates and a commune; the first of the best score. A score
\* that is missing is below all others.
BestFeature(features) ==
    LET usable == {i \in DOMAIN features :
                      features[i].place # None /\ features[i].commune # None}
    IN  IF usable = {} THEN None
        ELSE features[Least([i \in usable |-> <<- features[i].score, i>>])]

\* No feature is also what a service that is down or unreadable gives.
ReverseGeocode(features) == IF the.geocoder = "fake" THEN None ELSE BestFeature(features)

Geocode(address, features) ==
    IF the.geocoder # "fake" THEN BestFeature(features)
    ELSE IF address = "known" THEN [place |-> <<0, 0>>, commune |-> None] ELSE None

\* The commune of coordinates is a bonus; an address must be found.
Resolved(features) ==
    CASE origin.type = "none" -> [place |-> origin.place, commune |-> None]
      [] origin.type \in {"company", "coordinates"} ->
            LET location == ReverseGeocode(features)
            IN  [place |-> origin.place,
                 commune |-> IF location = None THEN None ELSE location.commune]
      [] OTHER -> Geocode(origin.address, features)

Resolve ==
    /\ pc = "received"
    /\ \E features \in the.answers :
           IF Resolved(features) = None
           THEN pc' = "refused" /\ UNCHANGED origin
           ELSE pc' = "located" /\ origin' = Resolved(features)
    /\ UNCHANGED <<case, database, cached, live, todo, found, collected,
                   request, options, search, strategies>>

-----------------------------------------------------------------------------
(* The connectors *)

\* No row blocks nothing; otherwise one of the rows must be active.
Participates(names) ==
    \/ \A n \in names : suppliers[n] = None
    \/ \E n \in names : suppliers[n] = TRUE

\* The vector from the origin to a place.
From(place) == <<place[1] - origin.place[1], place[2] - origin.place[2]>>

Crow(place) == LET v == From(place) IN v[1] * v[1] + v[2] * v[2]

Askable(s) ==
    /\ directory[s] # None
    /\ directory[s].ecommerce /\ directory[s].own # None /\ directory[s].place # None

NearestStores ==
    LET near == Sorted([s \in {s \in DOMAIN directory : Askable(s)} |->
                           <<Crow(directory[s].place), s>>])
    IN  [i \in DOMAIN FirstOf(near, MaxStores) |->
            [id |-> near[i], shop |-> directory[near[i]].own,
             place |-> directory[near[i]].place]]

\* The store of the settings: its own catalogue where the directory knows it.
ConfiguredStore ==
    LET known == the.configured \in DOMAIN directory /\ directory[the.configured] # None
        shop == IF known THEN directory[the.configured].own ELSE the.configured
    IN  IF the.configured = None \/ shop = None THEN <<>>
        ELSE <<[id |-> shop, shop |-> shop, place |-> None]>>

GedimatStores == IF NearestStores # <<>> THEN NearestStores ELSE ConfiguredStore

LiveConnectors ==
    (IF "gedimat" \in the.live /\ Participates({Gedimat}) /\ GedimatStores # <<>>
     THEN <<[kind |-> "gedimat", name |-> Gedimat, stores |-> GedimatStores]>>
     ELSE <<>>)
    \o (IF "brico" \in the.live /\ Participates(Brico) /\ origin.commune # None
        THEN <<[kind |-> "brico", name |-> BricoLive, stores |-> None]>>
        ELSE <<>>)

\* The Gedimat connector opens the public page of the shop when it is built; what
\* this raises is nobody's business and the request fails.
BuildLive ==
    /\ pc = "located"
    /\ todo' = LiveConnectors
    /\ live' = {LiveConnectors[i].name : i \in DOMAIN LiveConnectors}
    /\ \/ pc' = "listed"
       \/ /\ \E i \in DOMAIN LiveConnectors : LiveConnectors[i].kind = "gedimat"
          /\ pc' = "failed"
    /\ UNCHANGED <<case, database, cached, origin, found, collected,
                   request, options, search, strategies>>

\* Mutant: the catalogue gives way to a live connector that may not have been built.
ReplacedWhereEnabled ==
    (IF "brico" \in the.live THEN Brico ELSE {})
        \cup (IF "gedimat" \in the.live THEN {Gedimat} ELSE {})

\* The catalogues that give way to a live connector, whatever their alias.
Replaced ==
    (IF BricoLive \in live THEN Brico ELSE {}) \cup (live \ Brico)

\* The suppliers are read again.
BuildCatalogues ==
    LET names == Sorted([n \in {n \in DOMAIN suppliers : suppliers[n] = TRUE} \ Replaced |->
                            <<n>>])
    IN  /\ pc = "listed"
        /\ pc' = "collecting"
        /\ todo' = [i \in DOMAIN names |->
                       [kind |-> "catalogue", stores |-> None, name |-> names[i]]] \o todo
        /\ UNCHANGED <<case, database, cached, origin, live, found, collected,
                       request, options, search, strategies>>

-----------------------------------------------------------------------------
(* The offers of a catalogue *)

Asking(kind) == pc = "collecting" /\ todo # <<>> /\ Head(todo).kind = kind

\* The catalogue must be active; whether its supplier still is, is not asked.
AskCatalogue ==
    /\ Asking("catalogue")
    /\ collected' = collected \cup
           {o \in OffersOf(the.shelf) : o.supplier = Head(todo).name /\ o.supplier \in opened}
    /\ todo' = Tail(todo)
    /\ UNCHANGED <<case, pc, database, cached, origin, live, found,
                   request, options, search, strategies>>

-----------------------------------------------------------------------------
(* The offers of the live stores *)

\* The references of a brand mapped to a product of the cart, in the order of their
\* rows; for Brico the first row of a reference, under either name.
Mapped(kind) ==
    LET names == IF kind = "brico" THEN Brico ELSE {Gedimat}
        rowsOf == {i \in DOMAIN the.mapped :
                      /\ the.mapped[i].supplier \in names
                      /\ the.mapped[i].product \in DOMAIN the.cart}
    IN  {the.mapped[i] : i \in {i \in rowsOf :
            kind = "brico" =>
                \A j \in rowsOf : j < i => the.mapped[j].ref # the.mapped[i].ref}}

References(kind) == {m.ref : m \in Mapped(kind)}

Limited(list) ==
    LET rank(i) == <<IF list[i].distance = None THEN 1 ELSE 0,
                     IF list[i].distance = None THEN 0 ELSE list[i].distance, i>>
        sorted == Sorted([i \in DOMAIN list |-> rank(i)])
    IN  [i \in DOMAIN FirstOf(sorted, MaxStores) |->
            [id |-> list[sorted[i]].id, shop |-> list[sorted[i]].id,
             place |-> list[sorted[i]].place]]

\* The connector that has nothing more to ask gives its offers.
Proceed(stores, offers) ==
    IF stores = <<>>
    THEN /\ collected' = collected \cup offers
         /\ found' = {}
         /\ todo' = Tail(todo)
    ELSE /\ found' = offers
         /\ todo' = <<[Head(todo) EXCEPT !.stores = stores]>> \o Tail(todo)
         /\ UNCHANGED collected

\* The stores of the commune: the cached ones while they are fresh; those the service
\* gives now; the cached ones again when it fails or another request is asking it.
Locate ==
    /\ Asking("brico") /\ Head(todo).stores = None
    /\ \/ /\ References("brico") = {}
          /\ Proceed(<<>>, {})
          /\ UNCHANGED locator
       \/ /\ References("brico") # {} /\ ~ locator.fresh
          /\ \E list \in the.retailers :
                 /\ locator' = [list |-> list, fresh |-> TRUE]
                 /\ Proceed(Limited(list), {})
       \/ /\ References("brico") # {}
          /\ Proceed(Limited(locator.list), {})
          /\ UNCHANGED locator
    /\ UNCHANGED <<case, pc, database, rows, origin, live,
                   request, options, search, strategies>>

NoRow == [price |-> None, stock |-> None, sold |-> None, fresh |-> FALSE]

Row(kind, shop, ref) ==
    IF <<kind, shop, ref>> \in DOMAIN rows THEN rows[<<kind, shop, ref>>] ELSE NoRow

\* sold of a Brico hit: both flags say yes, one says no, or neither. An answer without
\* a price counts only when it says that the reference is not to be had.
BricoRow(hit, row) ==
    LET negative == hit.stock = 0 \/ hit.sold = FALSE
    IN  IF hit.price = None /\ ~ negative THEN row
        ELSE [price |-> IF hit.price = None THEN row.price ELSE hit.price,
              stock |-> IF hit.stock = None /\ negative THEN 0 ELSE hit.stock,
              sold |-> hit.sold, fresh |-> TRUE]

\* normalize_availability, purchasable_quantity: sold of a Gedimat hit is a fulfilment.
GedimatRow(hit, row) ==
    IF hit.price = None /\ hit.sold # "unavailable" THEN row
    ELSE [price |-> IF hit.price = None THEN row.price ELSE hit.price,
          stock |-> IF hit.price = None THEN 0 ELSE hit.stock,
          sold |-> hit.sold, fresh |-> TRUE]

\* Mutant: the stock of a reference that is not for sale is believed.
InStoreWhateverIsSold(row) == IF row.stock = None THEN 0 ELSE row.stock

\* experimental_in_store_available
InStore(row) == IF row.sold = TRUE /\ row.stock # None THEN row.stock ELSE 0

LiveOffer(m, store, price, stock, fulfillment, name) ==
    [product |-> m.product, supplier |-> name, agency |-> store.id, ref |-> m.ref,
     price |-> price, pack |-> m.pack, stock |-> stock, prep |-> 0,
     fulfillment |-> fulfillment, comparable |-> TRUE,
     shop |-> store.shop, place |-> store.place]

Live(o) == "shop" \in DOMAIN o

\* Fresh or not, a row with a price is an offer; for Gedimat, one with a status too.
BricoOffers(store) ==
    LET row(m) == rows'[<<"brico", store.shop, m.ref>>]
    IN  {LiveOffer(m, store, row(m).price, InStore(row(m)), "stock", BricoLive) :
            m \in {m \in Mapped("brico") : row(m).price # None}}

GedimatOffers(store) ==
    LET row(m) == rows'[<<"gedimat", store.shop, m.ref>>]
    IN  {LiveOffer(m, store, IF row(m).price = None THEN 0 ELSE row(m).price,
                   row(m).stock, row(m).sold, Gedimat) :
            m \in {m \in Mapped("gedimat") :
                      row(m).price # None \/ row(m).sold = "unavailable"}}

\* The references that are not fresh are asked; an answer may lack any of them, the
\* question may fail, or another request may be asking.
AskStore(kind) ==
    LET Stored(hit, row) == IF kind = "gedimat" THEN GedimatRow(hit, row) ELSE BricoRow(hit, row)
        Offers(store) == IF kind = "gedimat" THEN GedimatOffers(store) ELSE BricoOffers(store)
        here == Head(Head(todo).stores)
        ask == {ref \in References(kind) : ~ Row(kind, here.shop, ref).fresh}
    IN  /\ Asking(kind) /\ Head(todo).stores # None
        /\ \E hits \in [ask -> the.hits[kind] \cup {None}] :
               rows' = Over([slot \in {kind} \X {here.shop} \X References(kind) |->
                                LET row == Row(kind, here.shop, slot[3])
                                IN  IF slot[3] \in ask /\ hits[slot[3]] # None
                                    THEN Stored(hits[slot[3]], row) ELSE row], rows)
        /\ Proceed(Tail(Head(todo).stores), found \cup Offers(here))
        /\ UNCHANGED <<case, pc, database, locator, origin, live,
                       request, options, search, strategies>>

AskGedimat == AskStore("gedimat")

AskBrico == AskStore("brico")

\* What is raised while a live connector is asked costs it all its offers, those of
\* the stores already asked included, and no other connector.
LiveFails ==
    /\ Asking("gedimat") \/ Asking("brico")
    /\ todo' = Tail(todo)
    /\ found' = {}
    /\ UNCHANGED <<case, pc, database, cached, origin, live, collected,
                   request, options, search, strategies>>

\* The places of the agencies are given to the search as seen from the origin.
Compare ==
    LET place == Over([a \in {o.agency : o \in {o \in collected : Live(o)}} |->
                          (CHOOSE o \in collected : Live(o) /\ o.agency = a).place],
                      the.places)
    IN  /\ pc = "collecting" /\ todo = <<>>
        /\ request' = [cart |-> the.cart, limit |-> the.limit, offers |-> collected,
                       layout |-> [a \in {a \in DOMAIN place : place[a] # None} |->
                                      From(place[a])]]
        /\ pc' = "asked"
        /\ UNCHANGED <<requestVars, options, search, strategies>>

-----------------------------------------------------------------------------
(* Meanwhile *)

Edit == pc \in Serving /\ edits < MaxEdits /\ edits' = edits + 1

SetSupplierActive ==
    /\ Edit
    /\ \E n \in {n \in DOMAIN suppliers : suppliers[n] # None} :
           /\ suppliers' = [suppliers EXCEPT ![n] = ~ @]
           /\ steady' = steady \ {n}
    /\ UNCHANGED <<case, opened, directory, cached, served, vars>>

SetCatalogActive ==
    /\ Edit
    /\ \E n \in DOMAIN suppliers :
           /\ opened' = SymDiff(opened, {n})
           /\ steady' = steady \ {n}
    /\ UNCHANGED <<case, suppliers, directory, cached, served, vars>>

\* own_catalog_id: 1 is the default catalogue of the site, not that of a store that
\* sells nothing online.
OwnCatalog(store) ==
    IF store.page.shop = 1 /\ ~ store.ecommerce /\ store.page.ecommerce # TRUE
    THEN None ELSE store.page.shop

\* A store whose page could not be read keeps the catalogue it had; one that is no
\* longer listed keeps its row.
Refreshed(listing) ==
    [s \in DOMAIN directory |->
        IF s \notin DOMAIN listing THEN directory[s]
        ELSE [ecommerce |-> listing[s].ecommerce, place |-> listing[s].place,
              own |-> IF listing[s].page # None THEN OwnCatalog(listing[s])
                      ELSE IF directory[s] = None THEN None ELSE directory[s].own]]

SyncStores ==
    /\ Edit
    /\ \E listing \in the.listings : directory' = Refreshed(listing)
    /\ UNCHANGED <<case, suppliers, opened, steady, cached, served, vars>>

-----------------------------------------------------------------------------

\* The search is given its request, or a case is asked.
RequestInit ==
    \/ /\ Init
       /\ case = 0 /\ suppliers = <<>> /\ opened = {} /\ directory = <<>>
       /\ locator = None /\ rows = <<>> /\ origin = None
       /\ live = {} /\ todo = <<>> /\ found = {} /\ collected = {}
       /\ steady = {} /\ edits = 0
    \/ /\ case \in DOMAIN Cases
       /\ suppliers \in the.suppliers
       /\ opened \in the.opened
       /\ directory = the.directory
       /\ locator = the.locator
       /\ rows \in the.rows
       /\ origin \in the.origins
       /\ live = {} /\ todo = <<>> /\ found = {} /\ collected = {}
       /\ steady = {n \in opened : suppliers[n] = TRUE}
       /\ edits = 0
       /\ pc = "received"
       /\ request = None /\ options = None /\ strategies = None
       /\ subset = {} /\ left = {} /\ seen = {} /\ candidates = {} /\ routes = <<>>

RequestNext ==
    \/ Resolve \/ BuildLive \/ BuildCatalogues
    \/ AskCatalogue \/ Locate \/ AskGedimat \/ AskBrico \/ LiveFails \/ Compare
    \/ SetSupplierActive \/ SetCatalogActive \/ SyncStores
    \/ Next /\ UNCHANGED requestVars

RequestSpec == RequestInit /\ [][RequestNext]_<<vars, requestVars>>

-----------------------------------------------------------------------------

Brand(name) == IF name \in Brico THEN Brico ELSE {name}

\* A supplier that is on sale during the whole request is compared: with all the
\* offers of its catalogue, or with those of the live connector of its brand, never
\* with both, whatever fails and whatever is activated meanwhile.
EachBrandAnswers ==
    pc = "collecting" /\ todo = <<>> =>
        /\ \A o, q \in collected : Live(o) /\ q.supplier \in Brand(o.supplier) => Live(q)
        /\ \A n \in steady :
               \/ {o \in OffersOf(the.shelf) : o.supplier = n} \subseteq collected
               \/ Brand(n) \cap live # {}

\* The offers made of the answers of a store on a reference agree.
AnsweredOnce(o) ==
    \A q \in {q \in collected : Live(q)} :
        q.supplier = o.supplier /\ q.shop = o.shop /\ q.ref = o.ref =>
            q.price = o.price /\ q.stock = o.stock /\ q.fulfillment = o.fulfillment

\* What is bought at a live store is what the store said it sells: in the quantity it
\* counts where it counts, and as late as it said. (A Brico store without a place
\* sells without limit what it does not have; a catalogue asked twice, once for each
\* of two stores, may give two answers and keeps the second: both are left out.)
BoughtAsSold ==
    LET baskets == {options[s] : s \in DOMAIN options}
                       \cup {strategies[k].basket : k \in {k \in DOMAIN strategies :
                                                               strategies[k] # None}}
    IN  case # 0 /\ pc = "answered" =>
        \A basket \in baskets : \A p \in Bought(basket) :
            LET o == basket[p].offer
                kind == IF o.supplier = Gedimat THEN "gedimat" ELSE "brico"
                row == rows[<<kind, o.shop, o.ref>>]
            IN  Live(o) /\ AnsweredOnce(o) =>
                /\ row.price = o.price
                /\ o.supplier = BricoLive /\ Geolocated(o) =>
                       row.sold = TRUE /\ row.stock >= basket[p].packs
                /\ o.supplier = Gedimat =>
                       IF basket[p].kind \in Later THEN row.sold = basket[p].kind
                       ELSE /\ row.sold = "available"
                            /\ row.stock = 0 \/ row.stock >= basket[p].packs
================================================================================
