------------------------ MODULE CompareRequest_proofs ------------------------
(***************************************************************************)
(* Proofs about CompareRequest and the search of Optimiser, for any cases: *)
(* carts, layouts, shelves, directories, cached rows, answers of stores.   *)
(*                                                                         *)
(* RequestTypeOK types what is asked, found and collected.  To it,         *)
(*   - BrandsOK adds which brands have still to answer;                    *)
(*   - OptionsOK, that the options are those of the request;               *)
(*   - SearchOK, that the candidates are deals and the tours the shortest; *)
(*   - TellingOK, that of the offers of a store on a reference one is what *)
(*     its row says;                                                       *)
(*   - TriedOK, that every subset before the present one was tried within  *)
(*     every threshold;                                                    *)
(*   - HomesOK and TwinsOK, that offers of one product, agency and         *)
(*     reference are prepared in the same time, so that two subsets of one *)
(*     signature make the same deal.                                       *)
(* Kept says what a snapshot of a solution holds, from which ShoppingList  *)
(* makes the list.                                                         *)
(***************************************************************************)
EXTENDS CompareRequest, ShoppingList, TourOrder_proofs

AskedStores == [id : Nat \ {0}, shop : Nat \ {0}, place : Places]

Connectors ==
    [kind : {"catalogue", "gedimat", "brico"}, name : Nat \ {0},
     stores : (Seq(AskedStores) \ {<<>>}) \cup {None}]

\* An offer of a catalogue or of a live store.
OfferOK(o) == o \in CatalogueOffers \cup LiveOffers

OffersOK(offers) == IsFiniteSet(offers) /\ \A o \in offers : OfferOK(o)

SuppliersOK ==
    /\ IsFiniteSet(DOMAIN suppliers) /\ DOMAIN suppliers \subseteq Nat \ {0}
    /\ \A n \in DOMAIN suppliers : suppliers[n] \in BOOLEAN \cup {None}
    /\ Brico \cup {Gedimat} \subseteq DOMAIN suppliers
    /\ opened \subseteq DOMAIN suppliers
    /\ \A n \in steady : n \in opened /\ suppliers[n] = TRUE

DirectoryOK ==
    /\ IsFiniteSet(DOMAIN directory) /\ DOMAIN directory \subseteq Nat \ {0}
    /\ \A s \in DOMAIN directory : directory[s] \in StoreRows \cup {None}

RowsOK ==
    /\ DOMAIN rows \subseteq Slots
    /\ \A slot \in DOMAIN rows : rows[slot] \in CachedRows[slot[1]] \cup {NoRow}

OriginOK ==
    /\ pc = "received" => /\ origin.type \in {"none", "company", "coordinates"} =>
                                origin.place \in Int \X Int
    /\ pc \in {"located", "listed", "collecting"} => origin.place \in Int \X Int

\* What a connector of the request may be.
Fit ==
    {c \in Connectors :
        /\ c.kind # "catalogue" => c.kind \in the.live
        /\ c.kind = "gedimat" => c.name = Gedimat
        /\ c.kind = "brico" => c.name = BricoLive}

TodoOK ==
    /\ todo \in Seq(Fit)
    /\ pc \in {"received", "located"} => todo = <<>>

Asked == {"asked", "search", "answered", "refused"}

\* What the search was given.
GivenOK ==
    /\ Carts(request.cart) /\ request.limit \in Nat /\ Layouts(request.layout)
    /\ OffersOK(request.offers) /\ None \notin Deals(request.cart, request.offers)
    /\ case # 0 => request.offers = collected

RequestTypeOK ==
    /\ pc \in Serving \cup Asked \cup {"failed"}
    /\ case \in DOMAIN Cases \cup {0}
    /\ pc \in Serving \cup {"failed"} => case # 0
    /\ case # 0 => SuppliersOK /\ DirectoryOK /\ RowsOK /\ locator.list \in Seq(Retailers)
    /\ pc \in Serving => OriginOK /\ TodoOK
    /\ OffersOK(found) /\ OffersOK(collected)
    /\ pc \in Asked \ {"refused"} => GivenOK

-----------------------------------------------------------------------------
\* The fields of an offer.
LEMMA OfferIs ==
    ASSUME NEW o, OfferOK(o)
    PROVE  /\ o.product \in Nat \ {0} /\ o.supplier \in Nat \ {0} /\ o.agency \in Nat \ {0}
           /\ o.ref \in Nat \ {0} /\ o.price \in Nat /\ o.pack \in Nat \ {0}
           /\ o.stock \in Nat /\ o.prep \in Nat /\ o.fulfillment \in Fulfillments
           /\ o.comparable \in BOOLEAN
           /\ Live(o) => o.place \in Places /\ o.prep = 0
<1>1. CASE o \in CatalogueOffers
  <2>1. "shop" \notin DOMAIN o
    BY <1>1 DEF CatalogueOffers
  <2> QED
    BY <1>1, <2>1 DEF CatalogueOffers, Live
<1>2. CASE o \in LiveOffers
  <2>1. o.prep \in Nat /\ o.prep = 0
    BY <1>2 DEF LiveOffers
  <2> QED
    BY <1>2, <2>1 DEF LiveOffers
<1> QED
  BY <1>1, <1>2 DEF OfferOK

\* Deals of fewer offers are deals.
LEMMA DealsShrink ==
    ASSUME NEW cart, NEW S, NEW T, S \subseteq T, None \notin Deals(cart, T)
    PROVE  None \notin Deals(cart, S)
<1>1. [kind : {"available"}, offer : S, packs : Nat \ {0}]
        \subseteq [kind : {"available"}, offer : T, packs : Nat \ {0}]
  OBVIOUS
<1>. DEFINE X == [kind : {"available"}, offer : S, packs : Nat \ {0}]
            Y == [kind : {"available"}, offer : T, packs : Nat \ {0}]
<1> HIDE DEF X, Y
<1>2. X \subseteq Y
  BY <1>1 DEF X, Y
<1>3. [DOMAIN cart -> X] \subseteq [DOMAIN cart -> Y]
  BY <1>2
<1>4. [basket : [DOMAIN cart -> X], tour : Circuits \cup {None}, material : Nat, cost : Nat]
        \subseteq [basket : [DOMAIN cart -> Y], tour : Circuits \cup {None}, material : Nat, cost : Nat]
  BY <1>3
<1> QED
  BY <1>4 DEF Deals, X, Y

\* While a case is served it is one of the cases.
LEMMA CaseIs ==
    ASSUME case \in DOMAIN Cases PROVE case # 0 /\ CaseOK(the)
  BY CasesAssumption DEF the

\* The offers of a shelf are finite and typed.
LEMMA ShelfOffers ==
    ASSUME NEW shelf, Shelves(shelf)
    PROVE  /\ OffersOK(OffersOf(shelf)) /\ OffersOf(shelf) \subseteq CatalogueOffers
           /\ \A o \in OffersOf(shelf) : ~ Live(o)
<1>. DEFINE slots == {s \in DOMAIN shelf : shelf[s] # None}
            offer == [slot \in slots |->
                        [product |-> slot[1], supplier |-> slot[2], agency |-> slot[3],
                         ref |-> slot[4],
      price |-> shelf[slot].price, pack |-> shelf[slot].pack,
      stock |-> shelf[slot].stock, prep |-> shelf[slot].prep,
      fulfillment |-> shelf[slot].fulfillment,
      comparable |-> shelf[slot].comparable]]
<1>1. IsFiniteSet(slots)
  BY FS_Subset DEF Shelves
<1>2. \A o \in OffersOf(shelf) : \E slot \in slots : o = offer[slot]
  BY DEF OffersOf
<1>3. \A slot \in slots : offer[slot] \in CatalogueOffers /\ ~ Live(offer[slot])
  BY DEF CatalogueOffers, Shelves, Articles, Live
<1>4. DOMAIN offer = slots
  OBVIOUS
<1> HIDE DEF offer
<1>5. IsFiniteSet(OffersOf(shelf))
  BY <1>1, <1>2, <1>4, FiniteValues
<1> QED
  BY <1>2, <1>3, <1>5 DEF OffersOK, OfferOK

\* The lesser of two numbers.
LEMMA MinOfTwo ==
    ASSUME NEW a \in Int, NEW b \in Int
    PROVE  Min({a, b}) = IF a <= b THEN a ELSE b
  BY DEF Min

\* The first members of a sequence.
LEMMA FirstOfIs ==
    ASSUME NEW T, NEW s \in Seq(T), NEW n \in Nat \ {0}
    PROVE  /\ FirstOf(s, n) \in Seq(T)
           /\ \E m \in 0..Len(s) : /\ DOMAIN FirstOf(s, n) = 1..m
                                   /\ Len(FirstOf(s, n)) = m
                                   /\ Len(s) > 0 => m > 0
           /\ \A i \in DOMAIN FirstOf(s, n) : i \in DOMAIN s /\ FirstOf(s, n)[i] = s[i]
<1>. DEFINE m == Min({n, Len(s)})
<1>1. m \in 0..Len(s) /\ (Len(s) > 0 => m > 0)
  BY MinOfTwo
<1> HIDE DEF m
<1>2. SubSeq(s, 1, m) = [i \in 1..m |-> s[i]]
  BY <1>1
<1>3. FirstOf(s, n) = [i \in 1..m |-> s[i]]
  BY <1>2 DEF FirstOf, m
<1>4. \A i \in 1..m : i \in DOMAIN s /\ s[i] \in T
  BY <1>1
<1>5. [i \in 1..m |-> s[i]] \in Seq(T) /\ Len([i \in 1..m |-> s[i]]) = m
  BY <1>1, <1>4
<1> QED
  BY <1>1, <1>3, <1>4, <1>5

LEMMA PairKey ==
    ASSUME NEW a \in Int, NEW b \in Int
    PROVE  <<a, b>> \in Seq(Int) /\ Len(<<a, b>>) = 2 /\ <<a, b>>[1] = a /\ <<a, b>>[2] = b
  OBVIOUS

LEMMA TripleKey ==
    ASSUME NEW a \in Int, NEW b \in Int, NEW c \in Int
    PROVE  <<a, b, c>> \in Seq(Int) /\ Len(<<a, b, c>>) = 3 /\ <<a, b, c>>[3] = c
  OBVIOUS

\* The feature chosen is one that can be used.
LEMMA BestFeatureIs ==
    ASSUME CaseOK(the), NEW features \in the.answers
    PROVE  BestFeature(features) # None => BestFeature(features).place \in Int \X Int
<1>. DEFINE usable == {i \in DOMAIN features :
                          features[i].place # None /\ features[i].commune # None}
            key == [i \in usable |-> <<- features[i].score, i>>]
<1>1. features \in Seq([place : Places, commune : Nat \cup {None}, score : Int])
  BY DEF CaseOK
<1>2. DOMAIN features = 1..Len(features) /\ Len(features) \in Nat
  BY <1>1
<1>3. \A i \in DOMAIN features : features[i] \in [place : Places, commune : Nat \cup {None}, score : Int]
  BY <1>1, ElementOfSeq, <1>2
<1>4. IsFiniteSet(usable)
  BY <1>2, FiniteInterval, FS_Subset
<1>a. \A i \in usable : features[i].score \in Int
  BY <1>3
<1>b. \A i \in usable : i \in Int
  BY <1>2
<1>c. \A n \in Int : - n \in Int
  OBVIOUS
<1>5. \A i \in usable : key[i] = <<- features[i].score, i>> /\ - features[i].score \in Int
  BY <1>a, <1>c
<1>6. ASSUME NEW i \in usable PROVE key[i] \in Seq(Int) /\ Len(key[i]) = 2
  <2>. DEFINE score == - features[i].score
  <2>1. key[i] = <<score, i>> /\ score \in Int /\ i \in Int
    BY <1>5, <1>b
  <2> HIDE DEF score, key
  <2>2. <<score, i>> \in Seq(Int) /\ Len(<<score, i>>) = 2
    BY <2>1, PairKey, Zenon
  <2> QED
    BY <2>1, <2>2, Zenon
<1>8. DOMAIN key = usable
  OBVIOUS
<1>7. Ranked(key, 1)
  <2> HIDE DEF key
  <2> QED
    BY <1>6, <1>8, RankedAlike, 1 \in Nat /\ 2 \in Nat /\ 3 \in Nat /\ 1 \in 1..2 /\ 1 \in 1..3
<1>9. usable # {} => Least(key) \in usable
  <2> HIDE DEF key, usable
  <2> QED
    BY <1>4, <1>7, <1>8, LeastIs
<1>10. usable # {} => features[Least(key)].place \in Int \X Int
  BY <1>9, <1>3 DEF Places
<1> QED
  BY <1>10 DEF BestFeature

\* An origin that is resolved has a place.
LEMMA ResolvedIs ==
    ASSUME CaseOK(the), NEW features \in the.answers,
           origin.type \in {"none", "company", "coordinates"} => origin.place \in Int \X Int,
           Resolved(features) # None
    PROVE  Resolved(features).place \in Int \X Int
  BY BestFeatureIs DEF Resolved, Geocode, ReverseGeocode

LEMMA CrowType ==
    ASSUME origin.place \in Int \X Int, NEW place \in Int \X Int
    PROVE  Crow(place) \in Int
<1>1. place[1] - origin.place[1] \in Int /\ place[2] - origin.place[2] \in Int
  OBVIOUS
<1>2. \A x, y \in Int : x * x + y * y \in Int
  OBVIOUS
<1> QED
  BY <1>1, <1>2 DEF Crow, From

\* The stores whose agencies are among H.
Housed(H) == {s \in AskedStores : s.id \in H}

\* Stores among some agencies.
LEMMA HousedAre ==
    ASSUME NEW H, NEW s \in Seq(Housed(H))
    PROVE  s \in Seq(AskedStores) /\ \A I : H \subseteq I => s \in Seq(Housed(I))
<1>1. Housed(H) \subseteq AskedStores /\ \A I : H \subseteq I => Housed(H) \subseteq Housed(I)
  BY DEF Housed
<1> QED
  BY <1>1, SeqMonotonic

\* The nearest stores are of the directory, no more than the limit.
LEMMA NearestStoresAre ==
    ASSUME CaseOK(the), DirectoryOK, origin.place \in Int \X Int
    PROVE  NearestStores \in Seq(AskedStores) /\ NearestStores \in Seq(Housed(DOMAIN directory))
<1>. DEFINE ask == {s \in DOMAIN directory : Askable(s)}
            key == [s \in ask |-> <<Crow(directory[s].place), s>>]
            near == Sorted(key)
<1>1. IsFiniteSet(ask) /\ \A s \in ask : s \in Nat \ {0}
  BY FS_Subset DEF DirectoryOK
<1>2. \A s \in ask : /\ directory[s].own \in Nat \ {0}
                     /\ directory[s].place \in Int \X Int
  BY DEF Askable, DirectoryOK, StoreRows, Places
<1>3. \A s \in ask : Crow(directory[s].place) \in Int
  BY <1>2, CrowType
<1>a. \A s \in ask : s \in Int
  BY <1>1
<1>b. \A s \in ask : key[s] = <<Crow(directory[s].place), s>>
  OBVIOUS
<1>4. ASSUME NEW s \in ask PROVE key[s] \in Seq(Int) /\ Len(key[s]) = 2 /\ key[s][2] = s
  <2>. DEFINE far == Crow(directory[s].place)
  <2>1. key[s] = <<far, s>> /\ far \in Int /\ s \in Int
    BY <1>a, <1>b, <1>3
  <2> HIDE DEF far, key
  <2>2. <<far, s>> \in Seq(Int) /\ Len(<<far, s>>) = 2 /\ <<far, s>>[2] = s
    BY <2>1, PairKey, Zenon
  <2> QED
    BY <2>1, <2>2, Zenon
<1>6. DOMAIN key = ask
  OBVIOUS
<1>5. Ranked(key, 1)
  <2> HIDE DEF key
  <2> QED
    BY <1>4, <1>6, RankedAlike, 1 \in Nat /\ 2 \in Nat /\ 3 \in Nat /\ 1 \in 1..2 /\ 1 \in 1..3
<1>7. \A x, y \in ask : key[x] = key[y] => x = y
  BY <1>4
<1>8. near \in Seq(ask)
  <2> HIDE DEF key, ask
  <2> QED
    BY <1>1, <1>5, <1>6, <1>7, SortedIs
<1> HIDE DEF near
<1>d. /\ \E m \in 0..Len(near) : DOMAIN FirstOf(near, MaxStores) = 1..m
      /\ \A i \in DOMAIN FirstOf(near, MaxStores) : i \in DOMAIN near
  <2> HIDE DEF ask
  <2>1. /\ \E m \in 0..Len(near) : /\ DOMAIN FirstOf(near, MaxStores) = 1..m
                                   /\ Len(FirstOf(near, MaxStores)) = m
                                   /\ Len(near) > 0 => m > 0
        /\ \A i \in DOMAIN FirstOf(near, MaxStores) : i \in DOMAIN near /\ FirstOf(near, MaxStores)[i] = near[i]
    BY <1>8, FirstOfIs, MaxStoresAssumption
  <2> QED
    BY <2>1
<1>e. Len(near) \in Nat /\ DOMAIN near = 1..Len(near)
  BY <1>8, LenProperties
<1>9. PICK m \in Nat : DOMAIN FirstOf(near, MaxStores) = 1..m
  BY <1>d, <1>e
<1>10. \A i \in 1..m : near[i] \in ask
  BY <1>8, <1>9, <1>d, <1>e, ElementOfSeq
<1>11. NearestStores = [i \in 1..m |->
            [id |-> near[i], shop |-> directory[near[i]].own, place |-> directory[near[i]].place]]
  BY <1>9 DEF NearestStores, near
<1>12. \A i \in 1..m : [id |-> near[i], shop |-> directory[near[i]].own,
                         place |-> directory[near[i]].place] \in Housed(DOMAIN directory)
  BY <1>10, <1>1, <1>2 DEF Housed, AskedStores, Places
<1>13. NearestStores \in Seq(Housed(DOMAIN directory))
  BY <1>11, <1>12
<1> QED
  BY <1>13, HousedAre

\* The retailers kept are of the list, no more than the limit.
LEMMA LimitedIs ==
    ASSUME NEW list \in Seq(Retailers)
    PROVE  Limited(list) \in Seq(AskedStores) /\ Limited(list) \in Seq(Housed({r.id : r \in ToSet(list)}))
<1>. DEFINE rank(i) == <<IF list[i].distance = None THEN 1 ELSE 0,
                     IF list[i].distance = None THEN 0 ELSE list[i].distance, i>>
            key == [i \in DOMAIN list |-> rank(i)]
            near == Sorted(key)
<1>1. DOMAIN list = 1..Len(list) /\ Len(list) \in Nat
  OBVIOUS
<1>2. \A i \in DOMAIN list : list[i] \in Retailers
  BY <1>1, ElementOfSeq
<1>3. IsFiniteSet(DOMAIN list)
  BY <1>1, FiniteInterval
<1>a. \A i \in DOMAIN list : /\ i \in Int
                               /\ list[i].distance # None => list[i].distance \in Int
  BY <1>1, <1>2 DEF Retailers
<1>b. \A i \in DOMAIN list : /\ (IF list[i].distance = None THEN 1 ELSE 0) \in Int
                               /\ (IF list[i].distance = None THEN 0 ELSE list[i].distance) \in Int
  BY <1>a
<1>c. \A i \in DOMAIN list : key[i] = rank(i)
  OBVIOUS
<1>4. ASSUME NEW i \in DOMAIN list
      PROVE  key[i] \in Seq(Int) /\ Len(key[i]) = 3 /\ key[i][3] = i
  <2>. DEFINE a == IF list[i].distance = None THEN 1 ELSE 0
              b == IF list[i].distance = None THEN 0 ELSE list[i].distance
  <2>1. key[i] = <<a, b, i>> /\ a \in Int /\ b \in Int /\ i \in Int
    BY <1>a, <1>b, <1>c
  <2> HIDE DEF a, b, key
  <2>2. <<a, b, i>> \in Seq(Int) /\ Len(<<a, b, i>>) = 3 /\ <<a, b, i>>[3] = i
    BY <2>1, TripleKey, Zenon
  <2> QED
    BY <2>1, <2>2, Zenon
<1>6. DOMAIN key = DOMAIN list
  OBVIOUS
<1>5. Ranked(key, 1)
  <2> HIDE DEF key
  <2> QED
    BY <1>4, <1>6, RankedAlike, 1 \in Nat /\ 2 \in Nat /\ 3 \in Nat /\ 1 \in 1..2 /\ 1 \in 1..3
<1>7. \A x, y \in DOMAIN list : key[x] = key[y] => x = y
  BY <1>4
<1>8. near \in Seq(DOMAIN list)
  <2> HIDE DEF key
  <2> QED
    BY <1>3, <1>5, <1>6, <1>7, SortedIs
<1> HIDE DEF near
<1>d. /\ \E m \in 0..Len(near) : DOMAIN FirstOf(near, MaxStores) = 1..m
      /\ \A i \in DOMAIN FirstOf(near, MaxStores) : i \in DOMAIN near
  <2>. DEFINE T == DOMAIN list
  <2>1. near \in Seq(T)
    BY <1>8
  <2> HIDE DEF T
  <2> QED
    BY <2>1, FirstOfIs, MaxStoresAssumption
<1>e. Len(near) \in Nat /\ DOMAIN near = 1..Len(near)
  BY <1>8, LenProperties
<1>9. PICK m \in Nat : DOMAIN FirstOf(near, MaxStores) = 1..m
  BY <1>d, <1>e
<1>10. \A i \in 1..m : near[i] \in DOMAIN list
  BY <1>8, <1>9, <1>d, <1>e, ElementOfSeq
<1>11. Limited(list) = [i \in 1..m |->
            [id |-> list[near[i]].id, shop |-> list[near[i]].id, place |-> list[near[i]].place]]
  BY <1>9 DEF Limited, near
<1>12. \A i \in 1..m : [id |-> list[near[i]].id, shop |-> list[near[i]].id,
                         place |-> list[near[i]].place] \in Housed({r.id : r \in ToSet(list)})
  BY <1>10, <1>2 DEF Housed, AskedStores, Retailers, ToSet
<1>13. Limited(list) \in Seq(Housed({r.id : r \in ToSet(list)}))
  BY <1>11, <1>12
<1> QED
  BY <1>13, HousedAre

\* The agencies of Gedimat: the stores of the directory, their catalogues, that of the settings.
GedimatHomes ==
    {the.configured} \cup DOMAIN directory
        \cup {directory[s].own : s \in {s \in DOMAIN directory : directory[s] # None}}

\* The store of the settings is one, or none.
LEMMA ConfiguredStoreIs ==
    ASSUME CaseOK(the), DirectoryOK
    PROVE  ConfiguredStore \in Seq(AskedStores) /\ ConfiguredStore \in Seq(Housed(GedimatHomes))
<1>. DEFINE known == the.configured \in DOMAIN directory /\ directory[the.configured] # None
            shop == IF known THEN directory[the.configured].own ELSE the.configured
            store == [id |-> shop, shop |-> shop, place |-> None]
<1>1. shop \in (Nat \ {0}) \cup {None}
        \/ the.configured = None
  BY DEF CaseOK, DirectoryOK, StoreRows
<1>2. ConfiguredStore = IF the.configured = None \/ shop = None THEN <<>> ELSE <<store>>
  BY DEF ConfiguredStore
<1>3. ~ (the.configured = None \/ shop = None) => store \in AskedStores /\ store.id \in GedimatHomes
  BY <1>1 DEF AskedStores, Places, GedimatHomes
<1> HIDE DEF store, shop
<1>4. ~ (the.configured = None \/ shop = None) => store \in Housed(GedimatHomes)
  BY <1>3 DEF Housed
<1>5. ConfiguredStore \in Seq(Housed(GedimatHomes))
  BY <1>2, <1>4
<1> QED
  BY <1>5, HousedAre

\* The stores of Gedimat asked are at agencies of Gedimat.
LEMMA GedimatStoresAre ==
    ASSUME CaseOK(the), DirectoryOK, origin.place \in Int \X Int
    PROVE  GedimatStores \in Seq(AskedStores) /\ GedimatStores \in Seq(Housed(GedimatHomes))
<1>1. DOMAIN directory \subseteq GedimatHomes
  BY DEF GedimatHomes
<1>2. NearestStores \in Seq(Housed(GedimatHomes))
  BY <1>1, NearestStoresAre, HousedAre
<1> QED
  BY <1>2, NearestStoresAre, ConfiguredStoreIs DEF GedimatStores

\* At most one live connector of each brand is built.
LEMMA LiveConnectorsAre ==
    ASSUME CaseOK(the), DirectoryOK, SuppliersOK, origin.place \in Int \X Int
    PROVE  /\ LiveConnectors \in Seq(Fit)
           /\ \A i \in DOMAIN LiveConnectors :
                  /\ LiveConnectors[i].kind \in {"gedimat", "brico"}
                  /\ LiveConnectors[i].stores = None \/ LiveConnectors[i].stores \in Seq(Housed(GedimatHomes))
           /\ \A i, j \in DOMAIN LiveConnectors :
                  i # j => LiveConnectors[i].kind # LiveConnectors[j].kind
<1>. DEFINE g == [kind |-> "gedimat", name |-> Gedimat, stores |-> GedimatStores]
            b == [kind |-> "brico", name |-> BricoLive, stores |-> None]
            G == "gedimat" \in the.live /\ Participates({Gedimat}) /\ GedimatStores # <<>>
            B == "brico" \in the.live /\ Participates(Brico) /\ origin.commune # None
<1>1. LiveConnectors = (IF G THEN <<g>> ELSE <<>>) \o (IF B THEN <<b>> ELSE <<>>)
  BY DEF LiveConnectors
<1>a. Gedimat \in Nat \ {0} /\ BricoLive \in Nat \ {0}
  BY BrandsAssumption DEF SuppliersOK
<1>b. G => GedimatStores \in Seq(AskedStores) \ {<<>>}
  BY GedimatStoresAre
<1>2. G => g \in Fit
  <2>1. G => g \in Connectors
    BY <1>a, <1>b DEF Connectors
  <2>2. G => g.kind \in the.live /\ g.name = Gedimat
    OBVIOUS
  <2> QED
    BY <2>1, <2>2 DEF Fit
<1>3. B => b \in Fit
  BY <1>a DEF Fit, Connectors
<1>. DEFINE gs == IF G THEN <<g>> ELSE <<>>
            bs == IF B THEN <<b>> ELSE <<>>
<1>4. /\ g.kind = "gedimat" /\ g.stores = GedimatStores
      /\ b.kind = "brico" /\ b.stores = None
  OBVIOUS
<1>c. GedimatStores \in Seq(Housed(GedimatHomes))
  BY GedimatStoresAre
<1> HIDE DEF g, b, G, B
<1>5. /\ gs \in Seq(Fit) /\ Len(gs) \in 0..1 /\ (Len(gs) = 1 => gs[1].kind = "gedimat")
      /\ bs \in Seq(Fit) /\ Len(bs) \in 0..1 /\ (Len(bs) = 1 => bs[1].kind = "brico")
  BY <1>2, <1>3, <1>4
<1>d. (Len(gs) = 1 => gs[1] = g) /\ (Len(bs) = 1 => bs[1] = b)
  OBVIOUS
<1> HIDE DEF gs, bs
<1>6. /\ gs \o bs \in Seq(Fit) /\ Len(gs \o bs) = Len(gs) + Len(bs)
      /\ \A i \in 1..(Len(gs) + Len(bs)) :
             (gs \o bs)[i] = IF i <= Len(gs) THEN gs[i] ELSE bs[i - Len(gs)]
  BY <1>5, ConcatProperties
<1>7. LiveConnectors = gs \o bs
  BY <1>1 DEF gs, bs
<1>8. DOMAIN LiveConnectors = 1..(Len(gs) + Len(bs))
  BY <1>6, <1>7, LenProperties
<1>9. \A i \in DOMAIN LiveConnectors :
         /\ LiveConnectors[i].kind = IF i <= Len(gs) THEN "gedimat" ELSE "brico"
         /\ LiveConnectors[i] \in {g, b}
  <2>0. Len(gs) \in 0..1 /\ Len(bs) \in 0..1
    BY <1>5
  <2>a. \A m, k \in 0..1 : \A n \in 1..(m + k) :
           (n <= m => n = 1 /\ m = 1) /\ (~ (n <= m) => n - m = 1 /\ k = 1)
    OBVIOUS
  <2> SUFFICES ASSUME NEW i \in 1..(Len(gs) + Len(bs))
               PROVE  /\ (gs \o bs)[i].kind = IF i <= Len(gs) THEN "gedimat" ELSE "brico"
                      /\ (gs \o bs)[i] \in {g, b}
    BY <1>7, <1>8
  <2>1. CASE i <= Len(gs)
    <3>1. i = 1 /\ Len(gs) = 1
      BY <2>0, <2>1, <2>a
    <3> QED
      BY <3>1, <1>5, <1>6, <1>d
  <2>2. CASE ~ (i <= Len(gs))
    <3>1. i - Len(gs) = 1 /\ Len(bs) = 1
      BY <2>0, <2>2, <2>a
    <3> QED
      BY <3>1, <2>2, <1>5, <1>6, <1>d
  <2> QED
    BY <2>1, <2>2
<1>10. \A i, j \in DOMAIN LiveConnectors : i # j => (i <= Len(gs) <=> ~ (j <= Len(gs)))
  <2>1. Len(gs) \in 0..1 /\ Len(bs) \in 0..1
    BY <1>5
  <2>2. \A m, k \in 0..1 : \A i, j \in 1..(m + k) : i # j => (i <= m <=> ~ (j <= m))
    OBVIOUS
  <2> QED
    BY <1>8, <2>1, <2>2
<1>11. \A i \in DOMAIN LiveConnectors :
          LiveConnectors[i].stores = None \/ LiveConnectors[i].stores \in Seq(Housed(GedimatHomes))
  BY <1>4, <1>9, <1>c
<1> QED
  BY <1>6, <1>7, <1>9, <1>10, <1>11

\* The rows of the mapping that count are finite and typed.
LEMMA MappedAre ==
    ASSUME CaseOK(the), NEW kind
    PROVE  /\ IsFiniteSet(Mapped(kind))
           /\ \A m \in Mapped(kind) :
                  /\ m.product \in Nat \ {0} /\ m.ref \in Nat \ {0} /\ m.pack \in Nat \ {0}
                  /\ m.ref \in References(kind)
           /\ \A ref \in References(kind) :
                  ref \in Nat \ {0} /\ \E m \in Mapped(kind) : m.ref = ref
<1>. DEFINE R == [supplier : Nat \ {0}, product : Nat \ {0}, ref : Nat \ {0}, pack : Nat \ {0}]
            f == the.mapped
<1>1. f \in Seq(R)
  BY DEF CaseOK
<1>2. DOMAIN f = 1..Len(f) /\ Len(f) \in Nat
  BY <1>1
<1>3. \A i \in DOMAIN f : f[i] \in R
  BY <1>1, <1>2, ElementOfSeq
<1>4. \A m \in Mapped(kind) : \E i \in DOMAIN f : m = f[i]
  BY DEF Mapped
<1>5. IsFiniteSet(DOMAIN f)
  BY <1>2, FiniteInterval
<1> HIDE DEF f
<1>6. IsFiniteSet(Mapped(kind))
  BY <1>4, <1>5, FiniteValues
<1>7. \A m \in Mapped(kind) : m \in R
  BY <1>3, <1>4
<1> QED
  BY <1>6, <1>7 DEF References

\* What is stored of an answer of Gedimat is a row,
LEMMA GedimatRowIs ==
    ASSUME NEW hit \in Hits.gedimat, NEW row \in CachedRows.gedimat \cup {NoRow}
    PROVE  /\ GedimatRow(hit, row) \in CachedRows.gedimat \cup {NoRow}
           /\ row.price # None \/ row.sold = "unavailable" =>
                  GedimatRow(hit, row).price # None \/ GedimatRow(hit, row).sold = "unavailable"
  BY DEF Hits, CachedRows, NoRow, GedimatRow

\* and so is what is stored of one of Brico.
LEMMA BricoRowIs ==
    ASSUME NEW hit \in Hits.brico, NEW row \in CachedRows.brico \cup {NoRow}
    PROVE  /\ BricoRow(hit, row) \in CachedRows.brico \cup {NoRow}
           /\ row.price # None => BricoRow(hit, row).price # None
  BY DEF Hits, CachedRows, NoRow, BricoRow

\* A row from which an offer is made.
Telling(kind, row) == row.price # None \/ (kind = "gedimat" /\ row.sold = "unavailable")

Asks(kind) ==
    Asking(kind) /\ Head(todo).stores # None /\ AskStore(kind)

Here == Head(Head(todo).stores)

\* The rows after a store was asked: those of its references, and no other.
LEMMA RowsAfter ==
    ASSUME CaseOK(the), RowsOK, TodoOK, NEW kind \in {"gedimat", "brico"}, AskStore(kind)
    PROVE  /\ Here \in AskedStores /\ Tail(Head(todo).stores) \in Seq(AskedStores)
           /\ RowsOK'
           /\ DOMAIN rows \subseteq DOMAIN rows'
           /\ \A ref \in References(kind) :
                  /\ <<kind, Here.shop, ref>> \in DOMAIN rows'
                  /\ rows'[<<kind, Here.shop, ref>>] \in CachedRows[kind] \cup {NoRow}
                  /\ Telling(kind, Row(kind, Here.shop, ref)) =>
                         Telling(kind, rows'[<<kind, Here.shop, ref>>])
           /\ \A slot \in DOMAIN rows :
                  ~ (slot[1] = kind /\ slot[2] = Here.shop /\ slot[3] \in References(kind)) =>
                      rows'[slot] = rows[slot]
<1>. DEFINE Stored(hit, row) == IF kind = "gedimat" THEN GedimatRow(hit, row) ELSE BricoRow(hit, row)
            here == Here
            ask == {ref \in References(kind) : ~ Row(kind, here.shop, ref).fresh}
<1>0. Asking(kind) /\ Head(todo).stores # None
  BY DEF AskStore
<1>1. Head(todo) \in Fit /\ Head(todo).kind = kind
  BY <1>0, HeadTailProperties DEF TodoOK, Asking
<1>2. Head(todo).stores \in Seq(AskedStores) \ {<<>>} /\ kind \in the.live
  BY <1>0, <1>1 DEF Fit, Connectors
<1>3. Here \in AskedStores /\ Tail(Head(todo).stores) \in Seq(AskedStores)
  BY <1>2, HeadTailProperties DEF Here
<1>4. the.hits[kind] \subseteq Hits[kind]
  BY <1>2 DEF CaseOK
<1>5. PICK hits \in [ask -> the.hits[kind] \cup {None}] :
         rows' = Over([slot \in {kind} \X {here.shop} \X References(kind) |->
                                LET row == Row(kind, here.shop, slot[3])
                                IN  IF slot[3] \in ask /\ hits[slot[3]] # None
                                    THEN Stored(hits[slot[3]], row) ELSE row], rows)
  BY DEF AskStore, Here
<1>6. here.shop \in Nat \ {0}
  BY <1>3 DEF AskedStores
<1>7. \A ref \in References(kind) : ref \in Nat \ {0}
  BY MappedAre
<1>8. \A ref \in References(kind) : Row(kind, here.shop, ref) \in CachedRows[kind] \cup {NoRow}
  BY <1>6, <1>7 DEF Row, RowsOK
<1>. DEFINE after(ref) == LET row == Row(kind, here.shop, ref)
                          IN  IF ref \in ask /\ hits[ref] # None
                              THEN Stored(hits[ref], row) ELSE row
<1>9. \A ref \in References(kind) :
         /\ after(ref) \in CachedRows[kind] \cup {NoRow}
         /\ Telling(kind, Row(kind, here.shop, ref)) => Telling(kind, after(ref))
  <2> SUFFICES ASSUME NEW ref \in References(kind)
               PROVE  /\ after(ref) \in CachedRows[kind] \cup {NoRow}
                      /\ Telling(kind, Row(kind, here.shop, ref)) => Telling(kind, after(ref))
    OBVIOUS
  <2>. DEFINE row == Row(kind, here.shop, ref)
  <2>1. row \in CachedRows[kind] \cup {NoRow}
    BY <1>8
  <2>2. CASE ~ (ref \in ask /\ hits[ref] # None)
    BY <2>1, <2>2
  <2>3. CASE ref \in ask /\ hits[ref] # None
    <3>1. hits[ref] \in Hits[kind]
      BY <2>3, <1>4, <1>5
    <3>2. after(ref) = Stored(hits[ref], row)
      BY <2>3
    <3> HIDE DEF row, ask
    <3>3. CASE kind = "gedimat"
      <4>1. hits[ref] \in Hits.gedimat /\ row \in CachedRows.gedimat \cup {NoRow}
        BY <3>1, <3>3, <2>1
      <4>2. after(ref) = GedimatRow(hits[ref], row)
        BY <3>2, <3>3
      <4> HIDE DEF after
      <4>3. /\ after(ref) \in CachedRows[kind] \cup {NoRow}
            /\ Telling(kind, row) => Telling(kind, after(ref))
        <5>1. /\ GedimatRow(hits[ref], row) \in CachedRows.gedimat \cup {NoRow}
              /\ row.price # None \/ row.sold = "unavailable" =>
               GedimatRow(hits[ref], row).price # None \/ GedimatRow(hits[ref], row).sold = "unavailable"
          BY <4>1, GedimatRowIs
        <5> QED
          BY <5>1, <4>2, <3>3 DEF Telling
      <4> QED
        BY <4>3 DEF row
    <3>4. CASE kind = "brico"
      <4>1. hits[ref] \in Hits.brico /\ row \in CachedRows.brico \cup {NoRow}
        BY <3>1, <3>4, <2>1
      <4>2. after(ref) = BricoRow(hits[ref], row)
        BY <3>2, <3>4
      <4> HIDE DEF after
      <4>3. /\ after(ref) \in CachedRows[kind] \cup {NoRow}
            /\ Telling(kind, row) => Telling(kind, after(ref))
        <5>1. /\ BricoRow(hits[ref], row) \in CachedRows.brico \cup {NoRow}
              /\ row.price # None => BricoRow(hits[ref], row).price # None
          BY <4>1, BricoRowIs
        <5> QED
          BY <5>1, <4>2, <3>4 DEF Telling
      <4> QED
        BY <4>3 DEF row
    <3> QED
      BY <3>3, <3>4
  <2> QED
    BY <2>2, <2>3
<1> HIDE DEF after, ask, here
<1>10. rows' = Over([slot \in {kind} \X {here.shop} \X References(kind) |-> after(slot[3])], rows)
  BY <1>5 DEF after
<1>. DEFINE new == {kind} \X {here.shop} \X References(kind)
<1>11. /\ DOMAIN rows' = new \cup DOMAIN rows
       /\ \A slot \in new : rows'[slot] = after(slot[3])
       /\ \A slot \in DOMAIN rows : slot \notin new => rows'[slot] = rows[slot]
  BY <1>10 DEF Over
<1>12. \A slot \in new : slot \in Slots /\ slot[1] = kind /\ slot[2] = here.shop /\ slot[3] \in References(kind)
  BY <1>6, <1>7 DEF Slots
<1>13. \A ref \in References(kind) : <<kind, here.shop, ref>> \in new /\ <<kind, here.shop, ref>>[3] = ref
  OBVIOUS
<1> HIDE DEF new
<1>14. RowsOK'
  BY <1>9, <1>11, <1>12 DEF RowsOK
<1> QED
  BY <1>3, <1>9, <1>11, <1>12, <1>13, <1>14 DEF here

\* The offers made of the answers of a store.
LEMMA LiveOffersAre ==
    ASSUME CaseOK(the), SuppliersOK, NEW kind \in {"gedimat", "brico"}, NEW store \in AskedStores,
           \A ref \in References(kind) :
               rows'[<<kind, store.shop, ref>>] \in CachedRows[kind] \cup {NoRow}
    PROVE  LET offers == IF kind = "gedimat" THEN GedimatOffers(store) ELSE BricoOffers(store)
           IN  /\ OffersOK(offers)
               /\ \A o \in offers :
                      /\ Live(o) /\ o.supplier = (IF kind = "gedimat" THEN Gedimat ELSE BricoLive)
                      /\ o.shop = store.shop /\ o.agency = store.id /\ o.prep = 0
                      /\ \E m \in Mapped(kind) :
                             o.product = m.product /\ o.ref = m.ref /\ o.pack = m.pack
<1>a. Gedimat \in Nat \ {0} /\ BricoLive \in Nat \ {0}
  BY BrandsAssumption DEF SuppliersOK
<1>b. store.id \in Nat \ {0} /\ store.shop \in Nat \ {0} /\ store.place \in Places
  BY DEF AskedStores
<1>c. None \notin Fulfillments /\ None \notin Nat /\ "unavailable" \in Fulfillments /\ "stock" \in Fulfillments
  BY NoneAssumption DEF Fulfillments
<1>1. CASE kind = "gedimat"
  <2>. DEFINE row(m) == rows'[<<"gedimat", store.shop, m.ref>>]
              made == {m \in Mapped("gedimat") : row(m).price # None \/ row(m).sold = "unavailable"}
              offer == [m \in made |->
                          LiveOffer(m, store, IF row(m).price = None THEN 0 ELSE row(m).price,
                                    row(m).stock, row(m).sold, Gedimat)]
  <2>1. IsFiniteSet(made) /\ DOMAIN offer = made
    BY MappedAre, FS_Subset
  <2>2. \A o \in GedimatOffers(store) : \E m \in made : o = offer[m]
    BY DEF GedimatOffers
  <2>3. ASSUME NEW m \in made
        PROVE  /\ OfferOK(offer[m]) /\ Live(offer[m])
               /\ offer[m].supplier = Gedimat /\ offer[m].shop = store.shop
               /\ offer[m].agency = store.id /\ offer[m].prep = 0
               /\ offer[m].product = m.product /\ offer[m].ref = m.ref /\ offer[m].pack = m.pack
    <3>1. /\ m.product \in Nat \ {0} /\ m.ref \in Nat \ {0} /\ m.pack \in Nat \ {0}
          /\ m.ref \in References("gedimat")
      BY MappedAre
    <3>2. row(m) \in CachedRows.gedimat \cup {NoRow}
      BY <1>1, <3>1
    <3>3. row(m) \in CachedRows.gedimat
      BY <3>2, <1>c DEF NoRow
    <3>4. /\ row(m).price \in Nat \cup {None} /\ row(m).stock \in Nat
          /\ row(m).sold \in Fulfillments
      BY <3>3 DEF CachedRows
    <3> QED
      BY <1>a, <1>b, <3>1, <3>4 DEF OfferOK, LiveOffers, LiveOffer, Live
  <2> HIDE DEF offer, made
  <2>4. OffersOK(GedimatOffers(store))
    BY <2>1, <2>2, <2>3, FiniteValues DEF OffersOK
  <2>5. \A m \in made : m \in Mapped(kind)
    BY <1>1 DEF made
  <2> QED
    BY <1>1, <2>2, <2>3, <2>4, <2>5
<1>2. CASE kind = "brico"
  <2>. DEFINE row(m) == rows'[<<"brico", store.shop, m.ref>>]
              made == {m \in Mapped("brico") : row(m).price # None}
              offer == [m \in made |->
                          LiveOffer(m, store, row(m).price, InStore(row(m)), "stock", BricoLive)]
  <2>1. IsFiniteSet(made) /\ DOMAIN offer = made
    BY MappedAre, FS_Subset
  <2>2. \A o \in BricoOffers(store) : \E m \in made : o = offer[m]
    BY DEF BricoOffers
  <2>3. ASSUME NEW m \in made
        PROVE  /\ OfferOK(offer[m]) /\ Live(offer[m])
               /\ offer[m].supplier = BricoLive /\ offer[m].shop = store.shop
               /\ offer[m].agency = store.id /\ offer[m].prep = 0
               /\ offer[m].product = m.product /\ offer[m].ref = m.ref /\ offer[m].pack = m.pack
    <3>1. /\ m.product \in Nat \ {0} /\ m.ref \in Nat \ {0} /\ m.pack \in Nat \ {0}
          /\ m.ref \in References("brico")
      BY MappedAre
    <3>2. row(m) \in CachedRows.brico \cup {NoRow}
      BY <1>2, <3>1
    <3>3. row(m) \in CachedRows.brico
      BY <3>2, <1>c DEF NoRow
    <3>4. row(m).price \in Nat \cup {None} /\ InStore(row(m)) \in Nat
      BY <3>3 DEF CachedRows, InStore
    <3> QED
      BY <1>a, <1>b, <1>c, <3>1, <3>4 DEF OfferOK, LiveOffers, LiveOffer, Live
  <2> HIDE DEF offer, made
  <2>4. OffersOK(BricoOffers(store))
    BY <2>1, <2>2, <2>3, FiniteValues DEF OffersOK
  <2>5. \A m \in made : m \in Mapped(kind)
    BY <1>2 DEF made
  <2> QED
    BY <1>2, <2>2, <2>3, <2>4, <2>5
<1> QED
  BY <1>1, <1>2

\* Offers and more offers.
LEMMA OffersUnion ==
    ASSUME NEW S, NEW T, OffersOK(S), OffersOK(T) PROVE OffersOK(S \cup T)
  BY FS_Union DEF OffersOK

LEMMA OffersSubset ==
    ASSUME NEW S, NEW T, OffersOK(S), T \subseteq S PROVE OffersOK(T)
  BY FS_Subset DEF OffersOK

\* What Proceed leaves to do: less, or the same connector with the stores that remain.
LEMMA ProceedIs ==
    ASSUME TodoOK, todo # <<>>, OffersOK(found), OffersOK(collected),
           NEW stores \in Seq(AskedStores), NEW offers, OffersOK(offers),
           Proceed(stores, offers)
    PROVE  todo' \in Seq(Fit) /\ OffersOK(found') /\ OffersOK(collected')
<1>1. Head(todo) \in Fit /\ Tail(todo) \in Seq(Fit)
  BY HeadTailProperties DEF TodoOK
<1>2. OffersOK({})
  BY FS_EmptySet DEF OffersOK
<1>3. CASE stores = <<>>
  BY <1>1, <1>2, <1>3, OffersUnion DEF Proceed
<1>4. CASE stores # <<>>
  <2>. DEFINE head == [Head(todo) EXCEPT !.stores = stores]
  <2>1. head \in Fit
    BY <1>1, <1>4 DEF Fit, Connectors
  <2>2. todo' = <<head>> \o Tail(todo)
    BY <1>4 DEF Proceed
  <2> HIDE DEF head
  <2>3. <<head>> \in Seq(Fit)
    BY <2>1
  <2>4. todo' \in Seq(Fit)
    BY <1>1, <2>2, <2>3, ConcatProperties
  <2> QED
    BY <2>4, <1>4 DEF Proceed
<1> QED
  BY <1>3, <1>4

\* The catalogues asked have the names of suppliers.
LEMMA CatalogueNames ==
    ASSUME SuppliersOK
    PROVE  LET buyable == {n \in DOMAIN suppliers : suppliers[n] = TRUE} \ Replaced
               names == Sorted([n \in buyable |-> <<n>>])
           IN  /\ names \in Seq(Nat \ {0})
               /\ \A i \in DOMAIN names : names[i] \in buyable
               /\ \A n \in buyable : \E i \in DOMAIN names : names[i] = n
<1>. DEFINE buyable == {n \in DOMAIN suppliers : suppliers[n] = TRUE} \ Replaced
            key == [n \in buyable |-> <<n>>]
<1>1. IsFiniteSet(buyable) /\ \A n \in buyable : n \in Nat \ {0}
  BY FS_Subset DEF SuppliersOK
<1>2. DOMAIN key = buyable /\ \A n \in buyable : key[n] = <<n>>
  OBVIOUS
<1> HIDE DEF key
<1>3. \A n \in buyable : key[n] \in Seq(Int) /\ Len(key[n]) = 1 /\ key[n][1] = n
  <2>1. \A n \in Nat : <<n>> \in Seq(Int) /\ Len(<<n>>) = 1 /\ <<n>>[1] = n
    OBVIOUS
  <2> QED
    BY <1>1, <1>2, <2>1
<1> HIDE DEF buyable
<1>4. Ranked(key, 1)
  BY <1>2, <1>3, RankedAlike, 1 \in Nat, 1 \in 1..1
<1>5. \A x, y \in buyable : key[x] = key[y] => x = y
  BY <1>3
<1>6. /\ Sorted(key) \in Seq(buyable)
      /\ \A n \in buyable : \E i \in DOMAIN Sorted(key) : Sorted(key)[i] = n
  BY <1>1, <1>2, <1>4, <1>5, SortedIs
<1>. DEFINE names == Sorted(key)
<1> HIDE DEF names
<1>7. names \in Seq(buyable) /\ \A n \in buyable : \E i \in DOMAIN names : names[i] = n
  BY <1>6 DEF names
<1>8. \A i \in DOMAIN names : names[i] \in buyable
  BY <1>7, LenProperties, ElementOfSeq
<1>9. names \in Seq(Nat \ {0})
  BY <1>1, <1>7, SeqMonotonic
<1> QED
  BY <1>7, <1>8, <1>9 DEF names, key, buyable

\* The types, at first and action by action.
LEMMA RequestTypeInit == RequestInit => RequestTypeOK
<1> SUFFICES ASSUME RequestInit PROVE RequestTypeOK
  OBVIOUS
<1>0. OffersOK({})
  BY FS_EmptySet DEF OffersOK
<1>1. CASE Init /\ case = 0 /\ found = {} /\ collected = {}
  <2>1. PICK i \in DOMAIN Families :
           \E limit \in Families[i].limits, layout \in Families[i].layouts,
              shelf \in Families[i].shelves :
               request = [cart |-> Families[i].cart, limit |-> limit,
                          layout |-> layout, offers |-> OffersOf(shelf)]
    BY <1>1 DEF Init
  <2>2. PICK limit \in Families[i].limits, layout \in Families[i].layouts,
              shelf \in Families[i].shelves :
               request = [cart |-> Families[i].cart, limit |-> limit,
                          layout |-> layout, offers |-> OffersOf(shelf)]
    BY <2>1
  <2>3. /\ OffersOf(shelf) \subseteq CatalogueOffers /\ OffersOK(OffersOf(shelf))
    BY <2>2, FamiliesAssumption, ShelfOffers
  <2>4. None \notin Deals(Families[i].cart, OffersOf(shelf))
    BY <2>3, NoneAssumption, DealsShrink
  <2>5. GivenOK
    BY <1>1, <2>2, <2>3, <2>4, FamiliesAssumption DEF GivenOK
  <2> QED
    BY <1>0, <1>1, <2>5 DEF RequestTypeOK, Init, Asked, Serving
<1>2. CASE /\ case \in DOMAIN Cases /\ suppliers \in the.suppliers /\ opened \in the.opened
           /\ directory = the.directory /\ locator = the.locator /\ rows \in the.rows
           /\ origin \in the.origins /\ todo = <<>> /\ found = {} /\ collected = {}
           /\ steady = {n \in opened : suppliers[n] = TRUE} /\ pc = "received"
  <2>1. case # 0 /\ CaseOK(the)
    BY <1>2, CaseIs
  <2>2. SuppliersOK
    BY <1>2, <2>1 DEF CaseOK, SuppliersOK
  <2>3. DirectoryOK /\ locator.list \in Seq(Retailers)
    BY <1>2, <2>1 DEF CaseOK, DirectoryOK
  <2>4. RowsOK
    BY <1>2, <2>1 DEF CaseOK, RowsOK
  <2>5. OriginOK /\ TodoOK
    BY <1>2, <2>1 DEF CaseOK, OriginOK, TodoOK
  <2> QED
    BY <1>0, <1>2, <2>1, <2>2, <2>3, <2>4, <2>5 DEF RequestTypeOK, Serving, Asked
<1> QED
  BY <1>1, <1>2 DEF RequestInit

\* What the request was given does not change with the search.
LEMMA GivenStays ==
    ASSUME GivenOK, UNCHANGED <<request, case, collected>> PROVE GivenOK'
  BY DEF GivenOK

\* Nothing else than the rows and what was collected changes the types of offers.
LEMMA OffersStay ==
    ASSUME OffersOK(found), OffersOK(collected), UNCHANGED <<found, collected>>
    PROVE  OffersOK(found)' /\ OffersOK(collected)'
  OBVIOUS

LEMMA DatabaseStays ==
    ASSUME SuppliersOK, DirectoryOK, UNCHANGED database
    PROVE  SuppliersOK' /\ DirectoryOK'
  BY DEF SuppliersOK, DirectoryOK, database

LEMMA CachedStays ==
    ASSUME RowsOK, locator.list \in Seq(Retailers), UNCHANGED cached
    PROVE  RowsOK' /\ (locator.list \in Seq(Retailers))'
  BY DEF RowsOK, cached

\* While a request is served its case holds.
Served ==
    /\ RequestTypeOK /\ case # 0 /\ CaseOK(the) /\ SuppliersOK /\ DirectoryOK /\ RowsOK
    /\ locator.list \in Seq(Retailers) /\ OriginOK /\ TodoOK
    /\ OffersOK(found) /\ OffersOK(collected)

LEMMA ServedIs == RequestTypeOK /\ pc \in Serving => Served
  BY CaseIs DEF RequestTypeOK, Served

LEMMA TypeResolve == Served /\ Resolve => RequestTypeOK'
<1> SUFFICES ASSUME Served, Resolve PROVE RequestTypeOK'
  OBVIOUS
<1>1. PICK features \in the.answers :
           IF Resolved(features) = None
           THEN pc' = "refused" /\ UNCHANGED origin
           ELSE pc' = "located" /\ origin' = Resolved(features)
  BY DEF Resolve
<1>2. /\ UNCHANGED <<case, database, cached, todo, found, collected, request>>
      /\ pc = "received"
  BY DEF Resolve
<1>3. /\ SuppliersOK' /\ DirectoryOK' /\ RowsOK' /\ (locator.list \in Seq(Retailers))'
      /\ OffersOK(found)' /\ OffersOK(collected)'
  BY <1>2, DatabaseStays, CachedStays, OffersStay DEF Served
<1>4. pc' = "located" => OriginOK'
  <2> SUFFICES ASSUME pc' = "located" PROVE OriginOK'
    OBVIOUS
  <2>1. Resolved(features) # None /\ origin' = Resolved(features)
    BY <1>1
  <2>2. Resolved(features).place \in Int \X Int
    BY <1>2, <2>1, ResolvedIs DEF Served, OriginOK
  <2> QED
    BY <2>1, <2>2 DEF OriginOK
<1>5. TodoOK'
  BY <1>2 DEF Served, TodoOK, Fit, the
<1> QED
  BY <1>1, <1>2, <1>3, <1>4, <1>5 DEF RequestTypeOK, Served, Serving, Asked

LEMMA TypeBuildLive == Served /\ BuildLive => RequestTypeOK'
<1> SUFFICES ASSUME Served, BuildLive PROVE RequestTypeOK'
  OBVIOUS
<1>1. /\ UNCHANGED <<case, database, cached, origin, found, collected, request>>
      /\ pc = "located" /\ pc' \in {"listed", "failed"} /\ todo' = LiveConnectors
  BY DEF BuildLive
<1>2. /\ SuppliersOK' /\ DirectoryOK' /\ RowsOK' /\ (locator.list \in Seq(Retailers))'
      /\ OffersOK(found)' /\ OffersOK(collected)'
  BY <1>1, DatabaseStays, CachedStays, OffersStay DEF Served
<1>3. OriginOK' /\ origin.place \in Int \X Int
  BY <1>1 DEF Served, OriginOK
<1>4. LiveConnectors \in Seq(Fit)
  BY <1>3, LiveConnectorsAre DEF Served
<1>5. TodoOK'
  <2>1. Fit' = Fit
    BY <1>1 DEF Fit, the
  <2> QED
    BY <1>1, <1>4, <2>1 DEF TodoOK
<1> QED
  BY <1>1, <1>2, <1>3, <1>5 DEF RequestTypeOK, Served, Serving, Asked

LEMMA TypeBuildCatalogues == Served /\ BuildCatalogues => RequestTypeOK'
<1> SUFFICES ASSUME Served, BuildCatalogues PROVE RequestTypeOK'
  OBVIOUS
<1>. DEFINE names == Sorted([n \in {n \in DOMAIN suppliers : suppliers[n] = TRUE} \ Replaced |-> <<n>>])
            files == [i \in DOMAIN names |->
                       [kind |-> "catalogue", stores |-> None, name |-> names[i]]]
<1>1. /\ UNCHANGED <<case, database, cached, origin, found, collected, request>>
      /\ pc = "listed" /\ pc' = "collecting" /\ todo' = files \o todo
  BY DEF BuildCatalogues
<1>2. /\ SuppliersOK' /\ DirectoryOK' /\ RowsOK' /\ (locator.list \in Seq(Retailers))'
      /\ OffersOK(found)' /\ OffersOK(collected)'
  BY <1>1, DatabaseStays, CachedStays, OffersStay DEF Served
<1>3. OriginOK'
  BY <1>1 DEF Served, OriginOK
<1>4. names \in Seq(Nat \ {0})
  BY CatalogueNames DEF Served
<1> HIDE DEF names
<1>5. DOMAIN names = 1..Len(names) /\ Len(names) \in Nat
  BY <1>4, LenProperties
<1>6. \A i \in 1..Len(names) : files[i] \in Fit
  <2>1. \A i \in 1..Len(names) : names[i] \in Nat \ {0}
    BY <1>4, ElementOfSeq
  <2> QED
    BY <2>1, <1>5 DEF Fit, Connectors
<1>7. files \in Seq(Fit)
  <2>1. files = [i \in 1..Len(names) |-> files[i]]
    BY <1>5
  <2> HIDE DEF files
  <2> QED
    BY <1>5, <1>6, <2>1
<1> HIDE DEF files
<1>8. todo' \in Seq(Fit)
  BY <1>1, <1>7, ConcatProperties DEF Served, TodoOK
<1>9. TodoOK'
  <2>1. Fit' = Fit
    BY <1>1 DEF Fit, the
  <2> QED
    BY <1>1, <1>8, <2>1 DEF TodoOK
<1> QED
  BY <1>1, <1>2, <1>3, <1>9 DEF RequestTypeOK, Served, Serving, Asked

\* What a collecting step has to give for the types to hold.
LEMMA TypeCollecting ==
    ASSUME Served, pc = "collecting", UNCHANGED <<case, pc, database, origin, request>>,
           todo' \in Seq(Fit), OffersOK(found'), OffersOK(collected'),
           RowsOK', (locator.list \in Seq(Retailers))'
    PROVE  RequestTypeOK'
<1>1. SuppliersOK' /\ DirectoryOK'
  BY DatabaseStays DEF Served
<1>2. OriginOK'
  BY DEF Served, OriginOK
<1>3. TodoOK'
  <2>1. Fit' = Fit
    BY DEF Fit, the
  <2> QED
    BY <2>1 DEF TodoOK
<1> QED
  BY <1>1, <1>2, <1>3 DEF RequestTypeOK, Served, Serving, Asked

LEMMA TypeAskCatalogue == Served /\ AskCatalogue => RequestTypeOK'
<1> SUFFICES ASSUME Served, AskCatalogue PROVE RequestTypeOK'
  OBVIOUS
<1>1. /\ UNCHANGED <<case, pc, database, cached, origin, found, request>>
      /\ pc = "collecting" /\ todo # <<>> /\ todo' = Tail(todo)
      /\ collected' = collected \cup
           {o \in OffersOf(the.shelf) : o.supplier = Head(todo).name /\ o.supplier \in opened}
  BY DEF AskCatalogue, Asking
<1>2. OffersOK(OffersOf(the.shelf))
  BY ShelfOffers DEF Served, CaseOK
<1>3. OffersOK(collected')
  BY <1>1, <1>2, OffersSubset, OffersUnion DEF Served
<1>4. todo' \in Seq(Fit)
  BY <1>1, HeadTailProperties DEF Served, TodoOK
<1>5. RowsOK' /\ (locator.list \in Seq(Retailers))' /\ OffersOK(found')
  BY <1>1, CachedStays DEF Served
<1> QED
  BY <1>1, <1>3, <1>4, <1>5, TypeCollecting

LEMMA TypeLiveFails == Served /\ LiveFails => RequestTypeOK'
<1> SUFFICES ASSUME Served, LiveFails PROVE RequestTypeOK'
  OBVIOUS
<1>1. /\ UNCHANGED <<case, pc, database, cached, origin, collected, request>>
      /\ pc = "collecting" /\ todo # <<>> /\ todo' = Tail(todo) /\ found' = {}
  BY DEF LiveFails, Asking
<1>2. OffersOK(found') /\ OffersOK(collected')
  BY <1>1, FS_EmptySet DEF Served, OffersOK
<1>3. todo' \in Seq(Fit)
  BY <1>1, HeadTailProperties DEF Served, TodoOK
<1>4. RowsOK' /\ (locator.list \in Seq(Retailers))'
  BY <1>1, CachedStays DEF Served
<1> QED
  BY <1>1, <1>2, <1>3, <1>4, TypeCollecting

LEMMA TypeLocate == Served /\ Locate => RequestTypeOK'
<1> SUFFICES ASSUME Served, Locate PROVE RequestTypeOK'
  OBVIOUS
<1>1. /\ UNCHANGED <<case, pc, database, rows, origin, request>>
      /\ pc = "collecting" /\ todo # <<>>
  BY DEF Locate, Asking
<1>2. RowsOK'
  BY <1>1 DEF Served, RowsOK
<1>3. OffersOK({}) /\ <<>> \in Seq(AskedStores)
  BY FS_EmptySet DEF OffersOK
<1>4. \E stores \in Seq(AskedStores) : Proceed(stores, {}) /\ (locator.list \in Seq(Retailers))'
  <2>1. CASE Proceed(<<>>, {}) /\ UNCHANGED locator
    BY <2>1, <1>3 DEF Served
  <2>2. ASSUME NEW list \in the.retailers, locator' = [list |-> list, fresh |-> TRUE],
               Proceed(Limited(list), {})
        PROVE  \E stores \in Seq(AskedStores) : Proceed(stores, {}) /\ (locator.list \in Seq(Retailers))'
    <3>1. list \in Seq(Retailers)
      BY DEF Served, CaseOK
    <3>2. Limited(list) \in Seq(AskedStores)
      BY <3>1, LimitedIs
    <3> QED
      BY <2>2, <3>1, <3>2
  <2>3. CASE Proceed(Limited(locator.list), {}) /\ UNCHANGED locator
    <3>1. Limited(locator.list) \in Seq(AskedStores)
      BY LimitedIs DEF Served
    <3> QED
      BY <2>3, <3>1 DEF Served
  <2> QED
    BY <2>1, <2>2, <2>3 DEF Locate
<1>5. todo' \in Seq(Fit) /\ OffersOK(found') /\ OffersOK(collected')
  BY <1>1, <1>3, <1>4, ProceedIs DEF Served
<1> QED
  BY <1>1, <1>2, <1>4, <1>5, TypeCollecting

LEMMA TypeAskStore ==
    ASSUME NEW kind \in {"gedimat", "brico"}, Served, AskStore(kind)
    PROVE  RequestTypeOK'
<1>. DEFINE offers == IF kind = "gedimat" THEN GedimatOffers(Here) ELSE BricoOffers(Here)
<1>1. /\ UNCHANGED <<case, pc, database, locator, origin, request>>
      /\ pc = "collecting" /\ todo # <<>>
      /\ Proceed(Tail(Head(todo).stores), found \cup offers)
  BY DEF AskStore, Asking, Here
<1>2. /\ Here \in AskedStores /\ Tail(Head(todo).stores) \in Seq(AskedStores) /\ RowsOK'
      /\ \A ref \in References(kind) :
             rows'[<<kind, Here.shop, ref>>] \in CachedRows[kind] \cup {NoRow}
  BY RowsAfter DEF Served
<1>3. OffersOK(offers)
  BY <1>2, LiveOffersAre DEF Served
<1> HIDE DEF offers
<1>4. OffersOK(found \cup offers)
  BY <1>3, OffersUnion DEF Served
<1>5. todo' \in Seq(Fit) /\ OffersOK(found') /\ OffersOK(collected')
  BY <1>1, <1>2, <1>4, ProceedIs DEF Served
<1>6. (locator.list \in Seq(Retailers))'
  BY <1>1 DEF Served
<1> QED
  BY <1>1, <1>2, <1>5, <1>6, TypeCollecting

\* The layout given to the search has a vector for each agency it knows a place of.
LEMMA TypeCompare == Served /\ Compare => RequestTypeOK'
<1> SUFFICES ASSUME Served, Compare PROVE RequestTypeOK'
  OBVIOUS
<1>. DEFINE shops == {o.agency : o \in {o \in collected : Live(o)}}
            seen1 == [a \in shops |-> (CHOOSE o \in collected : Live(o) /\ o.agency = a).place]
            place == Over(seen1, the.places)
            layout == [a \in {a \in DOMAIN place : place[a] # None} |-> From(place[a])]
<1>1. /\ UNCHANGED requestVars /\ pc = "collecting" /\ pc' = "asked"
      /\ request' = [cart |-> the.cart, limit |-> the.limit, offers |-> collected, layout |-> layout]
  BY DEF Compare
<1>2. /\ UNCHANGED <<case, database, cached, found, collected, origin, todo>>
  BY <1>1 DEF requestVars, served
<1>3. \A a \in shops : a \in Nat \ {0} /\ seen1[a] \in Places
  <2> SUFFICES ASSUME NEW a \in shops PROVE a \in Nat \ {0} /\ seen1[a] \in Places
    OBVIOUS
  <2>1. PICK o \in collected : Live(o) /\ o.agency = a
    OBVIOUS
  <2>. DEFINE q == CHOOSE x \in collected : Live(x) /\ x.agency = a
  <2>2. q \in collected /\ Live(q) /\ q.agency = a
    BY <2>1
  <2>3. seen1[a] = q.place
    OBVIOUS
  <2> HIDE DEF q, seen1
  <2> QED
    BY <2>2, <2>3, OfferIs DEF Served, OffersOK
<1>4. \A a \in DOMAIN the.places : a \in Nat \ {0} /\ the.places[a] \in Places
  BY DEF Served, CaseOK
<1>5. DOMAIN seen1 = shops
  OBVIOUS
<1> HIDE DEF seen1, shops
<1>6. \A a \in DOMAIN place : a \in Nat \ {0} /\ place[a] \in Places
  BY <1>3, <1>4, <1>5 DEF Over
<1> HIDE DEF place
<1>7. origin.place \in Int \X Int
  BY <1>1 DEF Served, OriginOK
<1>8. \A v \in Int \X Int : From(v) \in Int \X Int
  BY <1>7 DEF From
<1>9. Layouts(layout)
  BY <1>6, <1>8 DEF Layouts, Places
<1> HIDE DEF layout
<1>10. Carts(the.cart) /\ the.limit \in Nat /\ case # 0 /\ OffersOK(collected)
  BY DEF Served, CaseOK
<1>a. None \notin Deals(the.cart, collected)
  <2>1. collected \subseteq CatalogueOffers \cup LiveOffers
    BY <1>10 DEF OffersOK, OfferOK
  <2> QED
    BY <2>1, DealsShrink DEF Served, CaseOK
<1>11. GivenOK'
  BY <1>1, <1>2, <1>9, <1>10, <1>a DEF GivenOK
<1>12. /\ SuppliersOK' /\ DirectoryOK' /\ RowsOK' /\ (locator.list \in Seq(Retailers))'
      /\ OffersOK(found)' /\ OffersOK(collected)'
  BY <1>2, DatabaseStays, CachedStays, OffersStay DEF Served
<1> QED
  BY <1>1, <1>2, <1>11, <1>12 DEF RequestTypeOK, Served, Serving, Asked

\* What a change made by others has to give for the types to hold.
LEMMA TypeEdited ==
    ASSUME Served, pc \in Serving, UNCHANGED <<case, cached, served, vars>>,
           SuppliersOK', DirectoryOK'
    PROVE  RequestTypeOK'
<1>1. UNCHANGED <<case, pc, origin, todo, found, collected, request>>
  BY DEF served, vars
<1>2. RowsOK' /\ (locator.list \in Seq(Retailers))' /\ OffersOK(found)' /\ OffersOK(collected)'
  BY <1>1, CachedStays, OffersStay DEF Served
<1>3. OriginOK' /\ TodoOK'
  BY <1>1 DEF Served, OriginOK, TodoOK, Fit, the
<1> QED
  BY <1>1, <1>2, <1>3 DEF RequestTypeOK, Served, Serving, Asked

LEMMA TypeEdits ==
    Served /\ (SetSupplierActive \/ SetCatalogActive \/ SyncStores) => RequestTypeOK'
<1> SUFFICES ASSUME Served PROVE SetSupplierActive \/ SetCatalogActive \/ SyncStores => RequestTypeOK'
  OBVIOUS
<1>1. ASSUME SetSupplierActive PROVE RequestTypeOK'
  <2>1. PICK n \in {n \in DOMAIN suppliers : suppliers[n] # None} :
           /\ suppliers' = [suppliers EXCEPT ![n] = ~ @]
           /\ steady' = steady \ {n}
    BY <1>1 DEF SetSupplierActive
  <2>2. UNCHANGED <<case, opened, directory, cached, served, vars>> /\ pc \in Serving
    BY <1>1 DEF SetSupplierActive, Edit
  <2>3. suppliers[n] \in BOOLEAN
    BY DEF Served, SuppliersOK
  <2>4. (~ suppliers[n]) \in BOOLEAN
    BY <2>3
  <2>5. DOMAIN suppliers' = DOMAIN suppliers /\ suppliers'[n] = ~ suppliers[n]
        /\ \A k \in DOMAIN suppliers : k # n => suppliers'[k] = suppliers[k]
    BY <2>1
  <2>6. SuppliersOK'
    BY <2>1, <2>2, <2>4, <2>5 DEF Served, SuppliersOK
  <2>7. DirectoryOK'
    BY <2>2 DEF Served, DirectoryOK
  <2> QED
    BY <2>2, <2>6, <2>7, TypeEdited
<1>2. ASSUME SetCatalogActive PROVE RequestTypeOK'
  <2>1. PICK n \in DOMAIN suppliers : opened' = SymDiff(opened, {n}) /\ steady' = steady \ {n}
    BY <1>2 DEF SetCatalogActive
  <2>2. UNCHANGED <<case, suppliers, directory, cached, served, vars>> /\ pc \in Serving
    BY <1>2 DEF SetCatalogActive, Edit
  <2>3. SuppliersOK'
    BY <2>1, <2>2 DEF Served, SuppliersOK, SymDiff
  <2>4. DirectoryOK'
    BY <2>2 DEF Served, DirectoryOK
  <2> QED
    BY <2>2, <2>3, <2>4, TypeEdited
<1>3. ASSUME SyncStores PROVE RequestTypeOK'
  <2>1. PICK listing \in the.listings : directory' = Refreshed(listing)
    BY <1>3 DEF SyncStores
  <2>2. UNCHANGED <<case, suppliers, opened, steady, cached, served, vars>> /\ pc \in Serving
    BY <1>3 DEF SyncStores, Edit
  <2>3. SuppliersOK'
    BY <2>2 DEF Served, SuppliersOK
  <2>4. \A s \in DOMAIN listing :
           /\ listing[s].ecommerce \in BOOLEAN /\ listing[s].place \in Places
           /\ listing[s].page # None => OwnCatalog(listing[s]) \in (Nat \ {0}) \cup {None}
    BY DEF Served, CaseOK, OwnCatalog
  <2>5. DirectoryOK'
    BY <2>1, <2>4 DEF Served, DirectoryOK, Refreshed, StoreRows
  <2> QED
    BY <2>2, <2>3, <2>5, TypeEdited
<1> QED
  BY <1>1, <1>2, <1>3

\* The search leaves the request as it is, and moves between its own states.
LEMMA SearchKeeps ==
    ASSUME Next
    PROVE  UNCHANGED request /\ pc \in {"asked", "search"} /\ pc' \in Asked
  BY DEF Next, NoTour, Refuse, Start, NextSubset, TryThreshold, Answer, Asked

\* A step of the search keeps the types.
LEMMA TypeSearch == RequestTypeOK /\ Next /\ UNCHANGED requestVars => RequestTypeOK'
<1> SUFFICES ASSUME RequestTypeOK, Next, UNCHANGED requestVars PROVE RequestTypeOK'
  OBVIOUS
<1>1. /\ UNCHANGED <<case, database, cached, found, collected, request>>
      /\ pc \in {"asked", "search"} /\ pc' \in Asked
  BY SearchKeeps DEF requestVars, served
<1>2. case # 0 => SuppliersOK' /\ DirectoryOK' /\ RowsOK' /\ (locator.list \in Seq(Retailers))'
  BY <1>1, DatabaseStays, CachedStays DEF RequestTypeOK
<1>3. OffersOK(found)' /\ OffersOK(collected)'
  BY <1>1, OffersStay DEF RequestTypeOK
<1>4. GivenOK'
  BY <1>1, GivenStays DEF RequestTypeOK, Asked
<1> QED
  BY <1>1, <1>2, <1>3, <1>4 DEF RequestTypeOK, Serving, Asked

\* So does no step.
LEMMA TypeStutter == RequestTypeOK /\ UNCHANGED <<vars, requestVars>> => RequestTypeOK'
<1> SUFFICES ASSUME RequestTypeOK, UNCHANGED <<vars, requestVars>> PROVE RequestTypeOK'
  OBVIOUS
<1>1. UNCHANGED <<case, database, cached, found, collected, request, pc, origin, todo>>
  BY DEF requestVars, served, vars
<1>2. case # 0 => SuppliersOK' /\ DirectoryOK' /\ RowsOK' /\ (locator.list \in Seq(Retailers))'
  BY <1>1, DatabaseStays, CachedStays DEF RequestTypeOK
<1>3. OffersOK(found)' /\ OffersOK(collected)'
  BY <1>1, OffersStay DEF RequestTypeOK
<1>4. pc \in Asked \ {"refused"} => GivenOK'
  BY <1>1, GivenStays DEF RequestTypeOK
<1>5. pc \in Serving => OriginOK' /\ TodoOK'
  BY <1>1 DEF RequestTypeOK, OriginOK, TodoOK, Fit, the
<1> QED
  BY <1>1, <1>2, <1>3, <1>4, <1>5 DEF RequestTypeOK

\* A step of a request being served, a step of the search, or none.
LEMMA RequestSteps ==
    ASSUME RequestTypeOK, [RequestNext]_<<vars, requestVars>>
    PROVE  \/ Served /\ Resolve
           \/ Served /\ BuildLive
           \/ Served /\ BuildCatalogues
           \/ Served /\ AskCatalogue
           \/ Served /\ Locate
           \/ Served /\ \E kind \in {"gedimat", "brico"} : AskStore(kind)
           \/ Served /\ LiveFails
           \/ Served /\ Compare
           \/ Served /\ (SetSupplierActive \/ SetCatalogActive \/ SyncStores)
           \/ Next /\ UNCHANGED requestVars
           \/ UNCHANGED <<vars, requestVars>>
<1>1. Resolve \/ BuildLive \/ BuildCatalogues \/ AskCatalogue \/ Locate \/ AskGedimat
      \/ AskBrico \/ LiveFails \/ Compare \/ SetSupplierActive \/ SetCatalogActive \/ SyncStores
      => pc \in Serving
  BY DEF Resolve, BuildLive, BuildCatalogues, AskCatalogue, Locate, AskGedimat, AskBrico,
     AskStore, LiveFails, Compare, SetSupplierActive, SetCatalogActive, SyncStores, Edit,
     Asking, Serving
<1> QED
  BY <1>1, ServedIs DEF RequestNext, AskGedimat, AskBrico

LEMMA RequestTypeStep == RequestTypeOK /\ [RequestNext]_<<vars, requestVars>> => RequestTypeOK'
  BY RequestSteps, TypeResolve, TypeBuildLive, TypeBuildCatalogues, TypeAskCatalogue, TypeLocate,
     TypeAskStore, TypeLiveFails, TypeCompare, TypeEdits, TypeSearch, TypeStutter

\* POST /api/compare, from the origin to the answer: whatever the catalogues, the stores,
\* the cached rows and the other sessions do, the search is given typed offers.
THEOREM RequestTypeCorrect == RequestSpec => []RequestTypeOK
<1>1. RequestInit => RequestTypeOK
  BY RequestTypeInit
<1>2. RequestTypeOK /\ [RequestNext]_<<vars, requestVars>> => RequestTypeOK'
  BY RequestTypeStep
<1> QED
  BY <1>1, <1>2, PTL DEF RequestSpec

\* The connector, without the stores that remain to be asked.
Same(c, d) == c.kind = d.kind /\ c.name = d.name

\* What Tail and Proceed keep of todo: every connector but the first.
LEMMA TailKeeps ==
    ASSUME TodoOK, todo # <<>>
    PROVE  /\ Head(todo) \in Fit /\ Head(todo) = todo[1] /\ 1 \in DOMAIN todo
           /\ \A i \in DOMAIN Tail(todo) : i + 1 \in DOMAIN todo /\ Tail(todo)[i] = todo[i + 1]
           /\ \A i \in DOMAIN todo : i = 1 \/ (i - 1 \in DOMAIN Tail(todo) /\ Tail(todo)[i - 1] = todo[i])
<1>1. todo \in Seq(Fit) /\ DOMAIN todo = 1..Len(todo) /\ Len(todo) \in Nat
  BY LenProperties DEF TodoOK
<1>2. /\ Head(todo) \in Fit /\ Tail(todo) \in Seq(Fit) /\ Len(Tail(todo)) = Len(todo) - 1
      /\ \A i \in 1..Len(Tail(todo)) : Tail(todo)[i] = todo[i + 1]
  BY <1>1, HeadTailProperties
<1>3. DOMAIN Tail(todo) = 1..(Len(todo) - 1)
  BY <1>2, LenProperties
<1>4. Len(todo) >= 1
  BY <1>1, EmptySeq
<1> QED
  BY <1>1, <1>2, <1>3, <1>4

LEMMA ProceedKeeps ==
    ASSUME TodoOK, todo # <<>>, NEW stores \in Seq(AskedStores), NEW offers, Proceed(stores, offers)
    PROVE  /\ \A i \in DOMAIN todo' : \E j \in DOMAIN todo :
                  Same(todo'[i], todo[j]) /\ (stores = <<>> => j = i + 1) /\ (stores # <<>> => j = i)
           /\ \A j \in DOMAIN todo : j # 1 => \E i \in DOMAIN todo' : Same(todo'[i], todo[j])
           /\ stores # <<>> => todo' # <<>> /\ Same(Head(todo'), Head(todo))
<1>1. CASE stores = <<>>
  BY <1>1, TailKeeps DEF Proceed, Same
<1>2. CASE stores # <<>>
  <2>. DEFINE head == [Head(todo) EXCEPT !.stores = stores]
  <2>1. Head(todo) \in Fit /\ Tail(todo) \in Seq(Fit) /\ Len(todo) \in Nat \ {0}
        /\ DOMAIN todo = 1..Len(todo) /\ Len(Tail(todo)) = Len(todo) - 1 /\ Head(todo) = todo[1]
        /\ \A i \in 1..Len(Tail(todo)) : Tail(todo)[i] = todo[i + 1]
    BY HeadTailProperties, LenProperties, EmptySeq DEF TodoOK
  <2>2. head \in Fit /\ Same(head, todo[1])
    BY <2>1, <1>2 DEF Fit, Connectors, Same
  <2>3. todo' = <<head>> \o Tail(todo)
    BY <1>2 DEF Proceed
  <2> HIDE DEF head
  <2>4. <<head>> \in Seq(Fit) /\ Len(<<head>>) = 1 /\ <<head>>[1] = head
    BY <2>2
  <2>5. /\ todo' \in Seq(Fit) /\ Len(todo') = Len(todo)
        /\ \A i \in 1..Len(todo) : todo'[i] = IF i <= 1 THEN head ELSE Tail(todo)[i - 1]
    BY <2>1, <2>3, <2>4, ConcatProperties
  <2>6. DOMAIN todo' = 1..Len(todo)
    BY <2>5, LenProperties
  <2>7. \A i \in 1..Len(todo) : Same(todo'[i], todo[i])
    <3> SUFFICES ASSUME NEW i \in 1..Len(todo) PROVE Same(todo'[i], todo[i])
      OBVIOUS
    <3>1. CASE i = 1
      BY <2>2, <2>5, <3>1
    <3>2. CASE i # 1
      <4>1. i - 1 \in 1..Len(Tail(todo)) /\ (i - 1) + 1 = i /\ ~ (i <= 1)
        BY <2>1, <3>2
      <4> QED
        BY <4>1, <2>1, <2>5 DEF Same
    <3> QED
      BY <3>1, <3>2
  <2>8. 1 \in DOMAIN todo /\ todo' # <<>> /\ Head(todo') = todo'[1]
    BY <2>1, <2>5, <2>6
  <2> QED
    BY <1>2, <2>1, <2>6, <2>7, <2>8
<1> QED
  BY <1>1, <1>2

-----------------------------------------------------------------------------
\* What is collected while the brands are asked.
AnswersOK ==
    /\ live \subseteq {Gedimat, BricoLive}
    /\ pc \in {"received", "located", "listed"} => found = {} /\ collected = {}
    /\ \A i \in DOMAIN todo :
           /\ todo[i].kind = "catalogue" => todo[i].name \notin Replaced
           /\ todo[i].kind # "catalogue" => todo[i].name \in live
    /\ \A o \in found : Live(o) /\ o.supplier \in live
    /\ \A o \in collected : /\ Live(o) => o.supplier \in live
                            /\ ~ Live(o) => o.supplier \notin Replaced
    /\ pc = "collecting" =>
           \A n \in steady :
               \/ Brand(n) \cap live # {}
               \/ \E i \in DOMAIN todo : todo[i].kind = "catalogue" /\ todo[i].name = n
               \/ {o \in OffersOf(the.shelf) : o.supplier = n} \subseteq collected

BrandsOK == pc \in Serving => AnswersOK

\* No brand was asked at first.
LEMMA BrandsInit == RequestInit => BrandsOK
  BY DEF RequestInit, Init, BrandsOK, AnswersOK, Serving

\* A catalogue that is replaced has a live connector of its brand.
LEMMA ReplacedOrBranded ==
    ASSUME NEW n \in Replaced, live \subseteq {Gedimat, BricoLive} PROVE Brand(n) \cap live # {}
  BY BrandsAssumption DEF Replaced, Brand

\* When no connector is left to ask, every brand has answered.
LEMMA AnsweredWhenDone ==
    ASSUME AnswersOK, pc = "collecting", todo = <<>> PROVE EachBrandAnswers
<1>1. ASSUME NEW o \in collected, NEW q \in collected, Live(o), q.supplier \in Brand(o.supplier)
      PROVE  Live(q)
  <2>1. o.supplier \in live /\ (~ Live(q) => q.supplier \notin Replaced)
    BY <1>1 DEF AnswersOK
  <2>2. o.supplier \in {Gedimat, BricoLive}
    BY <2>1 DEF AnswersOK
  <2>3. q.supplier \in Replaced
    BY <1>1, <2>1, <2>2, BrandsAssumption DEF Brand, Replaced
  <2> QED
    BY <2>1, <2>3
<1>2. \A n \in steady : \/ {o \in OffersOf(the.shelf) : o.supplier = n} \subseteq collected
                         \/ Brand(n) \cap live # {}
  BY DEF AnswersOK
<1> QED
  BY <1>1, <1>2 DEF EachBrandAnswers

\* A collecting step that keeps the catalogues to ask, and adds live offers at most.
LEMMA BrandsCollecting ==
    ASSUME AnswersOK, pc = "collecting", UNCHANGED <<case, live, steady>>,
           \A i \in DOMAIN todo' : \E j \in DOMAIN todo : Same(todo'[i], todo[j]),
           \A j \in DOMAIN todo : todo[j].kind = "catalogue" =>
               \E i \in DOMAIN todo' : Same(todo'[i], todo[j]),
           collected \subseteq collected',
           \A o \in found' \cup (collected' \ collected) : Live(o) /\ o.supplier \in live
    PROVE  pc' = "collecting" => AnswersOK'
<1> SUFFICES ASSUME pc' = "collecting" PROVE AnswersOK'
  OBVIOUS
<1>1. Replaced' = Replaced /\ the' = the
  BY DEF Replaced, the
<1>2. \A i \in DOMAIN todo' :
           /\ todo'[i].kind = "catalogue" => todo'[i].name \notin Replaced
           /\ todo'[i].kind # "catalogue" => todo'[i].name \in live
  BY DEF AnswersOK, Same
<1>3. ASSUME NEW o \in collected' PROVE /\ Live(o) => o.supplier \in live
                                        /\ ~ Live(o) => o.supplier \notin Replaced
  <2>1. \A q \in collected : /\ Live(q) => q.supplier \in live
                             /\ ~ Live(q) => q.supplier \notin Replaced
    BY DEF AnswersOK
  <2> QED
    BY <2>1
<1>4. \A n \in steady :
               \/ Brand(n) \cap live # {}
               \/ \E i \in DOMAIN todo' : todo'[i].kind = "catalogue" /\ todo'[i].name = n
               \/ {o \in OffersOf(the.shelf) : o.supplier = n} \subseteq collected'
  BY DEF AnswersOK, Same
<1> QED
  BY <1>1, <1>2, <1>3, <1>4 DEF AnswersOK, Brand

\* What Proceed drops is a live connector.
LEMMA BrandsProceed ==
    ASSUME Served, AnswersOK, pc = "collecting", todo # <<>>, Head(todo).kind # "catalogue",
           UNCHANGED <<case, live, steady>>, NEW stores \in Seq(AskedStores), NEW offers,
           Proceed(stores, offers), \A o \in offers : Live(o) /\ o.supplier \in live
    PROVE  pc' = "collecting" => AnswersOK'
<1>1. TodoOK
  BY DEF Served
<1>2. /\ \A i \in DOMAIN todo' : \E j \in DOMAIN todo : Same(todo'[i], todo[j])
      /\ \A j \in DOMAIN todo : j # 1 => \E i \in DOMAIN todo' : Same(todo'[i], todo[j])
  BY <1>1, ProceedKeeps
<1>3. Head(todo) = todo[1]
  BY <1>1, TailKeeps
<1>4. collected \subseteq collected' /\ \A o \in found' \cup (collected' \ collected) : o \in offers
  BY DEF Proceed
<1> QED
  BY <1>2, <1>3, <1>4, BrandsCollecting

\* The brands answer, action by action.
LEMMA BrandsStep ==
    ASSUME RequestTypeOK, BrandsOK, [RequestNext]_<<vars, requestVars>> PROVE BrandsOK'
<1>1. CASE Served /\ Resolve
  <2>1. UNCHANGED <<live, todo, found, collected>> /\ pc = "received" /\ pc' \in {"refused", "located"}
    BY <1>1 DEF Resolve
  <2> QED
    BY <2>1 DEF BrandsOK, AnswersOK, Serving, Replaced
<1>2. CASE Served /\ BuildLive
  <2>1. /\ UNCHANGED <<found, collected>> /\ pc = "located" /\ pc' \in {"listed", "failed"}
        /\ todo' = LiveConnectors /\ live' = {LiveConnectors[i].name : i \in DOMAIN LiveConnectors}
    BY <1>2 DEF BuildLive
  <2>2. origin.place \in Int \X Int
    BY <1>2, <2>1 DEF Served, OriginOK
  <2>3. LiveConnectors \in Seq(Fit)
        /\ \A i \in DOMAIN LiveConnectors : LiveConnectors[i].kind \in {"gedimat", "brico"}
    BY <1>2, <2>2, LiveConnectorsAre DEF Served
  <2>4. \A i \in DOMAIN LiveConnectors : LiveConnectors[i] \in Fit
    BY <2>3, LenProperties, ElementOfSeq
  <2>5. live' \subseteq {Gedimat, BricoLive}
    BY <2>1, <2>3, <2>4 DEF Fit
  <2> QED
    BY <2>1, <2>3, <2>5 DEF BrandsOK, AnswersOK, Serving
<1>3. CASE Served /\ BuildCatalogues
  <2>. DEFINE buyable == {n \in DOMAIN suppliers : suppliers[n] = TRUE} \ Replaced
              names == Sorted([n \in buyable |-> <<n>>])
              files == [i \in DOMAIN names |->
                         [kind |-> "catalogue", stores |-> None, name |-> names[i]]]
  <2>1. /\ UNCHANGED <<case, suppliers, opened, steady, live, found, collected>>
        /\ pc = "listed" /\ pc' = "collecting" /\ todo' = files \o todo
    BY <1>3 DEF BuildCatalogues, database
  <2>2. /\ names \in Seq(Nat \ {0})
        /\ \A i \in DOMAIN names : names[i] \in buyable
        /\ \A n \in buyable : \E i \in DOMAIN names : names[i] = n
    BY <1>3, CatalogueNames DEF Served
  <2> HIDE DEF names
  <2>3. DOMAIN names = 1..Len(names) /\ Len(names) \in Nat
    BY <2>2, LenProperties
  <2>4. files \in Seq(Connectors) /\ Len(files) = Len(names)
    <3>1. \A i \in 1..Len(names) : names[i] \in Nat \ {0}
      BY <2>2, ElementOfSeq
    <3>2. \A i \in 1..Len(names) : files[i] \in Connectors
      BY <3>1, <2>3 DEF Connectors
    <3>3. files = [i \in 1..Len(names) |-> files[i]]
      BY <2>3
    <3> HIDE DEF files
    <3> QED
      BY <3>2, <3>3, <2>3
  <2>5. \A i \in 1..Len(names) : files[i].kind = "catalogue" /\ files[i].name = names[i]
    BY <2>3
  <2>6. todo \in Seq(Connectors)
    <3>1. Fit \subseteq Connectors
      BY DEF Fit
    <3> QED
      BY <1>3, <3>1, SeqMonotonic DEF Served, TodoOK
  <2> HIDE DEF files
  <2>7. /\ todo' \in Seq(Connectors) /\ Len(todo') = Len(names) + Len(todo)
        /\ \A i \in 1..(Len(names) + Len(todo)) :
               todo'[i] = IF i <= Len(names) THEN files[i] ELSE todo[i - Len(names)]
    <3>1. /\ files \o todo \in Seq(Connectors) /\ Len(files \o todo) = Len(files) + Len(todo)
          /\ \A i \in 1..(Len(files) + Len(todo)) :
                 (files \o todo)[i] = IF i <= Len(files) THEN files[i] ELSE todo[i - Len(files)]
      BY <2>4, <2>6, ConcatProperties
    <3> QED
      BY <2>1, <2>4, <3>1
  <2>8. /\ DOMAIN todo' = 1..(Len(names) + Len(todo))
        /\ DOMAIN todo = 1..Len(todo) /\ Len(todo) \in Nat
    BY <2>6, <2>7, LenProperties
  <2>9. Replaced' = Replaced /\ the' = the /\ AnswersOK
    BY <2>1 DEF Replaced, the, BrandsOK, Serving
  <2>10. ASSUME NEW i \in DOMAIN todo'
         PROVE  /\ todo'[i].kind = "catalogue" => todo'[i].name \notin Replaced
                /\ todo'[i].kind # "catalogue" => todo'[i].name \in live
    <3>1. CASE i <= Len(names)
      <4>1. i \in 1..Len(names) /\ todo'[i] = files[i]
        BY <3>1, <2>3, <2>7, <2>8
      <4> QED
        BY <4>1, <2>2, <2>3, <2>5
    <3>2. CASE ~ (i <= Len(names))
      <4>1. i - Len(names) \in DOMAIN todo /\ todo'[i] = todo[i - Len(names)]
        BY <3>2, <2>3, <2>7, <2>8
      <4> QED
        BY <4>1, <2>9 DEF AnswersOK
    <3> QED
      BY <3>1, <3>2
  <2>11. ASSUME NEW n \in steady
         PROVE  \/ Brand(n) \cap live # {}
                \/ \E i \in DOMAIN todo' : todo'[i].kind = "catalogue" /\ todo'[i].name = n
    <3>1. n \in DOMAIN suppliers /\ suppliers[n] = TRUE
      BY <1>3 DEF Served, SuppliersOK
    <3>2. CASE n \in Replaced
      BY <3>2, <2>9, ReplacedOrBranded DEF AnswersOK
    <3>3. CASE n \notin Replaced
      <4>1. PICK i \in DOMAIN names : names[i] = n
        BY <2>2, <3>1, <3>3
      <4>2. i \in DOMAIN todo' /\ i <= Len(names)
        BY <2>3, <2>8
      <4> QED
        BY <4>1, <4>2, <2>3, <2>5, <2>7, <2>8
    <3> QED
      BY <3>2, <3>3
  <2>12. AnswersOK'
    BY <2>1, <2>9, <2>10, <2>11 DEF AnswersOK, Brand
  <2> QED
    BY <2>12 DEF BrandsOK
<1>4. CASE Served /\ AskCatalogue
  <2>1. /\ UNCHANGED <<case, pc, live, steady, found>>
        /\ pc = "collecting" /\ todo # <<>> /\ todo' = Tail(todo) /\ Head(todo).kind = "catalogue"
        /\ collected' = collected \cup
             {o \in OffersOf(the.shelf) : o.supplier = Head(todo).name /\ o.supplier \in opened}
    BY <1>4 DEF AskCatalogue, Asking, database
  <2>2. Replaced' = Replaced /\ the' = the /\ AnswersOK
    BY <2>1 DEF Replaced, the, BrandsOK, Serving
  <2>3. /\ Head(todo) = todo[1] /\ 1 \in DOMAIN todo
        /\ \A i \in DOMAIN Tail(todo) : i + 1 \in DOMAIN todo /\ Tail(todo)[i] = todo[i + 1]
        /\ \A i \in DOMAIN todo : i = 1 \/ (i - 1 \in DOMAIN Tail(todo) /\ Tail(todo)[i - 1] = todo[i])
    BY <1>4, <2>1, TailKeeps DEF Served
  <2>4. \A o \in OffersOf(the.shelf) : ~ Live(o)
    BY <1>4, ShelfOffers DEF Served, CaseOK
  <2>5. Head(todo).name \notin Replaced
    BY <2>1, <2>2, <2>3 DEF AnswersOK
  <2>6. \A o \in collected' : /\ Live(o) => o.supplier \in live
                              /\ ~ Live(o) => o.supplier \notin Replaced
    <3>1. \A o \in collected : /\ Live(o) => o.supplier \in live
                               /\ ~ Live(o) => o.supplier \notin Replaced
      BY <2>2 DEF AnswersOK
    <3> QED
      BY <2>1, <2>4, <2>5, <3>1
  <2>7. ASSUME NEW n \in steady
        PROVE  \/ Brand(n) \cap live # {}
               \/ \E i \in DOMAIN todo' : todo'[i].kind = "catalogue" /\ todo'[i].name = n
               \/ {o \in OffersOf(the.shelf) : o.supplier = n} \subseteq collected'
    <3>1. n \in opened
      BY <1>4 DEF Served, SuppliersOK
    <3>2. \/ Brand(n) \cap live # {}
          \/ \E i \in DOMAIN todo : todo[i].kind = "catalogue" /\ todo[i].name = n
          \/ {o \in OffersOf(the.shelf) : o.supplier = n} \subseteq collected
      BY <2>1, <2>2 DEF AnswersOK
    <3>3. ASSUME NEW i \in DOMAIN todo, todo[i].kind = "catalogue", todo[i].name = n
          PROVE  \/ \E j \in DOMAIN todo' : todo'[j].kind = "catalogue" /\ todo'[j].name = n
                 \/ {o \in OffersOf(the.shelf) : o.supplier = n} \subseteq collected'
      <4>1. CASE i = 1
        BY <4>1, <3>1, <3>3, <2>1, <2>3
      <4>2. CASE i # 1
        BY <4>2, <3>3, <2>1, <2>3
      <4> QED
        BY <4>1, <4>2
    <3> QED
      BY <3>2, <3>3, <2>1
  <2>8. \A i \in DOMAIN todo' :
           /\ todo'[i].kind = "catalogue" => todo'[i].name \notin Replaced
           /\ todo'[i].kind # "catalogue" => todo'[i].name \in live
    BY <2>1, <2>2, <2>3 DEF AnswersOK
  <2>9. AnswersOK'
    BY <2>1, <2>2, <2>6, <2>7, <2>8 DEF AnswersOK, Brand
  <2> QED
    BY <2>9 DEF BrandsOK
<1>5. CASE Served /\ Locate
  <2>1. /\ UNCHANGED <<case, live, steady, pc>> /\ pc = "collecting" /\ todo # <<>>
        /\ Head(todo).kind = "brico"
    BY <1>5 DEF Locate, Asking, database
  <2>2. \E stores \in Seq(AskedStores) : Proceed(stores, {})
    <3>1. <<>> \in Seq(AskedStores)
      OBVIOUS
    <3>2. \A list \in the.retailers : Limited(list) \in Seq(AskedStores)
      BY <1>5, LimitedIs DEF Served, CaseOK
    <3>3. Limited(locator.list) \in Seq(AskedStores)
      BY <1>5, LimitedIs DEF Served
    <3> QED
      BY <1>5, <3>1, <3>2, <3>3 DEF Locate
  <2>3. AnswersOK
    BY <2>1 DEF BrandsOK, Serving
  <2>4. AnswersOK'
    BY <1>5, <2>1, <2>2, <2>3, BrandsProceed
  <2> QED
    BY <2>4 DEF BrandsOK
<1>6. CASE Served /\ \E kind \in {"gedimat", "brico"} : AskStore(kind)
  <2>1. PICK kind \in {"gedimat", "brico"} : AskStore(kind)
    BY <1>6
  <2>. DEFINE offers == IF kind = "gedimat" THEN GedimatOffers(Here) ELSE BricoOffers(Here)
  <2>2. /\ UNCHANGED <<case, live, steady, pc>> /\ pc = "collecting" /\ todo # <<>>
        /\ Head(todo).kind = kind /\ Proceed(Tail(Head(todo).stores), found \cup offers)
    BY <2>1 DEF AskStore, Asking, Here, database
  <2>3. AnswersOK
    BY <2>2 DEF BrandsOK, Serving
  <2>4. /\ Here \in AskedStores /\ Tail(Head(todo).stores) \in Seq(AskedStores)
        /\ \A ref \in References(kind) :
             rows'[<<kind, Here.shop, ref>>] \in CachedRows[kind] \cup {NoRow}
    BY <1>6, <2>1, RowsAfter DEF Served
  <2>5. \A o \in offers : Live(o) /\ o.supplier = (IF kind = "gedimat" THEN Gedimat ELSE BricoLive)
    BY <1>6, <2>4, LiveOffersAre DEF Served
  <2>6. Head(todo) \in Fit /\ Head(todo) = todo[1] /\ 1 \in DOMAIN todo
    BY <1>6, <2>2, TailKeeps DEF Served
  <2>7. Head(todo).name \in live /\ Head(todo).name = (IF kind = "gedimat" THEN Gedimat ELSE BricoLive)
    BY <2>2, <2>3, <2>6 DEF AnswersOK, Fit
  <2> HIDE DEF offers
  <2>8. \A o \in found \cup offers : Live(o) /\ o.supplier \in live
    BY <2>3, <2>5, <2>7 DEF AnswersOK
  <2>9. AnswersOK'
    BY <1>6, <2>2, <2>3, <2>4, <2>8, BrandsProceed
  <2> QED
    BY <2>9 DEF BrandsOK
<1>7. CASE Served /\ LiveFails
  <2>1. /\ UNCHANGED <<case, live, steady, pc, collected>> /\ pc = "collecting" /\ todo # <<>>
        /\ Head(todo).kind # "catalogue" /\ todo' = Tail(todo) /\ found' = {}
    BY <1>7 DEF LiveFails, Asking, database
  <2>2. AnswersOK
    BY <2>1 DEF BrandsOK, Serving
  <2>3. /\ Head(todo) = todo[1]
        /\ \A i \in DOMAIN Tail(todo) : i + 1 \in DOMAIN todo /\ Tail(todo)[i] = todo[i + 1]
        /\ \A i \in DOMAIN todo : i = 1 \/ (i - 1 \in DOMAIN Tail(todo) /\ Tail(todo)[i - 1] = todo[i])
    BY <1>7, <2>1, TailKeeps DEF Served
  <2>4. /\ \A i \in DOMAIN todo' : \E j \in DOMAIN todo : Same(todo'[i], todo[j])
        /\ \A j \in DOMAIN todo : todo[j].kind = "catalogue" =>
               \E i \in DOMAIN todo' : Same(todo'[i], todo[j])
    BY <2>1, <2>3 DEF Same
  <2>5. AnswersOK'
    BY <2>1, <2>2, <2>4, BrandsCollecting
  <2> QED
    BY <2>5 DEF BrandsOK
<1>8. CASE Served /\ Compare
  BY <1>8 DEF Compare, BrandsOK, Serving
<1>9. CASE Served /\ (SetSupplierActive \/ SetCatalogActive \/ SyncStores)
  <2>1. UNCHANGED <<case, live, todo, found, collected, pc>> /\ steady' \subseteq steady
    BY <1>9 DEF SetSupplierActive, SetCatalogActive, SyncStores, served, vars
  <2> QED
    BY <2>1 DEF BrandsOK, AnswersOK, Replaced, Brand, the
<1>10. CASE Next /\ UNCHANGED requestVars
  BY <1>10, SearchKeeps DEF BrandsOK, Serving, Asked
<1>11. CASE UNCHANGED <<vars, requestVars>>
  BY <1>11 DEF BrandsOK, AnswersOK, Replaced, Brand, the, vars, requestVars, served, database
<1> QED
  BY <1>1, <1>2, <1>3, <1>4, <1>5, <1>6, <1>7, <1>8, <1>9, <1>10, <1>11, RequestSteps

\* build_comparison_connectors replaces the catalogues of a brand by its live connector:
\* a supplier on sale all the time is compared through one of them, never through both.
THEOREM EachBrandIsCompared == RequestSpec => []EachBrandAnswers
<1>1. RequestInit => RequestTypeOK /\ BrandsOK
  BY RequestTypeInit, BrandsInit
<1>2. RequestTypeOK /\ BrandsOK /\ [RequestNext]_<<vars, requestVars>> => (RequestTypeOK /\ BrandsOK)'
  BY RequestTypeStep, BrandsStep
<1>3. RequestTypeOK /\ BrandsOK => EachBrandAnswers
  <2>1. ~ (pc = "collecting" /\ todo = <<>>) => EachBrandAnswers
    BY DEF EachBrandAnswers
  <2> QED
    BY <2>1, AnsweredWhenDone DEF BrandsOK, Serving
<1> QED
  BY <1>1, <1>2, <1>3, PTL DEF RequestSpec

\* Division rounds down,
LEMMA DivIs ==
    ASSUME NEW a \in Int, NEW c \in Nat \ {0}
    PROVE  /\ a \div c \in Int
           /\ c * (a \div c) <= a /\ a < c * (a \div c) + c
  OBVIOUS

\* gives n where n divisors fit
LEMMA DivAtLeast ==
    ASSUME NEW a \in Int, NEW c \in Nat \ {0}, NEW q \in Int
    PROVE  q <= a \div c <=> c * q <= a
<1>. DEFINE d == a \div c
<1>1. d \in Int /\ c * d <= a /\ a < c * d + c
  BY DivIs
<1> HIDE DEF d
<1>2. CASE q <= d
  <2>1. c * q <= c * d
    BY <1>1, <1>2
  <2> QED
    BY <1>1, <1>2, <2>1 DEF d
<1>3. CASE ~ (q <= d)
  <2>1. d + 1 <= q
    BY <1>1, <1>3
  <2>2. c * (d + 1) <= c * q
    BY <1>1, <2>1
  <2>3. c * (d + 1) = c * d + c
    BY <1>1
  <2> QED
    BY <1>1, <1>3, <2>2, <2>3 DEF d
<1> QED
  BY <1>2, <1>3

\* and keeps the order.
LEMMA DivMonotone ==
    ASSUME NEW a \in Int, NEW b \in Int, a <= b, NEW c \in Nat \ {0}
    PROVE  a \div c <= b \div c
<1>. DEFINE d == a \div c
<1>1. d \in Int /\ c * d <= a
  BY DivIs
<1> HIDE DEF d
<1>2. c * d <= b
  BY <1>1
<1>3. d <= b \div c
  BY <1>1, <1>2, DivAtLeast
<1> QED
  BY <1>3 DEF d

\* Rounding keeps the order.
LEMMA RoundedIs ==
    /\ \A n \in Int : Rounded(n) \in Int
    /\ \A m, n \in Int : m <= n => Rounded(m) <= Rounded(n)
    /\ \A n \in Nat : Rounded(n) \in Nat
<1>1. Cent \in Nat \ {0} /\ Cent \div 2 \in Int /\ Cent \div 2 >= 0
  BY CostsAssumption
<1>. DEFINE half == Cent \div 2
<1> HIDE DEF half
<1>2. \A n \in Int : Rounded(n) = (n + half) \div Cent /\ n + half \in Int
  BY <1>1 DEF Rounded, half
<1>3. \A n \in Int : Rounded(n) \in Int
  BY <1>1, <1>2, DivIs
<1>4. ASSUME NEW m \in Int, NEW n \in Int, m <= n PROVE Rounded(m) <= Rounded(n)
  <2>1. m + half <= n + half /\ m + half \in Int /\ n + half \in Int
    BY <1>1, <1>4 DEF half
  <2> QED
    BY <1>1, <1>2, <2>1, DivMonotone
<1>5. ASSUME NEW n \in Nat PROVE Rounded(n) \in Nat
  <2>1. n + half \in Int /\ Cent * 0 <= n + half
    BY <1>1 DEF half
  <2>2. 0 <= (n + half) \div Cent
    BY <1>1, <2>1, DivAtLeast
  <2> QED
    BY <1>2, <1>3, <2>2
<1> QED
  BY <1>3, <1>4, <1>5

\* The packs needed are the least that make the quantity.
LEMMA RequiredPacksIs ==
    ASSUME NEW quantity \in Nat \ {0}, NEW pack \in Nat \ {0}
    PROVE  /\ RequiredPacks(quantity, pack) \in Nat \ {0}
           /\ \A n \in Int : RequiredPacks(quantity, pack) <= n <=> quantity <= pack * n
<1>. DEFINE r == RequiredPacks(quantity, pack)
            a == quantity + pack - 1
<1>1. a \in Int /\ r = a \div pack /\ r \in Int
  BY DivIs DEF RequiredPacks
<1>2. 1 <= r
  <2>1. pack * 1 <= a
    OBVIOUS
  <2> QED
    BY <1>1, <2>1, DivAtLeast, 1 \in Int
<1>3. ASSUME NEW n \in Int PROVE r <= n <=> quantity <= pack * n
  <2>. DEFINE m == n + 1
              k == pack * n
  <2>1. m \in Int /\ (r <= n <=> ~ (m <= r))
    BY <1>1
  <2>2. m <= r <=> pack * m <= a
    BY <1>1, <2>1, DivAtLeast
  <2>3. pack * m = k + pack /\ k \in Int
    OBVIOUS
  <2> HIDE DEF k, m
  <2>4. pack * m <= a <=> ~ (quantity <= k)
    BY <2>3
  <2> QED
    BY <2>1, <2>2, <2>4 DEF k
<1> QED
  BY <1>1, <1>2, <1>3

-----------------------------------------------------------------------------
\* The cart and the layout of a request.
RequestOK == Carts(request.cart) /\ Layouts(request.layout)

LEMMA MillionIs == Million \in Nat \ {0}
  BY SMT DEF Million

\* The quantities of the cart are numbers.
LEMMA CartIs ==
    ASSUME RequestOK
    PROVE  /\ IsFiniteSet(DOMAIN request.cart) /\ DOMAIN request.cart # {}
           /\ \A p \in DOMAIN request.cart : p \in Nat \ {0} /\ request.cart[p] \in Nat \ {0}
  BY MillionIs DEF RequestOK, Carts

LEMMA DistanceType ==
    ASSUME RequestOK, NEW o PROVE Distance(o) \in Int
<1>1. \A x, y \in Int : x * x + y * y \in Int
  OBVIOUS
<1>2. Geolocated(o) => request.layout[o.agency] \in Int \X Int
  BY DEF RequestOK, Layouts, Geolocated
<1> QED
  BY <1>1, <1>2, MillionIs DEF Distance

LEMMA LineCostType ==
    ASSUME NEW o, o.price \in Nat, NEW packs \in Nat PROVE LineCost(o, packs) \in Nat
<1>1. o.price * packs \in Nat
  OBVIOUS
<1> QED
  BY <1>1, RoundedIs DEF LineCost

\* The rank of an offer is a tuple of six numbers.
LEMMA OfferRankType ==
    ASSUME RequestOK, NEW o, OfferOK(o), NEW packs \in Nat
    PROVE  /\ OfferRank(o, packs) \in Seq(Int) /\ Len(OfferRank(o, packs)) = 6
           /\ OfferRank(o, packs)[1] = LineCost(o, packs)
<1>. DEFINE c == LineCost(o, packs)
            d == Distance(o)
            e == o.prep
            f == o.supplier
            g == o.agency
            h == o.ref
<1>1. c \in Int /\ d \in Int /\ e \in Int /\ f \in Int /\ g \in Int /\ h \in Int
  BY DistanceType, LineCostType, OfferIs
<1>2. OfferRank(o, packs) = <<c, d, e, f, g, h>>
  BY DEF OfferRank
<1> HIDE DEF c, d, e, f, g, h
<1>3. <<c, d, e, f, g, h>> \in Seq(Int) /\ Len(<<c, d, e, f, g, h>>) = 6 /\ <<c, d, e, f, g, h>>[1] = c
  BY <1>1
<1> QED
  BY <1>2, <1>3 DEF c

\* The members of a pool are offers of the product.
LEMMA PoolIs ==
    ASSUME RequestOK, NEW offers, OffersOK(offers), NEW p \in DOMAIN request.cart,
           NEW kind \in {"available", "partial", "delayed", "order_only"}
    PROVE  /\ IsFiniteSet(Pool(kind, offers, p))
           /\ \A o \in Pool(kind, offers, p) :
                  /\ o \in offers /\ o.product = p /\ OfferOK(o) /\ o.comparable
                  /\ Needed(o) \in Nat \ {0} /\ Packs(kind, o) \in Nat \ {0}
                  /\ kind \in Later => o.fulfillment = kind
                  /\ kind \notin Later => o.fulfillment \notin Later \cup {"unavailable"}
                  /\ kind = "available" => CoversPacks(o, Packs(kind, o)) /\ Packs(kind, o) = Needed(o)
                  /\ kind = "partial" => o.stock >= Packs(kind, o)
<1>1. Pool(kind, offers, p) \subseteq offers
  BY DEF Pool, Stocked, Comparables
<1>2. IsFiniteSet(Pool(kind, offers, p))
  BY <1>1, FS_Subset DEF OffersOK
<1>3. ASSUME NEW o \in Pool(kind, offers, p)
      PROVE  /\ o \in offers /\ o.product = p /\ OfferOK(o) /\ o.comparable
             /\ Needed(o) \in Nat \ {0} /\ Packs(kind, o) \in Nat \ {0}
             /\ kind \in Later => o.fulfillment = kind
             /\ kind \notin Later => o.fulfillment \notin Later \cup {"unavailable"}
             /\ kind = "available" => CoversPacks(o, Packs(kind, o)) /\ Packs(kind, o) = Needed(o)
             /\ kind = "partial" => o.stock >= Packs(kind, o)
  <2>1. o \in offers /\ o.product = p /\ OfferOK(o) /\ o.comparable
    BY <1>1 DEF OffersOK, Pool, Stocked, Comparables
  <2>2. Needed(o) \in Nat \ {0}
    BY <2>1, CartIs, RequiredPacksIs, OfferIs DEF Needed
  <2>3. kind = "partial" => o.stock > 0
    BY DEF Pool
  <2>4. o.stock \in Nat
    BY <2>1, OfferIs
  <2>5. Min({o.stock, Needed(o)}) = IF o.stock <= Needed(o) THEN o.stock ELSE Needed(o)
    BY <2>2, <2>4, MinOfTwo
  <2>6. Packs(kind, o) \in Nat \ {0} /\ (kind = "partial" => o.stock >= Packs(kind, o))
    BY <2>2, <2>3, <2>4, <2>5 DEF Packs
  <2>7. kind = "available" => CoversPacks(o, Packs(kind, o)) /\ Packs(kind, o) = Needed(o)
    BY DEF Pool, Packs
  <2>8. /\ kind \in Later => o.fulfillment = kind
        /\ kind \notin Later => o.fulfillment \notin Later \cup {"unavailable"}
    BY DEF Pool, Stocked, Later
  <2> QED
    BY <2>1, <2>2, <2>6, <2>7, <2>8
<1> QED
  BY <1>2, <1>3

\* The ranks of a pool can be compared.
LEMMA LineRankType ==
    ASSUME RequestOK, NEW offers, OffersOK(offers), NEW p \in DOMAIN request.cart,
           NEW kind \in {"available", "partial", "delayed", "order_only"},
           NEW o \in Pool(kind, offers, p)
    PROVE  /\ LineRank(kind, o) \in Seq(Int)
           /\ Len(LineRank(kind, o)) = IF kind = "partial" THEN 7 ELSE 6
           /\ kind # "partial" => LineRank(kind, o) = OfferRank(o, Packs(kind, o))
<1>1. Packs(kind, o) \in Nat /\ OfferOK(o)
  BY PoolIs
<1>. DEFINE r == OfferRank(o, Packs(kind, o))
            m == - Packs(kind, o)
<1>2. r \in Seq(Int) /\ Len(r) = 6
  BY <1>1, OfferRankType
<1>3. m \in Int
  BY <1>1
<1>4. LineRank(kind, o) = (IF kind = "partial" THEN <<m>> ELSE <<>>) \o r
  BY DEF LineRank
<1> HIDE DEF r, m
<1>5. <<>> \o r = r
  BY <1>2, ConcatEmptySeq
<1>6. <<m>> \in Seq(Int) /\ Len(<<m>>) = 1
  BY <1>3
<1>7. <<m>> \o r \in Seq(Int) /\ Len(<<m>> \o r) = 7
  <2>1. <<m>> \o r \in Seq(Int) /\ Len(<<m>> \o r) = Len(<<m>>) + Len(r)
    BY <1>2, <1>6, ConcatProperties
  <2> QED
    BY <1>2, <1>6, <2>1
<1> QED
  BY <1>2, <1>4, <1>5, <1>7 DEF r

\* The least of a set of numbers.
LEMMA MinIs ==
    ASSUME NEW T \in SUBSET Nat, T # {}
    PROVE  Min(T) \in T /\ \A n \in T : Min(T) <= n
<1>1. \E m \in T : \A n \in T : m <= n
  BY LeastNatural
<1> QED
  BY <1>1 DEF Min

\* A line is bought whole where any offer covers it; what is bought is the best of a pool.
LEMMA LineIs ==
    ASSUME RequestOK, NEW offers, OffersOK(offers), NEW p \in DOMAIN request.cart
    PROVE  LET line == Line(offers, p) IN
           /\ \/ line.kind \in {"out_of_stock", "unavailable"}
              \/ /\ line.kind \in {"available", "partial", "delayed", "order_only"}
                 /\ line.offer \in Pool(line.kind, offers, p)
                 /\ line.packs = Packs(line.kind, line.offer)
                 /\ line = [kind |-> line.kind, offer |-> line.offer, packs |-> line.packs]
                 /\ \A o \in Pool(line.kind, offers, p) :
                        \/ LineRank(line.kind, o) = LineRank(line.kind, line.offer)
                        \/ Before(LineRank(line.kind, line.offer), LineRank(line.kind, o))
           /\ line.kind = "available" <=> Pool("available", offers, p) # {}
<1>. DEFINE filled == {i \in DOMAIN Pools : Pool(Pools[i], offers, p) # {}}
            kind == Pools[Min(filled)]
            key == [o \in Pool(kind, offers, p) |-> LineRank(kind, o)]
            best == Least(key)
<1>1. /\ DOMAIN Pools = 1..4 /\ Pools[1] = "available"
      /\ Pools[2] = "partial" /\ Pools[3] = "delayed" /\ Pools[4] = "order_only"
  BY DEF Pools
<1>2. Line(offers, p) = IF filled = {}
        THEN [kind |-> IF Stocked(offers, p) # {} THEN "out_of_stock" ELSE "unavailable"]
        ELSE [kind |-> kind, offer |-> best, packs |-> Packs(kind, best)]
  BY DEF Line
<1>3. filled \subseteq 1..4 /\ (1 \in filled <=> Pool("available", offers, p) # {})
  BY <1>1
<1>4. CASE filled = {}
  <2>1. Line(offers, p).kind \in {"out_of_stock", "unavailable"}
    BY <1>2, <1>4
  <2> QED
    BY <1>3, <1>4, <2>1
<1>5. CASE filled # {}
  <2>1. Min(filled) \in filled /\ \A n \in filled : Min(filled) <= n
    <3>1. filled \in SUBSET Nat
      BY <1>3
    <3> HIDE DEF filled
    <3> QED
      BY <3>1, <1>5, MinIs
  <2>2. Min(filled) \in 1..4 /\ (1 \in filled <=> Min(filled) = 1)
    BY <1>3, <2>1
  <2>3. kind \in {"available", "partial", "delayed", "order_only"}
        /\ (kind = "available" <=> Min(filled) = 1)
    BY <1>1, <2>2
  <2>4. Pool(kind, offers, p) # {}
    BY <2>1
  <2> HIDE DEF filled, kind
  <2>5. IsFiniteSet(Pool(kind, offers, p))
    BY <2>3, PoolIs
  <2>6. DOMAIN key = Pool(kind, offers, p) /\ \A o \in DOMAIN key : key[o] = LineRank(kind, o)
    OBVIOUS
  <2> HIDE DEF key
  <2>. DEFINE n == IF kind = "partial" THEN 7 ELSE 6
  <2>7. \A o \in DOMAIN key : key[o] \in Seq(Int) /\ Len(key[o]) = n
    BY <2>3, <2>6, LineRankType
  <2>8. n \in Nat /\ 1 \in 1..n
    OBVIOUS
  <2> HIDE DEF n
  <2>9. Ranked(key, 1)
    BY <2>7, <2>8, RankedAlike
  <2>10. /\ best \in Pool(kind, offers, p)
         /\ \A o \in Pool(kind, offers, p) : LineRank(kind, o) = LineRank(kind, best)
                                              \/ Before(LineRank(kind, best), LineRank(kind, o))
    BY <2>4, <2>5, <2>6, <2>9, LeastIs
  <2>11. Line(offers, p) = [kind |-> kind, offer |-> best, packs |-> Packs(kind, best)]
    BY <1>2, <1>5
  <2> HIDE DEF best
  <2>12. Line(offers, p).kind = kind /\ Line(offers, p).offer = best
         /\ Line(offers, p).packs = Packs(kind, best)
    BY <2>11
  <2>13. kind = "available" <=> Pool("available", offers, p) # {}
    BY <1>3, <2>2, <2>3
  <2> QED
    BY <2>3, <2>10, <2>11, <2>12, <2>13
<1> QED
  BY <1>4, <1>5

\* The offer of a line that is bought whole costs no more than another that covers it.
LEMMA LineIsCheapest ==
    ASSUME RequestOK, NEW offers, OffersOK(offers), NEW p \in DOMAIN request.cart,
           NEW o \in Pool("available", offers, p)
    PROVE  LET line == Line(offers, p) IN
           /\ line.kind = "available" /\ line.offer \in Pool("available", offers, p)
           /\ line.packs = Needed(line.offer)
           /\ LineCost(line.offer, line.packs) <= LineCost(o, Needed(o))
<1>. DEFINE line == Line(offers, p)
            best == line.offer
<1>1. /\ line.kind = "available" /\ best \in Pool("available", offers, p)
      /\ line.packs = Packs("available", best)
      /\ \/ LineRank("available", o) = LineRank("available", best)
         \/ Before(LineRank("available", best), LineRank("available", o))
  BY LineIs
<1> HIDE DEF line, best
<1>2. Packs("available", best) = Needed(best) /\ Packs("available", o) = Needed(o)
      /\ Needed(best) \in Nat /\ Needed(o) \in Nat /\ OfferOK(best) /\ OfferOK(o)
  BY <1>1, PoolIs
<1>. DEFINE r == OfferRank(best, Needed(best))
            s == OfferRank(o, Needed(o))
<1>3. r = s \/ Before(r, s)
  BY <1>1, <1>2, LineRankType
<1>4. /\ r \in Seq(Int) /\ Len(r) = 6 /\ r[1] = LineCost(best, Needed(best))
      /\ s \in Seq(Int) /\ Len(s) = 6 /\ s[1] = LineCost(o, Needed(o))
  BY <1>2, OfferRankType
<1>5. r[1] \in Int /\ s[1] \in Int
  BY <1>4, ElementOfSeq, 1 \in 1..6
<1> HIDE DEF r, s
<1>6. r[1] <= s[1]
  <2>1. CASE r = s
    BY <2>1, <1>5
  <2>2. ASSUME NEW i \in DOMAIN r, \A j \in 1..(i - 1) : r[j] = s[j], r[i] < s[i] PROVE r[1] <= s[1]
    <3>1. i \in Nat \ {0}
      BY <1>4
    <3>2. CASE i = 1
      BY <3>2, <2>2, <1>5
    <3>3. CASE i # 1
      <4>1. 1 \in 1..(i - 1)
        BY <3>1, <3>3
      <4> QED
        BY <4>1, <2>2, <1>5
    <3> QED
      BY <3>2, <3>3
  <2> QED
    BY <2>1, <2>2, <1>3 DEF Before
<1> QED
  BY <1>1, <1>2, <1>4, <1>6 DEF line, best

-----------------------------------------------------------------------------
\* Baskets.

\* The lines of a basket.
LEMMA BasketIs ==
    ASSUME NEW offers
    PROVE  /\ DOMAIN Basket(offers) = DOMAIN request.cart
           /\ \A p \in DOMAIN request.cart : Basket(offers)[p] = Line(offers, p)
  BY DEF Basket

\* A basket is complete where an offer covers each line.
LEMMA CompleteIs ==
    ASSUME RequestOK, NEW offers, OffersOK(offers)
    PROVE  /\ Complete(Basket(offers)) <=>
                  \A p \in DOMAIN request.cart : Pool("available", offers, p) # {}
           /\ Complete(Basket(offers)) => Bought(Basket(offers)) = DOMAIN request.cart
<1>1. \A p \in DOMAIN request.cart :
         Basket(offers)[p].kind = "available" <=> Pool("available", offers, p) # {}
  BY BasketIs, LineIs
<1> QED
  BY <1>1, BasketIs DEF Complete, Bought

\* What is bought is an offer of a pool.
LEMMA BoughtIs ==
    ASSUME RequestOK, NEW offers, OffersOK(offers), NEW p \in Bought(Basket(offers))
    PROVE  LET line == Basket(offers)[p] IN
           /\ p \in DOMAIN request.cart /\ line = Line(offers, p)
           /\ line.kind \in {"available", "partial", "delayed", "order_only"}
           /\ line.offer \in Pool(line.kind, offers, p) /\ line.offer \in offers
           /\ OfferOK(line.offer) /\ line.packs = Packs(line.kind, line.offer)
           /\ line.packs \in Nat \ {0}
<1>. DEFINE line == Basket(offers)[p]
<1>1. p \in DOMAIN request.cart /\ line = Line(offers, p)
      /\ line.kind \in {"available", "partial"} \cup Later
  BY BasketIs DEF Bought
<1> HIDE DEF line
<1>2. line.kind \in {"available", "partial", "delayed", "order_only"}
  BY <1>1 DEF Later
<1>3. line.offer \in Pool(line.kind, offers, p) /\ line.packs = Packs(line.kind, line.offer)
  BY <1>1, <1>2, LineIs
<1>4. line.offer \in offers /\ OfferOK(line.offer) /\ line.packs \in Nat \ {0}
  BY <1>1, <1>2, <1>3, PoolIs
<1> QED
  BY <1>1, <1>2, <1>3, <1>4 DEF line

\* What is bought is finite.
LEMMA BoughtFinite ==
    ASSUME RequestOK, NEW offers
    PROVE  /\ Bought(Basket(offers)) \subseteq DOMAIN request.cart
           /\ IsFiniteSet(Bought(Basket(offers)))
  BY BasketIs, CartIs, FS_Subset DEF Bought

\* The materials of a basket that is complete are at most those of another whose every
\* line costs at least as much.
LEMMA TotalIs ==
    ASSUME RequestOK, NEW offers, OffersOK(offers)
    PROVE  Total(Basket(offers)) \in Int
<1>. DEFINE b == Basket(offers)
            f == [p \in Bought(b) |-> LineCost(b[p].offer, b[p].packs)]
<1>1. IsFiniteSet(DOMAIN f)
  BY BoughtFinite
<1>2. \A p \in DOMAIN f : f[p] \in Int
  <2> SUFFICES ASSUME NEW p \in Bought(b) PROVE f[p] \in Int
    OBVIOUS
  <2>1. OfferOK(b[p].offer) /\ b[p].packs \in Nat
    BY BoughtIs
  <2>2. LineCost(b[p].offer, b[p].packs) \in Nat
    BY <2>1, LineCostType, OfferIs
  <2> QED
    BY <2>2
<1>3. Total(b) = SumFunction(f)
  BY DEF Total
<1> HIDE DEF f, b
<1> QED
  BY <1>1, <1>2, <1>3, SumType DEF b

\* The basket of more offers is complete where that of fewer is, and no dearer.
LEMMA TotalMonotone ==
    ASSUME RequestOK, NEW S, OffersOK(S), Complete(Basket(S)), NEW T, OffersOK(T), S \subseteq T
    PROVE  Complete(Basket(T)) /\ Total(Basket(T)) <= Total(Basket(S))
<1>. DEFINE cart == DOMAIN request.cart
            a == Basket(S)
            b == Basket(T)
            f == [p \in Bought(b) |-> LineCost(b[p].offer, b[p].packs)]
            g == [p \in Bought(a) |-> LineCost(a[p].offer, a[p].packs)]
<1>1. \A p \in cart : Pool("available", S, p) \subseteq Pool("available", T, p)
  BY DEF Pool, Stocked, Comparables
<1>2. \A p \in cart : Pool("available", S, p) # {}
  BY CompleteIs
<1>3. Complete(b) /\ Bought(a) = cart /\ Bought(b) = cart
  BY <1>1, <1>2, CompleteIs
<1>4. ASSUME NEW p \in cart
      PROVE  /\ LineCost(b[p].offer, b[p].packs) <= LineCost(a[p].offer, a[p].packs)
             /\ LineCost(b[p].offer, b[p].packs) \in Int /\ LineCost(a[p].offer, a[p].packs) \in Int
  <2>1. a[p] = Line(S, p) /\ b[p] = Line(T, p)
    BY BasketIs
  <2>2. PICK o \in Pool("available", S, p) : TRUE
    BY <1>2
  <2>. DEFINE q == Line(S, p).offer
  <2>3. q \in Pool("available", S, p) /\ Line(S, p).packs = Needed(q)
    BY <2>2, LineIsCheapest
  <2>4. q \in Pool("available", T, p)
    BY <2>3, <1>1
  <2> HIDE DEF q
  <2>5. LineCost(Line(T, p).offer, Line(T, p).packs) <= LineCost(q, Needed(q))
    BY <2>4, LineIsCheapest
  <2>6. LineCost(b[p].offer, b[p].packs) \in Int /\ LineCost(a[p].offer, a[p].packs) \in Int
    <3>1. OfferOK(b[p].offer) /\ b[p].packs \in Nat /\ OfferOK(a[p].offer) /\ a[p].packs \in Nat
      BY <1>3, BoughtIs
    <3>2. /\ LineCost(b[p].offer, b[p].packs) \in Nat
          /\ LineCost(a[p].offer, a[p].packs) \in Nat
      BY <3>1, LineCostType, OfferIs
    <3> QED
      BY <3>2
  <2> QED
    BY <2>1, <2>3, <2>5, <2>6 DEF q
<1>5. IsFiniteSet(cart)
  BY CartIs
<1>6. /\ DOMAIN f = cart /\ DOMAIN g = cart
      /\ \A p \in cart : f[p] \in Int /\ g[p] \in Int /\ f[p] <= g[p]
  BY <1>3, <1>4
<1>7. Total(a) = SumFunction(g) /\ Total(b) = SumFunction(f)
  BY DEF Total
<1> HIDE DEF f, g, a, b
<1>8. SumFunction(f) <= SumFunction(g)
  BY <1>5, <1>6, SumMonotone
<1> QED
  BY <1>3, <1>7, <1>8 DEF a, b

-----------------------------------------------------------------------------
\* What depends on the request alone stays while the request does.

LEMMA GeolocatedStays ==
    ASSUME UNCHANGED request
    PROVE  /\ \A o : Geolocated(o)' <=> Geolocated(o)
           /\ \A o : Needed(o)' = Needed(o)
           /\ \A o, n : CoversPacks(o, n)' <=> CoversPacks(o, n)
           /\ \A o, n : OfferRank(o, n)' = OfferRank(o, n)
<1>1. \A o : Geolocated(o)' <=> Geolocated(o)
  BY DEF Geolocated
<1>2. \A o : Needed(o)' = Needed(o)
  BY DEF Needed
<1>3. \A o, n : CoversPacks(o, n)' <=> CoversPacks(o, n)
  BY <1>1 DEF CoversPacks, Uncounted
<1>4. \A o : Distance(o)' = Distance(o)
  BY <1>1 DEF Distance
<1>5. \A o, n : OfferRank(o, n)' = OfferRank(o, n)
  BY <1>4 DEF OfferRank
<1> QED
  BY <1>1, <1>2, <1>3, <1>5

LEMMA PoolStays ==
    ASSUME UNCHANGED request, NEW kind, NEW offers, NEW p
    PROVE  /\ Pool(kind, offers, p)' = Pool(kind, offers, p)
           /\ \A o : Packs(kind, o)' = Packs(kind, o)
           /\ \A o : LineRank(kind, o)' = LineRank(kind, o)
<1>1. Pool(kind, offers, p)' = Pool(kind, offers, p)
  BY GeolocatedStays DEF Pool
<1>2. \A o : Packs(kind, o)' = Packs(kind, o)
  BY GeolocatedStays DEF Packs
<1>3. \A o : LineRank(kind, o)' = LineRank(kind, o)
  BY <1>2, GeolocatedStays DEF LineRank
<1> QED
  BY <1>1, <1>2, <1>3

LEMMA LineStays ==
    ASSUME UNCHANGED request, NEW offers, NEW p
    PROVE  Line(offers, p)' = Line(offers, p)
<1>. DEFINE filled == {i \in DOMAIN Pools : Pool(Pools[i], offers, p) # {}}
            kind == Pools[Min(filled)]
            key == [o \in Pool(kind, offers, p) |-> LineRank(kind, o)]
            best == Least(key)
<1>1. filled' = filled
  BY PoolStays
<1>2. kind' = kind
  BY <1>1
<1> HIDE DEF filled, kind
<1>3. Pool(kind, offers, p)' = Pool(kind, offers, p) /\ (\A o : LineRank(kind, o)' = LineRank(kind, o))
      /\ (\A o : Packs(kind, o)' = Packs(kind, o))
  BY <1>2, PoolStays
<1>4. key' = key
  BY <1>3
<1> HIDE DEF key
<1>5. best' = best
  BY <1>4
<1>6. Packs(kind, best)' = Packs(kind, best)
  BY <1>3, <1>5
<1> HIDE DEF best
<1>7. Line(offers, p) = IF filled = {}
        THEN [kind |-> IF Stocked(offers, p) # {} THEN "out_of_stock" ELSE "unavailable"]
        ELSE [kind |-> kind, offer |-> best, packs |-> Packs(kind, best)]
  BY DEF Line, filled, kind, key, best
<1>8. Line(offers, p)' = IF filled' = {}
        THEN [kind |-> IF Stocked(offers, p) # {} THEN "out_of_stock" ELSE "unavailable"]
        ELSE [kind |-> kind', offer |-> best', packs |-> Packs(kind, best)']
  BY DEF Line, filled, kind, key, best
<1> QED
  BY <1>1, <1>2, <1>5, <1>6, <1>7, <1>8

LEMMA BasketStays ==
    ASSUME UNCHANGED request
    PROVE  \A offers : Basket(offers)' = Basket(offers)
  BY LineStays DEF Basket

LEMMA OfferedStays == UNCHANGED request => Offered' = Offered
  BY BasketStays DEF Offered, Comparable

-----------------------------------------------------------------------------
\* The options are those of the request.
OptionsOK == options = None \/ (pc \in {"search", "answered"} /\ options = Offered)

\* There are no options at first,
LEMMA OptionsInit == RequestInit => OptionsOK
  BY DEF RequestInit, Init, OptionsOK

\* and those there are stay.
LEMMA OptionsStep ==
    ASSUME OptionsOK, [RequestNext]_<<vars, requestVars>>, RequestTypeOK PROVE OptionsOK'
<1>1. CASE Served /\ (Resolve \/ BuildLive \/ BuildCatalogues \/ AskCatalogue \/ Locate \/ LiveFails
                      \/ Compare)
  <2>1. UNCHANGED options /\ pc \in Serving
    BY <1>1 DEF Resolve, BuildLive, BuildCatalogues, AskCatalogue, Locate, LiveFails, Compare,
       Serving, Asking
  <2> QED
    BY <2>1 DEF OptionsOK, Serving
<1>2. CASE Served /\ \E kind \in {"gedimat", "brico"} : AskStore(kind)
  <2>1. UNCHANGED options /\ pc \in Serving
    BY <1>2 DEF AskStore, Asking, Serving
  <2> QED
    BY <2>1 DEF OptionsOK, Serving
<1>3. CASE Served /\ (SetSupplierActive \/ SetCatalogActive \/ SyncStores)
  <2>1. UNCHANGED options /\ pc \in Serving
    BY <1>3 DEF SetSupplierActive, SetCatalogActive, SyncStores, Edit, vars
  <2> QED
    BY <2>1 DEF OptionsOK, Serving
<1>4. CASE Next
  <2>1. \/ options' = Offered /\ pc' \in {"search", "answered"}
        \/ options' = options /\ pc' = "refused" /\ pc = "asked"
        \/ options' = options /\ pc \in {"search", "answered"} /\ pc' \in {"search", "answered"}
    BY <1>4 DEF Next, NoTour, Refuse, Start, NextSubset, TryThreshold, Answer
  <2>2. Offered' = Offered
    BY <1>4, SearchKeeps, OfferedStays
  <2> QED
    BY <2>1, <2>2 DEF OptionsOK
<1>5. CASE UNCHANGED <<vars, requestVars>>
  <2>1. UNCHANGED <<request, options, pc>>
    BY <1>5 DEF vars
  <2> QED
    BY <2>1, OfferedStays DEF OptionsOK
<1> QED
  BY <1>1, <1>2, <1>3, <1>4, <1>5, RequestSteps

\* The search has a request.
LEMMA GivenIs == RequestTypeOK /\ pc \in {"search", "answered"} =>
                     RequestOK /\ OffersOK(request.offers)
  BY DEF RequestTypeOK, Asked, GivenOK, RequestOK

\* The optimised basket is made of all the offers, the others of some.
LEMMA OptionsAreBest == RequestTypeOK /\ OptionsOK => OptimisedIsBest
<1> SUFFICES ASSUME RequestTypeOK, OptionsOK, options # None,
                    NEW s \in DOMAIN options, Complete(options[s])
             PROVE  Complete(options[0]) /\ Total(options[0]) <= Total(options[s])
  BY DEF OptimisedIsBest
<1>. DEFINE S == {o \in Comparable : s = 0 \/ o.supplier = s}
            T == {o \in Comparable : 0 = 0 \/ o.supplier = 0}
<1>1. RequestOK /\ OffersOK(request.offers) /\ options = Offered
  BY GivenIs DEF OptionsOK
<1>2. options[s] = Basket(S) /\ options[0] = Basket(T)
  BY <1>1 DEF Offered
<1>3. S \subseteq T /\ T \subseteq request.offers
  BY DEF Comparable
<1>4. OffersOK(S) /\ OffersOK(T)
  BY <1>1, <1>3, OffersSubset
<1> HIDE DEF S, T
<1> QED
  BY <1>1, <1>2, <1>3, <1>4, TotalMonotone

\* "Panier optimisé" takes each line from all the offers: it is complete wherever one
\* supplier is, and then costs no more.
THEOREM OptimisedBasketIsBest == RequestSpec => []OptimisedIsBest
<1>1. RequestInit => RequestTypeOK /\ OptionsOK
  BY RequestTypeInit, OptionsInit
<1>2. RequestTypeOK /\ OptionsOK /\ [RequestNext]_<<vars, requestVars>> => (RequestTypeOK /\ OptionsOK)'
  BY RequestTypeStep, OptionsStep
<1>3. RequestTypeOK /\ OptionsOK => OptimisedIsBest
  BY OptionsAreBest
<1> QED
  BY <1>1, <1>2, <1>3, PTL DEF RequestSpec

\* The greatest of a finite set of numbers.
LEMMA MaxIs ==
    ASSUME NEW T \in SUBSET Int, IsFiniteSet(T), T # {}
    PROVE  Max(T) \in T /\ \A n \in T : n <= Max(T)
<1>. DEFINE k == [x \in T |-> <<- x>>]
<1>1. \A x \in T : k[x] \in Seq(Int) /\ Len(k[x]) = 1 /\ k[x][1] = - x
  <2> SUFFICES ASSUME NEW x \in T PROVE k[x] \in Seq(Int) /\ Len(k[x]) = 1 /\ k[x][1] = - x
    OBVIOUS
  <2>1. - x \in Int
    OBVIOUS
  <2>2. k[x] = <<- x>>
    OBVIOUS
  <2> QED
    BY <2>1, <2>2
<1> HIDE DEF k
<1>2. Ranks({k[x] : x \in T}, 1)
  BY <1>1 DEF Ranks
<1>3. PICK x \in T : \A y \in T : ~ Before(k[y], k[x])
  BY <1>2, LeastExists
<1>4. ASSUME NEW y \in T PROVE y <= x
  <2>1. ~ (k[y][1] < k[x][1])
    <3>1. 1 \in DOMAIN k[y]
      BY <1>1
    <3> QED
      BY <3>1, <1>3 DEF Before
  <2>2. k[y][1] = - y /\ k[x][1] = - x /\ x \in Int /\ y \in Int
    BY <1>1
  <2>3. ~ (- y < - x)
    BY <2>1, <2>2
  <2> QED
    BY <2>2, <2>3
<1>5. \A y \in T : x >= y
  BY <1>4
<1> QED
  BY <1>5 DEF Max

\* The preparation of a basket is that of one of its lines, or none.
LEMMA PreparationIs ==
    ASSUME RequestOK, NEW offers, OffersOK(offers)
    PROVE  /\ Preparation(Basket(offers)) \in Nat
           /\ \A p \in Bought(Basket(offers)) :
                  Basket(offers)[p].offer.prep <= Preparation(Basket(offers))
           /\ \A n \in Nat : (\A o \in offers : o.prep <= n) => Preparation(Basket(offers)) <= n
<1>. DEFINE b == Basket(offers)
            f == [p \in Bought(b) |-> b[p].offer.prep]
            T == {f[p] : p \in Bought(b)}
            U == {0} \cup T
<1>1. \A p \in Bought(b) : f[p] \in Nat /\ b[p].offer \in offers /\ f[p] = b[p].offer.prep
  BY BoughtIs, OfferIs
<1>2. IsFiniteSet(T)
  <2>1. IsFiniteSet(DOMAIN f) /\ \A y \in T : \E x \in DOMAIN f : y = f[x]
    BY BoughtFinite
  <2> HIDE DEF T
  <2> QED
    BY <2>1, FiniteValues
<1>3. IsFiniteSet(U) /\ U \in SUBSET Nat
  <2>1. IsFiniteSet({0})
    BY FS_Singleton
  <2>2. T \subseteq Nat
    BY <1>1
  <2> HIDE DEF T
  <2>3. IsFiniteSet(U)
    BY <2>1, <1>2, FS_Union
  <2>4. U \in SUBSET Nat
    BY <2>2
  <2> QED
    BY <2>3, <2>4
<1>4. Preparation(b) = Max(U)
  BY DEF Preparation
<1>5. Max(U) \in U /\ \A n \in U : n <= Max(U)
  <2>1. U # {} /\ U \in SUBSET Int
    BY <1>3
  <2> HIDE DEF U
  <2> QED
    BY <2>1, <1>3, MaxIs
<1> QED
  BY <1>1, <1>3, <1>4, <1>5

\* The agencies of a basket.
LEMMA UsedIs ==
    ASSUME RequestOK, NEW offers, OffersOK(offers)
    PROVE  /\ IsFiniteSet(Used(Basket(offers)))
           /\ \A a \in Used(Basket(offers)) : \E o \in offers : o.agency = a
<1>. DEFINE b == Basket(offers)
            f == [p \in Bought(b) |-> b[p].offer.agency]
<1>1. \A p \in Bought(b) : b[p].offer \in offers
  BY BoughtIs
<1>2. \A y \in Used(b) : \E x \in DOMAIN f : y = f[x]
  BY DEF Used
<1>3. IsFiniteSet(DOMAIN f)
  BY BoughtFinite
<1>4. IsFiniteSet(Used(b))
  BY <1>2, <1>3, FiniteValues
<1> QED
  BY <1>1, <1>4 DEF Used

LEMMA StopsCount ==
    ASSUME NEW S, IsFiniteSet(S)
    PROVE  /\ Cardinality(S) \in Nat
           /\ Max({Cardinality(S) - 1, 0}) = IF S = {} THEN 0 ELSE Cardinality(S) - 1
<1>1. Cardinality(S) \in Nat /\ (S = {} <=> Cardinality(S) = 0)
  BY FS_CardinalityType, FS_EmptySet
<1>. DEFINE n == Cardinality(S)
            T == {n - 1, 0}
<1> HIDE DEF n
<1>2. T \in SUBSET Int /\ T # {}
  BY <1>1 DEF n
<1>3. IsFiniteSet(T)
  <2>1. IsFiniteSet({n - 1}) /\ IsFiniteSet({0}) /\ T = {n - 1} \cup {0}
    BY FS_Singleton
  <2> HIDE DEF T
  <2> QED
    BY <2>1, FS_Union
<1>4. Max(T) \in T /\ \A m \in T : m <= Max(T)
  <2> HIDE DEF T
  <2> QED
    BY <1>2, <1>3, MaxIs
<1>5. Max(T) = IF n = 0 THEN 0 ELSE n - 1
  BY <1>1, <1>4 DEF n
<1> QED
  BY <1>1, <1>5 DEF n

\* The cost of a basket on a tour.
LEMMA CostType ==
    ASSUME RequestOK, NEW offers, OffersOK(offers), NEW tour, tour.time \in Nat, tour.distance \in Nat
    PROVE  Cost(Basket(offers), tour) \in Int
<1>. DEFINE b == Basket(offers)
            stops == Max({Cardinality(Used(b)) - 1, 0})
            km == tour.distance * PerKm
            minutes == (tour.time + Preparation(b)) * PerMinute
<1>1. Total(b) \in Int /\ Preparation(b) \in Nat
  BY TotalIs, PreparationIs
<1>2. stops \in Int
  BY UsedIs, StopsCount
<1>3. km \in Int /\ minutes \in Int
  <2> HIDE DEF b
  <2> QED
    BY <1>1, CostsAssumption
<1>4. Cost(b, tour) = Total(b) + Rounded(km) + Rounded(minutes) + stops * PerExtraStop
  BY DEF Cost
<1> HIDE DEF km, minutes, stops, b
<1>5. Rounded(km) \in Int /\ Rounded(minutes) \in Int /\ stops * PerExtraStop \in Int
  BY <1>2, <1>3, RoundedIs, CostsAssumption
<1> QED
  BY <1>1, <1>4, <1>5 DEF b

-----------------------------------------------------------------------------
(* What is on the route *)

\* The search was given a request.
GivenSearch == RequestOK /\ OffersOK(request.offers) /\ request.limit \in Nat

\* The offers on the route are offers of the request with a place.
LEMMA RouteIs ==
    ASSUME GivenSearch
    PROVE  /\ OnRoute \subseteq request.offers /\ Eligible \subseteq request.offers
           /\ OnRoute \subseteq Eligible
           /\ OffersOK(OnRoute) /\ OffersOK(Eligible)
           /\ \A t, n : Within(t, n) \subseteq OnRoute /\ OffersOK(Within(t, n))
           /\ IsFiniteSet(Keys) /\ Placed(request.layout, Keys)
           /\ IsFiniteSet(Thresholds) /\ Thresholds \subseteq Nat
<1>1. OnRoute \subseteq request.offers /\ Eligible \subseteq request.offers /\ OnRoute \subseteq Eligible
  BY DEF OnRoute, Eligible, Comparable
<1>2. \A t, n : Within(t, n) \subseteq OnRoute
  BY DEF Within
<1>3. OffersOK(OnRoute) /\ OffersOK(Eligible)
  BY <1>1, OffersSubset DEF GivenSearch
<1>4. \A t, n : OffersOK(Within(t, n))
  <2> SUFFICES ASSUME NEW t, NEW n PROVE OffersOK(Within(t, n))
    OBVIOUS
  <2> QED
    BY <1>2, <1>3, OffersSubset
<1>. DEFINE f == [o \in OnRoute |-> o.agency]
            g == [o \in OnRoute |-> o.prep]
<1>5. IsFiniteSet(OnRoute) /\ \A o \in OnRoute : o.agency \in Nat \ {0} /\ o.prep \in Nat
  BY <1>3, OfferIs DEF OffersOK
<1>6. IsFiniteSet(Keys)
  <2>1. \A y \in Keys : \E x \in DOMAIN f : y = f[x]
    BY DEF Keys
  <2> QED
    BY <2>1, <1>5, FiniteValues
<1>7. IsFiniteSet(Thresholds)
  <2>1. \A y \in Thresholds : \E x \in DOMAIN g : y = g[x]
    BY DEF Thresholds
  <2> QED
    BY <2>1, <1>5, FiniteValues
<1>8. Keys \subseteq Nat \ {0} /\ Thresholds \subseteq Nat
  BY <1>5 DEF Keys, Thresholds
<1>9. \A a \in Keys : request.layout[a] \in Int \X Int
  BY DEF Keys, OnRoute, Geolocated, GivenSearch, RequestOK, Layouts
<1> QED
  BY <1>1, <1>2, <1>3, <1>4, <1>6, <1>7, <1>8, <1>9 DEF Placed

\* The basket, the tour and the cost of some offers.
Deal(offers) ==
    LET basket == Basket(offers)
        tour == Exhaustive(request.layout, Used(basket))
    IN  [basket |-> basket, tour |-> tour, material |-> Total(basket), cost |-> Cost(basket, tour)]

\* The tour of offers that are on the route.
LEMMA DealIs ==
    ASSUME GivenSearch, NEW offers, offers \subseteq OnRoute
    PROVE  LET deal == Deal(offers) IN
           /\ deal.basket = Basket(offers) /\ OffersOK(offers)
           /\ Used(deal.basket) \subseteq Keys /\ Placed(request.layout, Used(deal.basket))
           /\ deal.tour = ShortestTour(request.layout, Used(deal.basket))
           /\ IsOrder(deal.tour.order, Used(deal.basket))
           /\ deal.tour.order \in Seq(Int) /\ Len(deal.tour.order) = Cardinality(Used(deal.basket))
           /\ deal.tour.time \in Nat /\ deal.tour.distance \in Nat
           /\ deal.tour = Tour(request.layout, deal.tour.order)
           /\ deal.material \in Int /\ deal.material = Total(deal.basket)
           /\ deal.cost \in Int /\ deal.cost = Cost(deal.basket, deal.tour)
<1>. DEFINE basket == Basket(offers)
            used == Used(basket)
            tour == Exhaustive(request.layout, used)
<1>1. RequestOK /\ OffersOK(offers)
  BY RouteIs, OffersSubset DEF GivenSearch
<1>2. used \subseteq Keys
  BY <1>1, UsedIs DEF Keys
<1>3. Placed(request.layout, used)
  BY <1>2, RouteIs, PlacedSubset
<1>4. Deal(offers) = [basket |-> basket, tour |-> tour, material |-> Total(basket),
                      cost |-> Cost(basket, tour)]
  BY DEF Deal
<1>5. Total(basket) \in Int
  BY <1>1, TotalIs
<1> HIDE DEF used, tour
<1>6. tour = ShortestTour(request.layout, used)
      /\ \E s : Best(request.layout, used, s) /\ tour = Tour(request.layout, s)
  BY <1>3, ShortestTourIs DEF tour
<1>7. PICK s : IsOrder(s, used) /\ tour = Tour(request.layout, s)
  BY <1>6 DEF Best
<1>8. s \in Seq(used) /\ Len(s) = Cardinality(used)
  BY <1>7 DEF IsOrder
<1>9. tour.order = s /\ tour.time \in Nat /\ tour.distance \in Nat
  BY <1>3, <1>7, <1>8, TourType
<1>10. s \in Seq(Int)
  <2>1. used \subseteq Int
    BY <1>3 DEF Placed
  <2> QED
    BY <1>8, <2>1, SeqMonotonic
<1>11. Cost(basket, tour) \in Int
  BY <1>1, <1>9, CostType
<1> HIDE DEF basket
<1>. DEFINE deal == Deal(offers)
<1>12. /\ deal.basket = basket /\ deal.tour = tour
       /\ deal.material = Total(basket) /\ deal.cost = Cost(basket, tour)
  BY <1>4
<1>13. Used(deal.basket) = used
  BY <1>12 DEF used
<1> HIDE DEF deal
<1>14. /\ deal.basket = Basket(offers) /\ OffersOK(offers)
       /\ deal.material \in Int /\ deal.material = Total(deal.basket)
       /\ deal.cost \in Int /\ deal.cost = Cost(deal.basket, deal.tour)
  BY <1>1, <1>5, <1>11, <1>12 DEF basket
<1>15. /\ deal.tour.order = s /\ deal.tour.time \in Nat /\ deal.tour.distance \in Nat
       /\ deal.tour = Tour(request.layout, deal.tour.order)
  BY <1>7, <1>9, <1>12
<1>16. deal.tour = ShortestTour(request.layout, used)
  BY <1>6, <1>12
<1> QED
  BY <1>2, <1>3, <1>7, <1>8, <1>10, <1>13, <1>14, <1>15, <1>16 DEF deal

-----------------------------------------------------------------------------
(* The search *)

\* What is tried on a subset within a threshold: whether it is a candidate, its
\* signature and the candidate it is.
Fits(t, n) == Covers(Within(t, n)) /\ Complete(Basket(Within(t, n)))
Mark(t, n) == Signature(Basket(Within(t, n)))
Entry(t, n) == Deal(Within(t, n))

\* What is answered, of what was found.
Reply ==
    IF ~ Complete(Basket(OnRoute))
    THEN [single |-> None, compromise |-> None,
          minimum |-> IF Complete(Basket(Eligible)) THEN National(Basket(Eligible)) ELSE None]
    ELSE IF candidates = {}
    THEN [single |-> None, compromise |-> None, minimum |-> National(Basket(Eligible))]
    ELSE [single |-> IF {c \in candidates : Len(c.tour.order) = 1} = {} THEN None
                     ELSE Cheapest({c \in candidates : Len(c.tour.order) = 1}),
          minimum |-> MinimumOf(candidates),
          compromise |-> Cheapest(candidates)]

\* A deal depends on the request alone.
LEMMA DealStays ==
    ASSUME UNCHANGED request
    PROVE  /\ OnRoute' = OnRoute /\ Eligible' = Eligible /\ Keys' = Keys /\ Thresholds' = Thresholds
           /\ \A t, n : Within(t, n)' = Within(t, n)
           /\ Basket(OnRoute)' = Basket(OnRoute) /\ Basket(Eligible)' = Basket(Eligible)
           /\ \A t, n : Fits(t, n)' <=> Fits(t, n)
           /\ \A t, n : Mark(t, n)' = Mark(t, n)
           /\ \A t, n : Entry(t, n)' = Entry(t, n)
<1>1. Comparable' = Comparable
  BY DEF Comparable
<1>2. \A o : AvailableQuantity(o)' = AvailableQuantity(o) /\ (Geolocated(o)' <=> Geolocated(o))
  BY GeolocatedStays DEF AvailableQuantity, Uncounted
<1>3. Eligible' = Eligible
  BY <1>1, <1>2 DEF Eligible
<1>4. OnRoute' = OnRoute
  BY <1>2, <1>3 DEF OnRoute
<1>5. Keys' = Keys /\ Thresholds' = Thresholds
  BY <1>4 DEF Keys, Thresholds
<1>6. \A t, n : Within(t, n)' = Within(t, n)
  BY <1>4 DEF Within
<1>7. \A offers : Basket(offers)' = Basket(offers)
  BY BasketStays
<1>8. Basket(OnRoute)' = Basket(OnRoute) /\ Basket(Eligible)' = Basket(Eligible)
  BY <1>3, <1>4, <1>7
<1>9. \A t, n : Basket(Within(t, n))' = Basket(Within(t, n))
  BY <1>6, <1>7
<1>10. \A t, n : Fits(t, n)' <=> Fits(t, n)
  BY <1>6, <1>9 DEF Fits, Covers, Complete
<1>11. \A t, n : Mark(t, n)' = Mark(t, n)
  BY <1>9 DEF Mark, Signature
<1>12. \A t, n : Entry(t, n)' = Entry(t, n)
  <2> SUFFICES ASSUME NEW t, NEW n PROVE Entry(t, n)' = Entry(t, n)
    OBVIOUS
  <2>. DEFINE b == Basket(Within(t, n))
  <2>1. b' = b
    BY <1>9
  <2>2. Entry(t, n) = [basket |-> b, tour |-> Exhaustive(request.layout, Used(b)),
                       material |-> Total(b),
                       cost |-> Cost(b, Exhaustive(request.layout, Used(b)))]
    BY DEF Entry, Deal
  <2>3. Entry(t, n)' = [basket |-> b, tour |-> Exhaustive(request.layout, Used(b)),
                       material |-> Total(b),
                       cost |-> Cost(b, Exhaustive(request.layout, Used(b)))]'
    BY DEF Entry, Deal
  <2> HIDE DEF b
  <2>4. Bought(b)' = Bought(b)
    BY <2>1 DEF Bought
  <2>5. Used(b)' = Used(b) /\ Total(b)' = Total(b) /\ Preparation(b)' = Preparation(b)
    BY <2>1, <2>4 DEF Used, Total, LineCost, Preparation
  <2>6. \A tour : Cost(b, tour)' = Cost(b, tour)
    BY <2>5 DEF Cost
  <2>. DEFINE used == Used(b)
              tour1 == Exhaustive(request.layout, used)
  <2>7. used' = used
    BY <2>5
  <2> HIDE DEF used
  <2>8. tour1' = tour1
    BY <2>7
  <2> HIDE DEF tour1
  <2>9. Cost(b, tour1)' = Cost(b, tour1)
    BY <2>6, <2>8
  <2>10. Entry(t, n) = [basket |-> b, tour |-> tour1, material |-> Total(b), cost |-> Cost(b, tour1)]
    BY <2>2 DEF used, tour1
  <2>11. Entry(t, n)' = [basket |-> b', tour |-> tour1', material |-> Total(b)', cost |-> Cost(b, tour1)']
    BY <2>3 DEF used, tour1
  <2> QED
    BY <2>1, <2>5, <2>8, <2>9, <2>10, <2>11
<1> QED
  BY <1>3, <1>4, <1>5, <1>6, <1>8, <1>10, <1>11, <1>12

\* Nothing was searched.
Idle ==
    /\ subset = {} /\ left = {} /\ seen = {} /\ candidates = {} /\ routes = <<>>
    /\ strategies = None /\ options = None

\* What was found: the tours kept are the shortest, the candidates are complete baskets
\* within a threshold, their signatures are remembered.
FoundOK ==
    /\ \A k \in DOMAIN routes : routes[k] = ShortestTour(request.layout, k)
    /\ IsFiniteSet(candidates)
    /\ \A c \in candidates : \E t, n : Fits(t, n) /\ c = Entry(t, n)
    /\ seen = {Signature(c.basket) : c \in candidates}

SearchOK ==
    /\ pc \in Serving \cup {"failed", "asked", "refused"} => Idle
    /\ pc = "search" => FoundOK /\ Complete(Basket(OnRoute)) /\ options = Offered
    /\ pc = "answered" => FoundOK /\ strategies = Reply /\ options = Offered

\* Nothing was searched at first.
LEMMA SearchInit == RequestInit => SearchOK
  BY DEF RequestInit, Init, SearchOK, Idle, Serving

\* What was found depends on the request and the search alone.
LEMMA FoundStays ==
    ASSUME FoundOK, UNCHANGED <<request, routes, candidates, seen>> PROVE FoundOK'
<1>1. \A t, n : (Fits(t, n)' <=> Fits(t, n)) /\ Entry(t, n)' = Entry(t, n)
  BY DealStays
<1>2. \A c \in candidates : \E t, n : Fits(t, n)' /\ c = Entry(t, n)'
  BY <1>1 DEF FoundOK
<1> QED
  BY <1>2 DEF FoundOK, Signature

LEMMA ReplyStays ==
    ASSUME UNCHANGED <<request, candidates>> PROVE Reply' = Reply
<1>1. Basket(OnRoute)' = Basket(OnRoute) /\ Basket(Eligible)' = Basket(Eligible)
  BY DealStays
<1>. DEFINE b == Basket(OnRoute)
            c == Basket(Eligible)
            d == candidates
<1>2. b' = b /\ c' = c /\ d' = d
  BY <1>1
<1>3. Reply = IF ~ Complete(b)
    THEN [single |-> None, compromise |-> None,
          minimum |-> IF Complete(c) THEN National(c) ELSE None]
    ELSE IF d = {}
    THEN [single |-> None, compromise |-> None, minimum |-> National(c)]
    ELSE [single |-> IF {x \in d : Len(x.tour.order) = 1} = {} THEN None
                     ELSE Cheapest({x \in d : Len(x.tour.order) = 1}),
          minimum |-> MinimumOf(d),
          compromise |-> Cheapest(d)]
  BY DEF Reply
<1>4. Reply' = IF ~ Complete(b)'
    THEN [single |-> None, compromise |-> None,
          minimum |-> IF Complete(c)' THEN National(c)' ELSE None]
    ELSE IF d' = {}
    THEN [single |-> None, compromise |-> None, minimum |-> National(c)']
    ELSE [single |-> IF {x \in d : Len(x.tour.order) = 1}' = {} THEN None
                     ELSE Cheapest({x \in d : Len(x.tour.order) = 1})',
          minimum |-> MinimumOf(d)',
          compromise |-> Cheapest(d)']
  BY DEF Reply
<1>5. MinimumOf(d)' = MinimumOf(d)
  <2>1. \A x : CostRank(x)' = CostRank(x)
    BY DEF CostRank
  <2>2. National(c)' = National(c) /\ Total(c)' = Total(c)
    BY <1>2 DEF National, Total, Bought, LineCost
  <2> QED
    BY <1>2, <2>2 DEF MinimumOf, Least, CostRank
<1> HIDE DEF b, c, d
<1>6. (Complete(b)' <=> Complete(b)) /\ (Complete(c)' <=> Complete(c)) /\ National(c)' = National(c)
  BY <1>2 DEF Complete, National, Total, Bought, LineCost
<1>7. {x \in d : Len(x.tour.order) = 1}' = {x \in d : Len(x.tour.order) = 1}
  BY <1>2
<1>8. Cheapest({x \in d : Len(x.tour.order) = 1})' = Cheapest({x \in d : Len(x.tour.order) = 1})
      /\ Cheapest(d)' = Cheapest(d)
  BY <1>2 DEF Cheapest, Least, CostRank
<1> QED
  BY <1>2, <1>3, <1>4, <1>5, <1>6, <1>7, <1>8

\* A step of the search.
LEMMA SearchSteps ==
    ASSUME SearchOK, GivenSearch, Next PROVE SearchOK'
<1>1. UNCHANGED request
  BY SearchKeeps
<1>2. Offered' = Offered
  BY <1>1, OfferedStays
<1>3. Complete(Basket(OnRoute))' <=> Complete(Basket(OnRoute))
  BY <1>1, DealStays DEF Complete
<1>4. ASSUME Idle, UNCHANGED search PROVE FoundOK'
  <2>1. routes' = <<>> /\ candidates' = {} /\ seen' = {}
    BY <1>4 DEF Idle, search
  <2>2. IsFiniteSet({})
    BY FS_EmptySet
  <2> QED
    BY <2>1, <2>2 DEF FoundOK
<1>5. CASE NoTour
  <2>1. /\ pc = "asked" /\ pc' = "answered" /\ ~ Complete(Basket(OnRoute)) /\ options' = Offered
        /\ strategies' = Reply /\ UNCHANGED search
    BY <1>5 DEF NoTour, Reply
  <2>2. Reply' = Reply
    BY <1>1, <2>1, ReplyStays DEF search
  <2> QED
    BY <1>2, <1>4, <2>1, <2>2 DEF SearchOK, Serving
<1>6. CASE Refuse
  BY <1>6 DEF Refuse, SearchOK, Serving, Idle, search
<1>7. CASE Start
  <2>1. /\ pc = "asked" /\ pc' = "search" /\ Complete(Basket(OnRoute)) /\ options' = Offered
        /\ UNCHANGED <<seen, candidates, routes>>
    BY <1>7 DEF Start
  <2>2. routes' = <<>> /\ candidates' = {} /\ seen' = {}
    BY <2>1 DEF SearchOK, Idle
  <2>3. IsFiniteSet({})
    BY FS_EmptySet
  <2>4. FoundOK'
    BY <2>2, <2>3 DEF FoundOK
  <2> QED
    BY <1>2, <1>3, <2>1, <2>4 DEF SearchOK, Serving
<1>8. CASE NextSubset
  <2>1. pc = "search" /\ UNCHANGED <<options, pc, seen, candidates, routes>>
    BY <1>8 DEF NextSubset
  <2>2. FoundOK'
    BY <1>1, <2>1, FoundStays DEF SearchOK
  <2> QED
    BY <1>2, <1>3, <2>1, <2>2 DEF SearchOK, Serving
<1>9. CASE TryThreshold
  <2>. DEFINE n == Min(left)
              basket == Basket(Within(subset, n))
              used == Used(basket)
              tour == IF used \in DOMAIN routes THEN routes[used] ELSE ShortestTour(request.layout, used)
              entry == [basket |-> basket, tour |-> tour,
                        material |-> Total(basket), cost |-> Cost(basket, tour)]
  <2>1. /\ pc = "search" /\ UNCHANGED <<options, pc>>
        /\ IF Fits(subset, n) /\ Mark(subset, n) \notin seen
           THEN /\ seen' = seen \cup {Mark(subset, n)}
                /\ routes' = [k \in DOMAIN routes \cup {used} |-> IF k = used THEN tour ELSE routes[k]]
                /\ candidates' = candidates \cup {entry}
           ELSE UNCHANGED <<seen, candidates, routes>>
    BY <1>9 DEF TryThreshold, Remember, Fits, Mark
  <2>2. FoundOK /\ Complete(Basket(OnRoute)) /\ options = Offered
    BY <2>1 DEF SearchOK
  <2>3. tour = ShortestTour(request.layout, used)
    BY <2>2 DEF FoundOK
  <2>4. entry = Entry(subset, n) /\ Entry(subset, n).basket = basket
    <3>1. Within(subset, n) \subseteq OnRoute
      BY RouteIs
    <3>. DEFINE deal == Deal(Within(subset, n))
    <3>2. deal.basket = basket /\ deal.tour = ShortestTour(request.layout, Used(deal.basket))
      BY <3>1, DealIs
    <3>3. deal = [basket |-> basket, tour |-> Exhaustive(request.layout, used),
                  material |-> Total(basket), cost |-> Cost(basket, Exhaustive(request.layout, used))]
      BY DEF Deal
    <3>4. Exhaustive(request.layout, used) = tour
      BY <3>2, <3>3, <2>3
    <3> HIDE DEF tour, basket
    <3> QED
      BY <3>3, <3>4 DEF Entry
  <2>5. Mark(subset, n) = Signature(entry.basket)
    BY DEF Mark
  <2> HIDE DEF entry, tour, used, basket, n
  <2>6. CASE Fits(subset, n) /\ Mark(subset, n) \notin seen
    <3>1. IsFiniteSet(candidates')
      <4>1. IsFiniteSet(candidates)
        BY <2>2 DEF FoundOK
      <4>2. IsFiniteSet(candidates \cup {entry})
        BY <4>1, FS_AddElement
      <4> QED
        BY <4>2, <2>1, <2>6
    <3>2. \A k \in DOMAIN routes' : routes'[k] = ShortestTour(request.layout, k)
      BY <2>1, <2>2, <2>3, <2>6 DEF FoundOK
    <3>3. \A c \in candidates' : \E t, m : Fits(t, m) /\ c = Entry(t, m)
      BY <2>1, <2>2, <2>4, <2>6 DEF FoundOK
    <3>4. seen' = {Signature(c.basket) : c \in candidates'}
      <4>1. seen = {Signature(c.basket) : c \in candidates}
        BY <2>2 DEF FoundOK
      <4>2. seen' = seen \cup {Signature(entry.basket)} /\ candidates' = candidates \cup {entry}
        BY <2>1, <2>5, <2>6
      <4> QED
        BY <4>1, <4>2
    <3>5. \A t, m : (Fits(t, m)' <=> Fits(t, m)) /\ Entry(t, m)' = Entry(t, m)
      BY <1>1, DealStays
    <3>6. \A c \in candidates' : \E t, m : Fits(t, m)' /\ c = Entry(t, m)'
      BY <3>3, <3>5
    <3>7. FoundOK'
      BY <1>1, <3>1, <3>2, <3>4, <3>6 DEF FoundOK, Signature
    <3> QED
      BY <1>2, <1>3, <2>1, <2>2, <3>7 DEF SearchOK, Serving
  <2>7. CASE ~ (Fits(subset, n) /\ Mark(subset, n) \notin seen)
    <3>1. UNCHANGED <<seen, candidates, routes>>
      BY <2>1, <2>7
    <3>2. FoundOK'
      BY <1>1, <2>2, <3>1, FoundStays
    <3> QED
      BY <1>2, <1>3, <2>1, <2>2, <3>2 DEF SearchOK, Serving
  <2> QED
    BY <2>6, <2>7
<1>10. CASE Answer
  <2>1. pc = "search" /\ pc' = "answered" /\ UNCHANGED <<options, search>>
    BY <1>10 DEF Answer
  <2>2. strategies' = Reply
    BY <1>10, <2>1 DEF Answer, Reply, SearchOK
  <2>3. FoundOK'
    BY <1>1, <2>1, FoundStays DEF SearchOK, search
  <2>4. Reply' = Reply
    BY <1>1, <2>1, ReplyStays DEF search
  <2> QED
    BY <1>2, <2>1, <2>2, <2>3, <2>4 DEF SearchOK, Serving
<1> QED
  BY <1>5, <1>6, <1>7, <1>8, <1>9, <1>10 DEF Next

\* The search finds nothing but deals.
LEMMA SearchStep ==
    ASSUME SearchOK, RequestTypeOK, [RequestNext]_<<vars, requestVars>> PROVE SearchOK'
<1>1. CASE Served /\ (Resolve \/ BuildLive \/ BuildCatalogues \/ AskCatalogue \/ Locate \/ LiveFails
                      \/ Compare)
  <2>1. UNCHANGED <<options, search, strategies>> /\ pc \in Serving
        /\ pc' \in Serving \cup {"failed", "asked", "refused"}
    BY <1>1 DEF Resolve, BuildLive, BuildCatalogues, AskCatalogue, Locate, LiveFails, Compare,
       Serving, Asking
  <2> QED
    BY <2>1 DEF SearchOK, Serving, Idle, search
<1>2. CASE Served /\ \E kind \in {"gedimat", "brico"} : AskStore(kind)
  <2>1. UNCHANGED <<options, search, strategies, pc>> /\ pc \in Serving
    BY <1>2 DEF AskStore, Asking, Serving
  <2> QED
    BY <2>1 DEF SearchOK, Serving, Idle, search
<1>3. CASE Served /\ (SetSupplierActive \/ SetCatalogActive \/ SyncStores)
  <2>1. UNCHANGED <<options, search, strategies, pc>> /\ pc \in Serving
    BY <1>3 DEF SetSupplierActive, SetCatalogActive, SyncStores, Edit, vars
  <2> QED
    BY <2>1 DEF SearchOK, Serving, Idle, search
<1>4. CASE Next
  <2>1. GivenSearch
    BY <1>4, SearchKeeps DEF RequestTypeOK, Asked, GivenOK, GivenSearch, RequestOK
  <2> QED
    BY <1>4, <2>1, SearchSteps
<1>5. CASE UNCHANGED <<vars, requestVars>>
  <2>1. UNCHANGED <<request, options, pc, subset, left, seen, candidates, routes, strategies>>
    BY <1>5 DEF vars, search
  <2>2. Offered' = Offered /\ Reply' = Reply /\ (Complete(Basket(OnRoute))' <=> Complete(Basket(OnRoute)))
    BY <2>1, OfferedStays, ReplyStays, DealStays DEF Complete
  <2>3. FoundOK => FoundOK'
    BY <2>1, FoundStays
  <2> QED
    BY <2>1, <2>2, <2>3 DEF SearchOK, Idle
<1> QED
  BY <1>1, <1>2, <1>3, <1>4, <1>5, RequestSteps

\* The candidates can be ranked.
LEMMA CandidateIs ==
    ASSUME GivenSearch, FoundOK, NEW c \in candidates
    PROVE  /\ \E t, n : Fits(t, n) /\ c = Deal(Within(t, n)) /\ Mark(t, n) = Signature(c.basket)
                        /\ c.basket = Basket(Within(t, n))
           /\ c.tour = Exhaustive(request.layout, Used(c.basket))
           /\ Len(c.tour.order) = Cardinality(Used(c.basket)) /\ IsFiniteSet(Used(c.basket))
           /\ c.cost \in Int /\ c.material \in Int
           /\ CostRank(c) \in Seq(Int) /\ Len(CostRank(c)) = Len(c.tour.order) + 4
           /\ CostRank(c)[1] = c.cost /\ CostRank(c)[2] = c.material
           /\ CostRank(c)[3] = Len(c.tour.order) /\ Len(c.tour.order) \in Nat
<1>1. PICK t, n : Fits(t, n) /\ c = Entry(t, n)
  BY DEF FoundOK
<1>2. Within(t, n) \subseteq OnRoute
  BY RouteIs
<1>. DEFINE deal == Deal(Within(t, n))
<1>3. c = deal
  BY <1>1 DEF Entry
<1>4. /\ deal.basket = Basket(Within(t, n)) /\ Placed(request.layout, Used(deal.basket))
      /\ deal.tour = ShortestTour(request.layout, Used(deal.basket))
      /\ deal.tour.order \in Seq(Int) /\ Len(deal.tour.order) = Cardinality(Used(deal.basket))
      /\ deal.tour.time \in Nat /\ deal.material \in Int /\ deal.cost \in Int
  BY <1>2, DealIs
<1> HIDE DEF deal
<1>5. /\ c.tour = Exhaustive(request.layout, Used(c.basket)) /\ IsFiniteSet(Used(c.basket))
  BY <1>3, <1>4, ShortestTourIs DEF Placed
<1>. DEFINE order == c.tour.order
            four == <<c.cost, c.material, Len(order), c.tour.time>>
<1>6. order \in Seq(Int) /\ Len(order) \in Nat /\ c.cost \in Int /\ c.material \in Int /\ c.tour.time \in Int
  BY <1>3, <1>4, LenProperties
<1>7. CostRank(c) = four \o order
  BY DEF CostRank
<1> HIDE DEF order
<1>8. /\ four \in Seq(Int) /\ Len(four) = 4
      /\ four[1] = c.cost /\ four[2] = c.material /\ four[3] = Len(order)
  BY <1>6
<1> HIDE DEF four
<1>9. /\ four \o order \in Seq(Int) /\ Len(four \o order) = 4 + Len(order)
      /\ \A i \in 1..4 : (four \o order)[i] = four[i]
  <2>1. /\ four \o order \in Seq(Int) /\ Len(four \o order) = Len(four) + Len(order)
        /\ \A i \in 1..Len(four) : (four \o order)[i] = four[i]
    BY <1>6, <1>8, BothAre
  <2> QED
    BY <2>1, <1>8
<1>10. /\ CostRank(c) \in Seq(Int) /\ Len(CostRank(c)) = Len(order) + 4
       /\ CostRank(c)[1] = c.cost /\ CostRank(c)[2] = c.material /\ CostRank(c)[3] = Len(order)
  BY <1>6, <1>7, <1>8, <1>9
<1>11. \E u, m : Fits(u, m) /\ c = Deal(Within(u, m)) /\ Mark(u, m) = Signature(c.basket)
                 /\ c.basket = Basket(Within(u, m))
  <2>1. c = Deal(Within(t, n)) /\ c.basket = Basket(Within(t, n))
    BY <1>3, <1>4 DEF deal
  <2>2. Mark(t, n) = Signature(c.basket)
    BY <2>1 DEF Mark
  <2> QED
    BY <1>1, <2>1, <2>2
<1>12. Len(order) = Cardinality(Used(c.basket))
  BY <1>3, <1>4 DEF order
<1> QED
  BY <1>5, <1>6, <1>10, <1>11, <1>12 DEF order

\* The cheapest of the candidates: none costs less.
LEMMA CheapestIs ==
    ASSUME GivenSearch, FoundOK, NEW F, F \subseteq candidates, F # {}
    PROVE  Cheapest(F) \in F /\ \A c \in F : Cheapest(F).cost <= c.cost
<1>. DEFINE key == [c \in F |-> CostRank(c)]
<1>1. \A c \in F : key[c] \in Seq(Int) /\ 3 <= Len(key[c]) /\ key[c][1] = c.cost /\ c.cost \in Int
                  /\ key[c][3] = Len(c.tour.order) /\ Len(key[c]) = Len(c.tour.order) + 4
  BY CandidateIs
<1>2. IsFiniteSet(DOMAIN key) /\ DOMAIN key = F
  BY FS_Subset DEF FoundOK
<1>3. Cheapest(F) = Least(key)
  BY DEF Cheapest
<1> HIDE DEF key
<1>4. Ranked(key, 3)
  <2>1. \A x \in DOMAIN key : key[x] \in Seq(Int) /\ 3 <= Len(key[x])
    BY <1>1, <1>2
  <2>2. ASSUME NEW x \in DOMAIN key, NEW y \in DOMAIN key, key[x][3] = key[y][3]
        PROVE  Len(key[x]) = Len(key[y])
    <3>1. /\ key[x][3] = Len(x.tour.order) /\ Len(key[x]) = Len(x.tour.order) + 4
          /\ key[y][3] = Len(y.tour.order) /\ Len(key[y]) = Len(y.tour.order) + 4
      BY <1>1, <1>2
    <3> QED
      BY <2>2, <3>1
  <2> QED
    BY <2>1, <2>2, RankedIs, 3 \in Nat \ {0}
<1>5. /\ Least(key) \in DOMAIN key
      /\ \A y \in DOMAIN key : ~ Before(key[y], key[Least(key)])
  BY <1>2, <1>4, LeastIs
<1>. DEFINE b == Least(key)
<1> HIDE DEF b
<1>6. ASSUME NEW c \in F PROVE b.cost <= c.cost
  <2>1. 1 \in DOMAIN key[c] /\ b \in F /\ ~ Before(key[c], key[b])
    BY <1>1, <1>2, <1>5 DEF b
  <2>2. ~ (key[c][1] < key[b][1])
    BY <2>1 DEF Before
  <2>3. key[c][1] = c.cost /\ key[b][1] = b.cost /\ c.cost \in Int /\ b.cost \in Int
    BY <1>1, <2>1
  <2> QED
    BY <2>2, <2>3
<1> QED
  BY <1>2, <1>3, <1>5, <1>6 DEF b

\* The cheapest by the materials, then by the cost.
LEMMA LightestIs ==
    ASSUME GivenSearch, FoundOK, candidates # {}
    PROVE  LET best == Least([c \in candidates |-> <<c.material>> \o CostRank(c)]) IN
           /\ best \in candidates
           /\ \A c \in candidates :
                  best.material < c.material \/ (best.material = c.material /\ best.cost <= c.cost)
<1>. DEFINE F == candidates
            key == [c \in F |-> <<c.material>> \o CostRank(c)]
<1>1. ASSUME NEW c \in F
      PROVE  /\ key[c] \in Seq(Int) /\ 4 <= Len(key[c]) /\ Len(key[c]) = Len(c.tour.order) + 5
             /\ key[c][1] = c.material /\ key[c][2] = c.cost /\ key[c][4] = Len(c.tour.order)
             /\ c.material \in Int /\ c.cost \in Int
  <2>. DEFINE one == <<c.material>>
              rank == CostRank(c)
  <2>1. /\ c.cost \in Int /\ c.material \in Int /\ Len(c.tour.order) \in Nat
        /\ rank \in Seq(Int) /\ Len(rank) = Len(c.tour.order) + 4
        /\ rank[1] = c.cost /\ rank[3] = Len(c.tour.order)
    BY CandidateIs
  <2>2. one \in Seq(Int) /\ Len(one) = 1 /\ one[1] = c.material
    BY <2>1
  <2>3. key[c] = one \o rank
    OBVIOUS
  <2> HIDE DEF one, rank, key
  <2>4. /\ one \o rank \in Seq(Int) /\ Len(one \o rank) = Len(one) + Len(rank)
        /\ \A i \in 1..Len(one) : (one \o rank)[i] = one[i]
        /\ \A i \in 1..Len(rank) : (one \o rank)[Len(one) + i] = rank[i]
    <3>1. one \in Seq(Int) /\ rank \in Seq(Int)
      BY <2>1, <2>2
    <3> QED
      BY <3>1, BothAre
  <2>. DEFINE m == Len(rank)
              l == Len(c.tour.order)
              r == one \o rank
  <2>5. m = l + 4 /\ l \in Nat
    BY <2>1
  <2>6. r \in Seq(Int) /\ Len(r) = 1 + m /\ r[1] = one[1] /\ \A i \in 1..m : r[1 + i] = rank[i]
    BY <2>2, <2>4
  <2> HIDE DEF m, l, r
  <2>7. r[1 + 1] = rank[1] /\ r[1 + 3] = rank[3]
    BY <2>5, <2>6
  <2>8. r[2] = rank[1] /\ r[4] = rank[3] /\ Len(r) = l + 5 /\ 4 <= Len(r)
    BY <2>5, <2>6, <2>7
  <2>9. key[c] = r /\ l = Len(c.tour.order)
    BY <2>3 DEF r, l
  <2> QED
    BY <2>1, <2>2, <2>6, <2>8, <2>9
<1>2. IsFiniteSet(DOMAIN key) /\ DOMAIN key = F /\ F # {}
  BY DEF FoundOK
<1> HIDE DEF key, F
<1>4. Ranked(key, 4)
  <2>1. \A x \in DOMAIN key : key[x] \in Seq(Int) /\ 4 <= Len(key[x])
    BY <1>1, <1>2
  <2>2. ASSUME NEW x \in DOMAIN key, NEW y \in DOMAIN key, key[x][4] = key[y][4]
        PROVE  Len(key[x]) = Len(key[y])
    <3>1. /\ key[x][4] = Len(x.tour.order) /\ Len(key[x]) = Len(x.tour.order) + 5
          /\ key[y][4] = Len(y.tour.order) /\ Len(key[y]) = Len(y.tour.order) + 5
      BY <1>1, <1>2
    <3> QED
      BY <2>2, <3>1
  <2> QED
    BY <2>1, <2>2, RankedIs, 4 \in Nat \ {0}
<1>5. /\ Least(key) \in DOMAIN key
      /\ \A y \in DOMAIN key : ~ Before(key[y], key[Least(key)])
  BY <1>2, <1>4, LeastIs
<1>. DEFINE b == Least(key)
<1> HIDE DEF b
<1>6. ASSUME NEW c \in F
      PROVE  b.material < c.material \/ (b.material = c.material /\ b.cost <= c.cost)
  <2>1. b \in F /\ ~ Before(key[c], key[b])
    BY <1>2, <1>5 DEF b
  <2>2. /\ key[c][1] = c.material /\ key[b][1] = b.material
        /\ key[c][2] = c.cost /\ key[b][2] = b.cost
        /\ c.cost \in Int /\ b.cost \in Int /\ c.material \in Int /\ b.material \in Int
        /\ 1 \in DOMAIN key[c] /\ 2 \in DOMAIN key[c]
    BY <1>1, <2>1
  <2>3. ~ (c.material < b.material)
    <3>1. ~ (key[c][1] < key[b][1])
      BY <2>1, <2>2 DEF Before
    <3> QED
      BY <2>2, <3>1
  <2>4. c.material = b.material => ~ (c.cost < b.cost)
    <3>1. ASSUME c.material = b.material PROVE ~ (key[c][2] < key[b][2])
      <4>1. \A j \in 1..(2 - 1) : key[c][j] = key[b][j]
        BY <2>2, <3>1
      <4> QED
        BY <2>1, <2>2, <4>1 DEF Before
    <3> QED
      BY <2>2, <3>1
  <2> QED
    BY <2>2, <2>3, <2>4
<1> QED
  BY <1>2, <1>5, <1>6 DEF b, key, F

\* Every basket that is answered is one of some of the offers.
LEMMA AnsweredBaskets ==
    ASSUME GivenSearch, FoundOK, strategies = Reply, NEW k \in DOMAIN strategies, strategies[k] # None
    PROVE  \E S \in SUBSET request.offers : strategies[k].basket = Basket(S)
<1>. DEFINE national == National(Basket(Eligible))
            singles == {c \in candidates : Len(c.tour.order) = 1}
            best == Least([c \in candidates |-> <<c.material>> \o CostRank(c)])
<1>1. national.basket = Basket(Eligible) /\ Eligible \in SUBSET request.offers
  BY RouteIs DEF National
<1>2. \A c \in candidates : \E S \in SUBSET request.offers : c.basket = Basket(S)
  <2> SUFFICES ASSUME NEW c \in candidates PROVE \E S \in SUBSET request.offers : c.basket = Basket(S)
    OBVIOUS
  <2>1. PICK t, n : c.basket = Basket(Within(t, n))
    BY CandidateIs
  <2>2. Within(t, n) \in SUBSET request.offers
    BY RouteIs
  <2> QED
    BY <2>1, <2>2
<1>3. singles # {} => Cheapest(singles) \in candidates
  <2>1. singles \subseteq candidates
    OBVIOUS
  <2> HIDE DEF singles
  <2> QED
    BY <2>1, CheapestIs
<1>4. candidates # {} => Cheapest(candidates) \in candidates /\ best \in candidates
  <2>1. candidates \subseteq candidates
    OBVIOUS
  <2> QED
    BY <2>1, CheapestIs, LightestIs
<1>5. MinimumOf(candidates) \in {national, best}
  BY DEF MinimumOf
<1> HIDE DEF best, national
<1>6. strategies[k] \in {national, None, MinimumOf(candidates)} \/ strategies[k] = Cheapest(singles)
      \/ (candidates # {} /\ strategies[k] = Cheapest(candidates))
  BY DEF Reply, national
<1>7. candidates = {} => strategies[k] \in {national, None}
  BY DEF Reply, national
<1>8. singles = {} => strategies[k] \in {national, None, MinimumOf(candidates)}
                      \/ (candidates # {} /\ strategies[k] = Cheapest(candidates))
  BY DEF Reply, national
<1> HIDE DEF singles
<1>9. strategies[k] = national \/ strategies[k] \in candidates
  BY <1>3, <1>4, <1>5, <1>6, <1>7, <1>8
<1> QED
  BY <1>1, <1>2, <1>9

-----------------------------------------------------------------------------
(* What the stores said *)

KindOf(o) == IF o.supplier = Gedimat THEN "gedimat" ELSE "brico"

SlotOf(o) == <<KindOf(o), o.shop, o.ref>>

\* The offer is what the row says.
AsTold(o, row) ==
    IF o.supplier = Gedimat
    THEN /\ o.fulfillment = row.sold /\ o.stock = row.stock
         /\ row.price # None => o.price = row.price
         /\ row.price # None \/ row.sold = "unavailable"
    ELSE /\ row.price # None /\ o.price = row.price
         /\ o.stock = InStore(row) /\ o.fulfillment = "stock"

\* Of each store and reference one of the offers is what the rows r say.
ToldBy(X, r) ==
    \A o \in X : Live(o) =>
        /\ o.supplier \in {Gedimat, BricoLive} /\ SlotOf(o) \in DOMAIN r
        /\ \E q \in X : /\ Live(q) /\ q.supplier = o.supplier /\ q.shop = o.shop /\ q.ref = o.ref
                        /\ AsTold(q, r[SlotOf(o)])

\* Offers told by the rows, and others.
LEMMA ToldUnion ==
    ASSUME NEW X, NEW Y, NEW r, ToldBy(X, r), ToldBy(Y, r) PROVE ToldBy(X \cup Y, r)
  BY DEF ToldBy

\* A row changes nothing for the offers of other rows.
LEMMA ToldElsewhere ==
    ASSUME NEW X, NEW r, NEW s, ToldBy(X, r),
           \A o \in X : Live(o) => SlotOf(o) \in DOMAIN s /\ s[SlotOf(o)] = r[SlotOf(o)]
    PROVE  ToldBy(X, s)
  BY DEF ToldBy

\* The offers of the store that answers.
LEMMA OffersAsTold ==
    ASSUME CaseOK(the), NEW kind \in {"gedimat", "brico"}, NEW store
    PROVE  LET offers == IF kind = "gedimat" THEN GedimatOffers(store) ELSE BricoOffers(store)
               told(ref) == rows'[<<kind, store.shop, ref>>]
           IN  /\ \A o \in offers :
                      /\ Live(o) /\ o.supplier \in {Gedimat, BricoLive} /\ KindOf(o) = kind
                      /\ o.shop = store.shop /\ o.ref \in References(kind) /\ AsTold(o, told(o.ref))
               /\ \A ref \in References(kind) : Telling(kind, told(ref)) =>
                      \E o \in offers : o.ref = ref
<1>1. CASE kind = "gedimat"
  <2>. DEFINE row(m) == rows'[<<"gedimat", store.shop, m.ref>>]
              made == {m \in Mapped("gedimat") : row(m).price # None \/ row(m).sold = "unavailable"}
              offer(m) == LiveOffer(m, store, IF row(m).price = None THEN 0 ELSE row(m).price,
                                    row(m).stock, row(m).sold, Gedimat)
  <2>1. GedimatOffers(store) = {offer(m) : m \in made}
    BY DEF GedimatOffers
  <2>2. ASSUME NEW m \in made
        PROVE  /\ Live(offer(m)) /\ offer(m).supplier = Gedimat /\ offer(m).shop = store.shop
               /\ offer(m).ref = m.ref /\ KindOf(offer(m)) = "gedimat" /\ AsTold(offer(m), row(m))
    BY DEF Live, LiveOffer, KindOf, AsTold
  <2>3. \A m \in made : m.ref \in References("gedimat")
    BY DEF References
  <2>4. ASSUME NEW ref \in References("gedimat"),
               Telling("gedimat", rows'[<<"gedimat", store.shop, ref>>])
        PROVE  \E m \in made : m.ref = ref
    BY <2>4, MappedAre DEF Telling
  <2>5. ASSUME NEW o \in GedimatOffers(store)
        PROVE  /\ Live(o) /\ o.supplier = Gedimat /\ KindOf(o) = "gedimat"
               /\ o.shop = store.shop /\ o.ref \in References("gedimat")
               /\ AsTold(o, rows'[<<"gedimat", store.shop, o.ref>>])
    <3>1. PICK m \in made : o = offer(m)
      BY <2>1
    <3> HIDE DEF offer
    <3>2. o.ref = m.ref
      BY <3>1, <2>2
    <3> QED
      BY <3>1, <3>2, <2>2, <2>3
  <2>6. ASSUME NEW ref \in References("gedimat"),
               Telling("gedimat", rows'[<<"gedimat", store.shop, ref>>])
        PROVE  \E o \in GedimatOffers(store) : o.ref = ref
    <3>1. PICK m \in made : m.ref = ref
      BY <2>4, <2>6
    <3> HIDE DEF offer, made
    <3> QED
      BY <3>1, <2>1, <2>2
  <2> QED
    BY <1>1, <2>5, <2>6
<1>2. CASE kind = "brico"
  <2>. DEFINE row(m) == rows'[<<"brico", store.shop, m.ref>>]
              made == {m \in Mapped("brico") : row(m).price # None}
              offer(m) == LiveOffer(m, store, row(m).price, InStore(row(m)), "stock", BricoLive)
  <2>1. BricoOffers(store) = {offer(m) : m \in made}
    BY DEF BricoOffers
  <2>2. ASSUME NEW m \in made
        PROVE  /\ Live(offer(m)) /\ offer(m).supplier = BricoLive /\ offer(m).shop = store.shop
               /\ offer(m).ref = m.ref /\ KindOf(offer(m)) = "brico" /\ AsTold(offer(m), row(m))
    BY BrandsAssumption DEF Live, LiveOffer, KindOf, AsTold
  <2>3. \A m \in made : m.ref \in References("brico")
    BY DEF References
  <2>4. ASSUME NEW ref \in References("brico"),
               Telling("brico", rows'[<<"brico", store.shop, ref>>])
        PROVE  \E m \in made : m.ref = ref
    BY <2>4, MappedAre DEF Telling
  <2>5. ASSUME NEW o \in BricoOffers(store)
        PROVE  /\ Live(o) /\ o.supplier = BricoLive /\ KindOf(o) = "brico"
               /\ o.shop = store.shop /\ o.ref \in References("brico")
               /\ AsTold(o, rows'[<<"brico", store.shop, o.ref>>])
    <3>1. PICK m \in made : o = offer(m)
      BY <2>1
    <3> HIDE DEF offer
    <3>2. o.ref = m.ref
      BY <3>1, <2>2
    <3> QED
      BY <3>1, <3>2, <2>2, <2>3
  <2>6. ASSUME NEW ref \in References("brico"),
               Telling("brico", rows'[<<"brico", store.shop, ref>>])
        PROVE  \E o \in BricoOffers(store) : o.ref = ref
    <3>1. PICK m \in made : m.ref = ref
      BY <2>4, <2>6
    <3> HIDE DEF offer, made
    <3> QED
      BY <3>1, <2>1, <2>2
  <2> QED
    BY <1>2, <2>5, <2>6, "brico" # "gedimat"
<1> QED
  BY <1>1, <1>2

\* A store that answers changes the rows of its references: each of them gives an
\* offer again where it gave one.
LEMMA ToldAnew ==
    ASSUME Served, NEW kind \in {"gedimat", "brico"}, AskStore(kind), ToldBy(found, rows)
    PROVE  LET offers == IF kind = "gedimat" THEN GedimatOffers(Here) ELSE BricoOffers(Here)
           IN  /\ ToldBy(found \cup offers, rows')
               /\ \A o \in offers : Live(o) /\ KindOf(o) = kind
<1>. DEFINE offers == IF kind = "gedimat" THEN GedimatOffers(Here) ELSE BricoOffers(Here)
            told(ref) == rows'[<<kind, Here.shop, ref>>]
<1>1. /\ DOMAIN rows \subseteq DOMAIN rows'
      /\ \A ref \in References(kind) :
             /\ <<kind, Here.shop, ref>> \in DOMAIN rows'
             /\ Telling(kind, Row(kind, Here.shop, ref)) => Telling(kind, told(ref))
      /\ \A slot \in DOMAIN rows :
             ~ (slot[1] = kind /\ slot[2] = Here.shop /\ slot[3] \in References(kind)) =>
                 rows'[slot] = rows[slot]
  BY RowsAfter DEF Served
<1>2. /\ \A o \in offers :
             /\ Live(o) /\ o.supplier \in {Gedimat, BricoLive} /\ KindOf(o) = kind
             /\ o.shop = Here.shop /\ o.ref \in References(kind) /\ AsTold(o, told(o.ref))
      /\ \A ref \in References(kind) : Telling(kind, told(ref)) => \E o \in offers : o.ref = ref
  BY OffersAsTold DEF Served
<1> HIDE DEF offers
<1>3. ASSUME NEW o \in offers
      PROVE  /\ o.supplier \in {Gedimat, BricoLive} /\ SlotOf(o) \in DOMAIN rows'
             /\ AsTold(o, rows'[SlotOf(o)])
  BY <1>1, <1>2 DEF SlotOf
<1>4. ASSUME NEW o \in found, Live(o)
      PROVE  /\ o.supplier \in {Gedimat, BricoLive} /\ SlotOf(o) \in DOMAIN rows'
             /\ \E q \in found \cup offers :
                    /\ Live(q) /\ q.supplier = o.supplier /\ q.shop = o.shop /\ q.ref = o.ref
                    /\ AsTold(q, rows'[SlotOf(o)])
  <2>1. o.supplier \in {Gedimat, BricoLive} /\ SlotOf(o) \in DOMAIN rows
    BY <1>4 DEF ToldBy
  <2>2. PICK q \in found : /\ Live(q) /\ q.supplier = o.supplier /\ q.shop = o.shop /\ q.ref = o.ref
                           /\ AsTold(q, rows[SlotOf(o)])
    BY <1>4 DEF ToldBy
  <2>3. CASE KindOf(o) = kind /\ o.shop = Here.shop /\ o.ref \in References(kind)
    <3>1. SlotOf(o) = <<kind, Here.shop, o.ref>>
      BY <2>3 DEF SlotOf
    <3>2. Row(kind, Here.shop, o.ref) = rows[SlotOf(o)]
      BY <3>1, <2>1 DEF Row
    <3>3. Telling(kind, rows[SlotOf(o)])
      BY <2>2, <2>3, BrandsAssumption DEF AsTold, Telling, KindOf
    <3>4. Telling(kind, told(o.ref))
      BY <1>1, <2>3, <3>2, <3>3
    <3>5. PICK p \in offers : p.ref = o.ref
      BY <1>2, <2>3, <3>4
    <3>6. /\ Live(p) /\ p.supplier \in {Gedimat, BricoLive} /\ KindOf(p) = kind
          /\ p.shop = o.shop /\ AsTold(p, told(p.ref))
      BY <1>2, <2>3
    <3>7. p.supplier = o.supplier
      BY <2>1, <2>3, <3>6 DEF KindOf
    <3>8. AsTold(p, rows'[SlotOf(o)])
      BY <3>1, <3>5, <3>6
    <3> QED
      BY <1>1, <2>1, <3>5, <3>6, <3>7, <3>8
  <2>4. CASE ~ (KindOf(o) = kind /\ o.shop = Here.shop /\ o.ref \in References(kind))
    <3>1. SlotOf(o)[1] = KindOf(o) /\ SlotOf(o)[2] = o.shop /\ SlotOf(o)[3] = o.ref
      BY DEF SlotOf
    <3>2. rows'[SlotOf(o)] = rows[SlotOf(o)]
      BY <1>1, <2>1, <2>4, <3>1
    <3> QED
      BY <1>1, <2>1, <2>2, <3>2
  <2> QED
    BY <2>3, <2>4
<1>5. ToldBy(found \cup offers, rows')
  BY <1>2, <1>3, <1>4 DEF ToldBy
<1> QED
  BY <1>2, <1>5 DEF offers

\* Each live brand is asked once; what it said is collected when it is done.
BrandsApart ==
    /\ \A i, j \in DOMAIN todo : i # j /\ todo[i].kind # "catalogue" => todo[i].kind # todo[j].kind
    /\ \A o \in found : Live(o) => todo # <<>> /\ Head(todo).kind = KindOf(o)
    /\ \A o \in collected : Live(o) => \A i \in DOMAIN todo : todo[i].kind # KindOf(o)

TellingOK ==
    pc \in Serving \cup Asked =>
        /\ ToldBy(found, rows) /\ ToldBy(collected, rows)
        /\ pc \in Serving => BrandsApart

\* Nothing was told at first.
LEMMA TellingInit == RequestInit => TellingOK
  BY DEF RequestInit, Init, TellingOK, BrandsApart, ToldBy

\* What is collected was told, when the next connector is asked
LEMMA TellingProceed ==
    ASSUME TodoOK, todo # <<>>, BrandsApart, Head(todo).kind # "catalogue",
           NEW stores \in Seq(AskedStores), NEW offers, Proceed(stores, offers),
           \A o \in offers : Live(o) => KindOf(o) = Head(todo).kind,
           ToldBy(offers, rows'), ToldBy(collected, rows')
    PROVE  ToldBy(found', rows') /\ ToldBy(collected', rows') /\ BrandsApart'
<1>1. Head(todo) = todo[1] /\ 1 \in DOMAIN todo
  BY TailKeeps
<1>2. /\ \A i \in DOMAIN todo' : \E j \in DOMAIN todo :
            Same(todo'[i], todo[j]) /\ (stores = <<>> => j = i + 1) /\ (stores # <<>> => j = i)
      /\ stores # <<>> => todo' # <<>> /\ Same(Head(todo'), Head(todo))
  BY ProceedKeeps
<1>3. DOMAIN todo' \subseteq Nat \ {0}
  <2>1. DOMAIN todo \subseteq Nat \ {0} /\ \A i \in DOMAIN Tail(todo) : i \in Nat \ {0}
    <3>1. todo \in Seq(Fit) /\ Tail(todo) \in Seq(Fit)
      BY HeadTailProperties DEF TodoOK
    <3>2. DOMAIN todo = 1..Len(todo) /\ DOMAIN Tail(todo) = 1..Len(Tail(todo))
          /\ Len(todo) \in Nat /\ Len(Tail(todo)) \in Nat
      BY <3>1, LenProperties
    <3> QED
      BY <3>2
  <2> QED
    BY <1>2, <2>1 DEF Proceed
<1>4. /\ \A i \in DOMAIN todo' : stores = <<>> => i + 1 \in DOMAIN todo /\ todo'[i].kind = todo[i + 1].kind
      /\ \A i \in DOMAIN todo' : stores # <<>> => i \in DOMAIN todo /\ todo'[i].kind = todo[i].kind
  BY <1>2 DEF Same
<1>5. \A i, j \in DOMAIN todo' : i # j /\ todo'[i].kind # "catalogue" => todo'[i].kind # todo'[j].kind
  <2> SUFFICES ASSUME NEW i \in DOMAIN todo', NEW j \in DOMAIN todo', i # j, todo'[i].kind # "catalogue"
               PROVE  todo'[i].kind # todo'[j].kind
    OBVIOUS
  <2>1. i + 1 # j + 1
    BY <1>3
  <2>2. CASE stores = <<>>
    BY <2>1, <2>2, <1>4 DEF BrandsApart
  <2>3. CASE stores # <<>>
    BY <2>3, <1>4 DEF BrandsApart
  <2> QED
    BY <2>2, <2>3
<1>6. CASE stores = <<>>
  <2>1. collected' = collected \cup offers /\ found' = {}
    BY <1>6 DEF Proceed
  <2>2. \A i \in DOMAIN todo' : todo'[i].kind # Head(todo).kind
    <3> SUFFICES ASSUME NEW i \in DOMAIN todo' PROVE todo'[i].kind # Head(todo).kind
      OBVIOUS
    <3>1. i + 1 \in DOMAIN todo /\ todo'[i].kind = todo[i + 1].kind /\ i + 1 # 1
      BY <1>3, <1>4, <1>6
    <3> QED
      BY <1>1, <3>1 DEF BrandsApart
  <2>3. ASSUME NEW o \in collected', Live(o), NEW i \in DOMAIN todo' PROVE todo'[i].kind # KindOf(o)
    <3>1. CASE o \in collected
      BY <1>4, <1>6, <2>3, <3>1 DEF BrandsApart
    <3>2. CASE o \in offers
      BY <2>2, <2>3, <3>2
    <3> QED
      BY <2>1, <2>3, <3>1, <3>2
  <2>4. ToldBy(collected \cup offers, rows') /\ ToldBy({}, rows')
    BY ToldUnion DEF ToldBy
  <2>5. BrandsApart'
    BY <1>5, <2>1, <2>3 DEF BrandsApart, KindOf, Live
  <2> QED
    BY <2>1, <2>4, <2>5
<1>7. CASE stores # <<>>
  <2>1. collected' = collected /\ found' = offers
    BY <1>7 DEF Proceed
  <2>2. \A o \in offers : Live(o) => todo' # <<>> /\ Head(todo').kind = KindOf(o)
    BY <1>2, <1>7 DEF Same
  <2>3. \A o \in collected : Live(o) => \A i \in DOMAIN todo' : todo'[i].kind # KindOf(o)
    BY <1>4, <1>7 DEF BrandsApart
  <2>4. BrandsApart'
    BY <1>5, <2>1, <2>2, <2>3 DEF BrandsApart, KindOf, Live
  <2> QED
    BY <2>1, <2>4
<1> QED
  BY <1>6, <1>7

\* Where nothing is found the brands of the connectors alone matter.
LEMMA TellingNothing ==
    ASSUME found' = {}, collected' = {},
           \A i, j \in DOMAIN todo' : i # j /\ todo'[i].kind # "catalogue" => todo'[i].kind # todo'[j].kind
    PROVE  TellingOK'
  BY DEF TellingOK, BrandsApart, ToldBy

LEMMA TellingSame ==
    ASSUME TellingOK, UNCHANGED <<rows, found, collected>>,
           pc \in Serving \cup Asked,
           pc' \in Serving => pc \in Serving /\ UNCHANGED todo
    PROVE  TellingOK'
  BY DEF TellingOK, BrandsApart, ToldBy, SlotOf, KindOf, Live, AsTold

\* and after every action.
LEMMA TellingStep ==
    ASSUME RequestTypeOK, BrandsOK, TellingOK, [RequestNext]_<<vars, requestVars>> PROVE TellingOK'
<1>1. CASE Served /\ Resolve
  <2>1. UNCHANGED <<rows, todo, found, collected>> /\ pc = "received"
    BY <1>1 DEF Resolve, cached
  <2> QED
    BY <2>1, TellingSame DEF Serving
<1>2. CASE Served /\ BuildLive
  <2>1. /\ UNCHANGED <<found, collected>> /\ pc = "located" /\ todo' = LiveConnectors
    BY <1>2 DEF BuildLive
  <2>2. origin.place \in Int \X Int
    BY <1>2, <2>1 DEF Served, OriginOK
  <2>3. \A i, j \in DOMAIN LiveConnectors : i # j => LiveConnectors[i].kind # LiveConnectors[j].kind
    BY <1>2, <2>2, LiveConnectorsAre DEF Served
  <2>4. found = {} /\ collected = {}
    BY <2>1 DEF BrandsOK, AnswersOK, Serving
  <2> QED
    BY <2>1, <2>3, <2>4, TellingNothing
<1>3. CASE Served /\ BuildCatalogues
  <2>. DEFINE buyable == {n \in DOMAIN suppliers : suppliers[n] = TRUE} \ Replaced
              names == Sorted([n \in buyable |-> <<n>>])
              files == [i \in DOMAIN names |->
                         [kind |-> "catalogue", stores |-> None, name |-> names[i]]]
  <2>1. /\ UNCHANGED <<found, collected>> /\ pc = "listed" /\ todo' = files \o todo
    BY <1>3 DEF BuildCatalogues
  <2>2. names \in Seq(Nat \ {0})
    BY <1>3, CatalogueNames DEF Served
  <2> HIDE DEF names
  <2>3. DOMAIN names = 1..Len(names) /\ Len(names) \in Nat
    BY <2>2, LenProperties
  <2>4. files \in Seq(Connectors) /\ Len(files) = Len(names)
    <3>1. \A i \in 1..Len(names) : names[i] \in Nat \ {0}
      BY <2>2, ElementOfSeq
    <3>2. \A i \in 1..Len(names) : files[i] \in Connectors
      BY <3>1, <2>3 DEF Connectors
    <3>3. files = [i \in 1..Len(names) |-> files[i]]
      BY <2>3
    <3> HIDE DEF files
    <3> QED
      BY <3>2, <3>3, <2>3
  <2>5. \A i \in 1..Len(names) : files[i].kind = "catalogue"
    BY <2>3
  <2>6. todo \in Seq(Connectors)
    <3>1. Fit \subseteq Connectors
      BY DEF Fit
    <3> QED
      BY <1>3, <3>1, SeqMonotonic DEF Served, TodoOK
  <2> HIDE DEF files
  <2>7. /\ files \o todo \in Seq(Connectors) /\ Len(files \o todo) = Len(files) + Len(todo)
        /\ \A i \in 1..(Len(files) + Len(todo)) :
               (files \o todo)[i] = IF i <= Len(files) THEN files[i] ELSE todo[i - Len(files)]
    BY <2>4, <2>6, ConcatProperties
  <2>8. /\ DOMAIN todo' = 1..(Len(names) + Len(todo))
        /\ DOMAIN todo = 1..Len(todo) /\ Len(todo) \in Nat
    BY <2>1, <2>4, <2>6, <2>7, LenProperties
  <2>9. \A i \in 1..(Len(names) + Len(todo)) :
            todo'[i] = IF i <= Len(names) THEN files[i] ELSE todo[i - Len(names)]
    BY <2>1, <2>4, <2>7
  <2>10. BrandsApart
    BY <2>1 DEF TellingOK, Serving
  <2>11. ASSUME NEW i \in DOMAIN todo', NEW j \in DOMAIN todo', i # j, todo'[i].kind # "catalogue"
         PROVE  todo'[i].kind # todo'[j].kind
    <3>1. ~ (i <= Len(names)) /\ i - Len(names) \in DOMAIN todo /\ todo'[i] = todo[i - Len(names)]
      <4>1. ~ (i <= Len(names))
        BY <2>3, <2>5, <2>8, <2>9, <2>11
      <4> QED
        BY <4>1, <2>3, <2>8, <2>9
    <3>2. CASE j <= Len(names)
      BY <3>2, <2>3, <2>5, <2>8, <2>9, <2>11
    <3>3. CASE ~ (j <= Len(names))
      <4>1. j - Len(names) \in DOMAIN todo /\ todo'[j] = todo[j - Len(names)]
        BY <3>3, <2>3, <2>8, <2>9
      <4>2. i - Len(names) # j - Len(names)
        BY <2>3, <2>8, <2>11
      <4> QED
        BY <3>1, <4>1, <4>2, <2>10, <2>11 DEF BrandsApart
    <3> QED
      BY <3>2, <3>3
  <2>12. found = {} /\ collected = {}
    BY <2>1 DEF BrandsOK, AnswersOK, Serving
  <2> QED
    BY <2>1, <2>11, <2>12, TellingNothing
<1>4. CASE Served /\ AskCatalogue
  <2>1. /\ UNCHANGED <<pc, rows, found>>
        /\ pc = "collecting" /\ todo # <<>> /\ todo' = Tail(todo) /\ Head(todo).kind = "catalogue"
        /\ collected' = collected \cup
             {o \in OffersOf(the.shelf) : o.supplier = Head(todo).name /\ o.supplier \in opened}
    BY <1>4 DEF AskCatalogue, Asking, cached
  <2>2. \A i \in DOMAIN Tail(todo) : i + 1 \in DOMAIN todo /\ Tail(todo)[i] = todo[i + 1]
    BY <1>4, <2>1, TailKeeps DEF Served
  <2>3. DOMAIN Tail(todo) \subseteq Nat
    <3>1. Tail(todo) \in Seq(Fit)
      BY <1>4, <2>1, HeadTailProperties DEF Served, TodoOK
    <3> QED
      BY <3>1, LenProperties
  <2>4. \A o \in OffersOf(the.shelf) : ~ Live(o)
    BY <1>4, ShelfOffers DEF Served, CaseOK
  <2>5. ToldBy(found, rows) /\ ToldBy(collected, rows) /\ BrandsApart
    BY <2>1 DEF TellingOK, Serving
  <2>6. \A o \in found : ~ Live(o)
    BY <2>1, <2>5 DEF BrandsApart, KindOf
  <2>7. ToldBy(collected', rows')
    BY <2>1, <2>4, <2>5 DEF ToldBy
  <2>8. ASSUME NEW i \in DOMAIN todo', NEW j \in DOMAIN todo', i # j, todo'[i].kind # "catalogue"
        PROVE  todo'[i].kind # todo'[j].kind
    <3>1. /\ i + 1 \in DOMAIN todo /\ todo'[i] = todo[i + 1]
          /\ j + 1 \in DOMAIN todo /\ todo'[j] = todo[j + 1] /\ i + 1 # j + 1
      BY <2>1, <2>2, <2>3, <2>8
    <3> QED
      BY <3>1, <2>5, <2>8 DEF BrandsApart
  <2>9. \A o \in collected' : Live(o) => \A i \in DOMAIN todo' : todo'[i].kind # KindOf(o)
    BY <2>1, <2>2, <2>4, <2>5 DEF BrandsApart
  <2>10. BrandsApart'
    BY <2>1, <2>6, <2>8, <2>9 DEF BrandsApart, KindOf, Live
  <2>11. ToldBy(found', rows')
    BY <2>1, <2>5
  <2> QED
    BY <2>7, <2>10, <2>11 DEF TellingOK, ToldBy, SlotOf, KindOf, Live, AsTold
<1>5. CASE Served /\ Locate
  <2>1. /\ UNCHANGED <<rows, pc>> /\ pc = "collecting" /\ todo # <<>>
        /\ Head(todo).kind = "brico"
    BY <1>5 DEF Locate, Asking
  <2>2. PICK stores \in Seq(AskedStores) : Proceed(stores, {})
    <3>1. <<>> \in Seq(AskedStores)
      OBVIOUS
    <3>2. \A list \in the.retailers : Limited(list) \in Seq(AskedStores)
      BY <1>5, LimitedIs DEF Served, CaseOK
    <3>3. Limited(locator.list) \in Seq(AskedStores)
      BY <1>5, LimitedIs DEF Served
    <3> QED
      BY <1>5, <3>1, <3>2, <3>3 DEF Locate
  <2>3. BrandsApart /\ ToldBy(collected, rows') /\ ToldBy({}, rows') /\ TodoOK
    BY <1>5, <2>1 DEF TellingOK, Serving, ToldBy, Served
  <2>4. ToldBy(found', rows') /\ ToldBy(collected', rows') /\ BrandsApart'
    BY <2>1, <2>2, <2>3, TellingProceed
  <2> QED
    BY <2>4 DEF TellingOK, ToldBy, SlotOf, KindOf, Live, AsTold
<1>6. CASE Served /\ \E kind \in {"gedimat", "brico"} : AskStore(kind)
  <2>1. PICK kind \in {"gedimat", "brico"} : AskStore(kind)
    BY <1>6
  <2>. DEFINE offers == IF kind = "gedimat" THEN GedimatOffers(Here) ELSE BricoOffers(Here)
              stores == Tail(Head(todo).stores)
              all == found \cup offers
  <2>2. /\ pc = "collecting" /\ todo # <<>>
        /\ Head(todo).kind = kind /\ Proceed(stores, all)
    BY <2>1 DEF AskStore, Asking, Here
  <2>3. BrandsApart /\ ToldBy(found, rows) /\ ToldBy(collected, rows)
    BY <2>2 DEF TellingOK, Serving
  <2>4. /\ stores \in Seq(AskedStores) /\ DOMAIN rows \subseteq DOMAIN rows'
        /\ \A slot \in DOMAIN rows :
               ~ (slot[1] = kind /\ slot[2] = Here.shop /\ slot[3] \in References(kind)) =>
                   rows'[slot] = rows[slot]
    BY <1>6, <2>1, RowsAfter DEF Served
  <2>5. ToldBy(all, rows') /\ \A o \in offers : Live(o) /\ KindOf(o) = kind
    BY <1>6, <2>1, <2>3, ToldAnew
  <2>6. Head(todo) = todo[1] /\ 1 \in DOMAIN todo /\ TodoOK
    BY <1>6, <2>2, TailKeeps DEF Served
  <2>7. ToldBy(collected, rows')
    <3>1. ASSUME NEW o \in collected, Live(o)
          PROVE  SlotOf(o) \in DOMAIN rows' /\ rows'[SlotOf(o)] = rows[SlotOf(o)]
      <4>1. SlotOf(o) \in DOMAIN rows
        BY <2>3, <3>1 DEF ToldBy
      <4>2. KindOf(o) # kind
        BY <2>2, <2>3, <2>6, <3>1 DEF BrandsApart
      <4>3. SlotOf(o)[1] = KindOf(o)
        BY DEF SlotOf
      <4> QED
        BY <4>1, <4>2, <4>3, <2>4
    <3> QED
      BY <2>3, <3>1, ToldElsewhere
  <2>8. \A o \in all : Live(o) => KindOf(o) = Head(todo).kind
    BY <2>2, <2>3, <2>5 DEF BrandsApart
  <2>9. Head(todo).kind # "catalogue"
    BY <2>2
  <2> HIDE DEF all, stores, offers
  <2>10. ToldBy(found', rows') /\ ToldBy(collected', rows') /\ BrandsApart'
    BY <2>2, <2>3, <2>4, <2>5, <2>6, <2>7, <2>8, <2>9, TellingProceed
  <2> QED
    BY <2>10 DEF TellingOK, ToldBy, SlotOf, KindOf, Live, AsTold
<1>7. CASE Served /\ LiveFails
  <2>1. /\ UNCHANGED <<pc, rows, collected>> /\ pc = "collecting" /\ todo # <<>>
        /\ todo' = Tail(todo) /\ found' = {}
    BY <1>7 DEF LiveFails, Asking, cached
  <2>2. \A i \in DOMAIN Tail(todo) : i + 1 \in DOMAIN todo /\ Tail(todo)[i] = todo[i + 1]
    BY <1>7, <2>1, TailKeeps DEF Served
  <2>3. DOMAIN Tail(todo) \subseteq Nat
    <3>1. Tail(todo) \in Seq(Fit)
      BY <1>7, <2>1, HeadTailProperties DEF Served, TodoOK
    <3> QED
      BY <3>1, LenProperties
  <2>5. ToldBy(collected, rows) /\ BrandsApart
    BY <2>1 DEF TellingOK, Serving
  <2>8. ASSUME NEW i \in DOMAIN todo', NEW j \in DOMAIN todo', i # j, todo'[i].kind # "catalogue"
        PROVE  todo'[i].kind # todo'[j].kind
    <3>1. /\ i + 1 \in DOMAIN todo /\ todo'[i] = todo[i + 1]
          /\ j + 1 \in DOMAIN todo /\ todo'[j] = todo[j + 1] /\ i + 1 # j + 1
      BY <2>1, <2>2, <2>3, <2>8
    <3> QED
      BY <3>1, <2>5, <2>8 DEF BrandsApart
  <2>9. \A o \in collected : Live(o) => \A i \in DOMAIN todo' : todo'[i].kind # KindOf(o)
    BY <2>1, <2>2, <2>5 DEF BrandsApart
  <2>10. BrandsApart'
    BY <2>1, <2>8, <2>9 DEF BrandsApart, KindOf, Live
  <2>11. ToldBy(found', rows') /\ ToldBy(collected', rows')
    BY <2>1, <2>5 DEF ToldBy
  <2> QED
    BY <2>10, <2>11 DEF TellingOK, ToldBy, SlotOf, KindOf, Live, AsTold
<1>8. CASE Served /\ Compare
  <2>1. UNCHANGED <<rows, todo, found, collected>> /\ pc = "collecting" /\ pc' = "asked"
    BY <1>8 DEF Compare, requestVars, served, cached
  <2> QED
    BY <2>1, TellingSame DEF Serving
<1>9. CASE Served /\ (SetSupplierActive \/ SetCatalogActive \/ SyncStores)
  <2>1. UNCHANGED <<rows, todo, found, collected, pc>> /\ pc \in Serving
    BY <1>9 DEF SetSupplierActive, SetCatalogActive, SyncStores, served, vars, cached, Edit
  <2> QED
    BY <2>1, TellingSame
<1>10. CASE Next /\ UNCHANGED requestVars
  <2>1. UNCHANGED <<rows, todo, found, collected>> /\ pc \in Asked /\ pc' \notin Serving
    BY <1>10, SearchKeeps DEF requestVars, served, cached, Asked, Serving
  <2> QED
    BY <2>1, TellingSame
<1>11. CASE UNCHANGED <<vars, requestVars>>
  <2>1. UNCHANGED <<rows, todo, found, collected, pc>>
    BY <1>11 DEF vars, requestVars, served, cached
  <2> QED
    BY <2>1, TellingSame DEF TellingOK
<1> QED
  BY <1>1, <1>2, <1>3, <1>4, <1>5, <1>6, <1>7, <1>8, <1>9, <1>10, <1>11, RequestSteps

\* What is bought of an offer that is as its row says.
LEMMA SoldIs ==
    ASSUME RequestOK, NEW offers, OffersOK(offers), NEW p \in Bought(Basket(offers)),
           NEW row, LET o == Basket(offers)[p].offer
                    IN  o.supplier \in {Gedimat, BricoLive} /\ AsTold(o, row)
                        /\ row \in CachedRows[KindOf(o)] \cup {NoRow}
    PROVE  LET line == Basket(offers)[p]
               o == line.offer
           IN  /\ row.price = o.price
               /\ o.supplier = BricoLive /\ Geolocated(o) => row.sold = TRUE /\ row.stock >= line.packs
               /\ o.supplier = Gedimat =>
                      IF line.kind \in Later THEN row.sold = line.kind
                      ELSE row.sold = "available" /\ (row.stock = 0 \/ row.stock >= line.packs)
<1>. DEFINE line == Basket(offers)[p]
            o == line.offer
            kind == line.kind
            packs == line.packs
<1>1. /\ p \in DOMAIN request.cart /\ kind \in {"available", "partial", "delayed", "order_only"}
      /\ o \in Pool(kind, offers, p) /\ OfferOK(o) /\ packs = Packs(kind, o) /\ packs \in Nat \ {0}
  BY BoughtIs
<1>2. o.supplier \in {Gedimat, BricoLive} /\ AsTold(o, row) /\ row \in CachedRows[KindOf(o)] \cup {NoRow}
  OBVIOUS
<1> HIDE DEF packs, kind, o, line
<1>3. /\ kind \in Later => o.fulfillment = kind
      /\ kind \notin Later => o.fulfillment \notin Later \cup {"unavailable"}
      /\ kind = "available" => CoversPacks(o, packs)
      /\ kind = "partial" => o.stock >= packs
  BY <1>1, PoolIs
<1>4. o.fulfillment \in Fulfillments /\ o.price \in Nat /\ o.stock \in Nat
  BY <1>1, OfferIs
<1>5. o.fulfillment # "unavailable"
  BY <1>3 DEF Later
<1>6. kind \notin Later => Uncounted(o) \/ o.stock >= packs
  BY <1>1, <1>3 DEF Later, CoversPacks
<1>7. CASE o.supplier = Gedimat
  <2>1. o.fulfillment = row.sold /\ o.stock = row.stock /\ row.price = o.price
    BY <1>2, <1>5, <1>7 DEF AsTold
  <2>2. row # NoRow
    BY <2>1, <1>4, NoneAssumption DEF NoRow
  <2>3. row.sold \in Fulfillments \ {"stock"}
    BY <1>2, <1>7, <2>2 DEF KindOf, CachedRows
  <2>4. kind \notin Later => row.sold = "available"
    BY <1>3, <2>1, <2>3 DEF Fulfillments, Later
  <2>5. kind \in Later => row.sold = kind
    BY <1>3, <2>1
  <2>6. kind \notin Later => row.stock = 0 \/ row.stock >= packs
    BY <1>6, <2>1 DEF Uncounted
  <2>7. o.supplier # BricoLive
    BY <1>7, BrandsAssumption
  <2> QED
    BY <1>7, <2>1, <2>4, <2>5, <2>6, <2>7 DEF packs, kind, o, line
<1>8. CASE o.supplier # Gedimat
  <2>1. row.price = o.price /\ o.stock = InStore(row) /\ o.fulfillment = "stock"
    BY <1>2, <1>8 DEF AsTold
  <2>2. kind \notin Later
    BY <1>3, <2>1 DEF Later
  <2>3. ASSUME Geolocated(o) PROVE row.sold = TRUE /\ row.stock >= packs
    <3>1. ~ Uncounted(o)
      BY <2>1, <2>3 DEF Uncounted
    <3>2. o.stock >= packs
      BY <1>6, <2>2, <3>1
    <3>3. o.stock # 0
      BY <1>1, <1>4, <3>2
    <3> QED
      BY <2>1, <3>2, <3>3 DEF InStore
  <2> QED
    BY <1>8, <2>1, <2>3 DEF packs, kind, o, line
<1> QED
  BY <1>7, <1>8

\* What is bought is what the rows say.
LEMMA AnsweredAsSold ==
    RequestTypeOK /\ SearchOK /\ TellingOK => BoughtAsSold
<1>. DEFINE baskets == {options[s] : s \in DOMAIN options}
                       \cup {strategies[k].basket : k \in {k \in DOMAIN strategies :
                                                               strategies[k] # None}}
<1> SUFFICES ASSUME RequestTypeOK, SearchOK, TellingOK, case # 0, pc = "answered",
                    NEW basket \in baskets, NEW p \in Bought(basket),
                    Live(basket[p].offer), AnsweredOnce(basket[p].offer)
    PROVE   LET o == basket[p].offer
                kind == IF o.supplier = Gedimat THEN "gedimat" ELSE "brico"
                row == rows[<<kind, o.shop, o.ref>>]
            IN  /\ row.price = o.price
                /\ o.supplier = BricoLive /\ Geolocated(o) =>
                       row.sold = TRUE /\ row.stock >= basket[p].packs
                /\ o.supplier = Gedimat =>
                       IF basket[p].kind \in Later THEN row.sold = basket[p].kind
                       ELSE /\ row.sold = "available"
                            /\ row.stock = 0 \/ row.stock >= basket[p].packs
  BY DEF BoughtAsSold
<1>1. GivenSearch /\ RequestOK /\ request.offers = collected /\ RowsOK
  BY DEF RequestTypeOK, Asked, GivenOK, GivenSearch, RequestOK
<1>2. FoundOK /\ strategies = Reply /\ options = Offered
  BY DEF SearchOK
<1>3. \E S \in SUBSET request.offers : basket = Basket(S)
  <2>1. CASE basket \in {options[s] : s \in DOMAIN options}
    <3>1. PICK s \in DOMAIN options : basket = options[s]
      BY <2>1
    <3>. DEFINE S == {o \in Comparable : s = 0 \/ o.supplier = s}
    <3>2. basket = Basket(S)
      BY <1>2, <3>1 DEF Offered
    <3>3. S \in SUBSET request.offers
      BY DEF Comparable
    <3> HIDE DEF S
    <3> QED
      BY <3>2, <3>3
  <2>2. CASE basket \in {strategies[k].basket : k \in {k \in DOMAIN strategies : strategies[k] # None}}
    BY <1>1, <1>2, <2>2, AnsweredBaskets
  <2> QED
    BY <2>1, <2>2
<1>4. PICK S \in SUBSET request.offers : basket = Basket(S)
  BY <1>3
<1>. DEFINE o == basket[p].offer
            row == rows[SlotOf(o)]
<1>5. OffersOK(S)
  BY <1>1, OffersSubset DEF GivenSearch
<1>6. p \in Bought(Basket(S)) /\ o = Basket(S)[p].offer /\ o \in S
  BY <1>1, <1>4, <1>5, BoughtIs
<1>7. o \in collected /\ Live(o) /\ AnsweredOnce(o)
  BY <1>1, <1>6
<1>8. ToldBy(collected, rows)
  BY DEF TellingOK, Asked
<1> HIDE DEF o, row
<1>9. /\ o.supplier \in {Gedimat, BricoLive} /\ SlotOf(o) \in DOMAIN rows
      /\ \E q \in collected : /\ Live(q) /\ q.supplier = o.supplier /\ q.shop = o.shop /\ q.ref = o.ref
                              /\ AsTold(q, row)
  BY <1>7, <1>8 DEF ToldBy, row
<1>10. AsTold(o, row)
  <2>1. PICK q \in collected : /\ Live(q) /\ q.supplier = o.supplier /\ q.shop = o.shop /\ q.ref = o.ref
                               /\ AsTold(q, row)
    BY <1>9
  <2>2. q.price = o.price /\ q.stock = o.stock /\ q.fulfillment = o.fulfillment
    BY <1>7, <2>1 DEF AnsweredOnce
  <2> QED
    BY <2>1, <2>2 DEF AsTold
<1>11. row \in CachedRows[KindOf(o)] \cup {NoRow}
  <2>1. SlotOf(o)[1] = KindOf(o)
    BY DEF SlotOf
  <2> QED
    BY <1>1, <1>9, <2>1 DEF RowsOK, row
<1>12. /\ row.price = o.price
       /\ o.supplier = BricoLive /\ Geolocated(o) => row.sold = TRUE /\ row.stock >= basket[p].packs
       /\ o.supplier = Gedimat =>
              IF basket[p].kind \in Later THEN row.sold = basket[p].kind
              ELSE row.sold = "available" /\ (row.stock = 0 \/ row.stock >= basket[p].packs)
  BY <1>1, <1>4, <1>5, <1>6, <1>9, <1>10, <1>11, SoldIs
<1> QED
  BY <1>12 DEF row, o, SlotOf, KindOf

\* What the answer of compare buys at a live store was told by the store, at that price
\* and in that quantity, however the rows of the cache were read and written.
THEOREM SoldAsTold == RequestSpec => []BoughtAsSold
<1>1. RequestInit => RequestTypeOK /\ BrandsOK /\ SearchOK /\ TellingOK
  BY RequestTypeInit, BrandsInit, SearchInit, TellingInit
<1>2. RequestTypeOK /\ BrandsOK /\ SearchOK /\ TellingOK /\ [RequestNext]_<<vars, requestVars>>
      => (RequestTypeOK /\ BrandsOK /\ SearchOK /\ TellingOK)'
  BY RequestTypeStep, BrandsStep, SearchStep, TellingStep
<1>3. RequestTypeOK /\ SearchOK /\ TellingOK => BoughtAsSold
  BY AnsweredAsSold
<1> QED
  BY <1>1, <1>2, <1>3, PTL DEF RequestSpec

-----------------------------------------------------------------------------
(* The order of the subsets *)

\* s holds the first number that is in one of the sets and not in the other.
Leads(s, t) == \E m \in s \ t : \A x \in s \cup t : x < m => (x \in s <=> x \in t)

\* The first number in which two sets differ.
LEMMA LeadsIs ==
    ASSUME NEW s \in SUBSET Nat, NEW t \in SUBSET Nat, s # t
    PROVE  /\ Min(SymDiff(s, t)) \in s <=> Leads(s, t)
           /\ Leads(s, t) \/ Leads(t, s)
           /\ ~ (Leads(s, t) /\ Leads(t, s))
<1>. DEFINE D == SymDiff(s, t)
            m == Min(D)
<1>1. D \in SUBSET Nat /\ D # {} /\ \A x : x \in D <=> (x \in s \ t \/ x \in t \ s)
  BY DEF SymDiff
<1>2. m \in D /\ \A x \in D : m <= x
  BY <1>1, MinIs
<1> HIDE DEF D, m
<1>3. m \in Nat /\ \A x \in s \cup t : x < m => (x \in s <=> x \in t)
  BY <1>1, <1>2
<1>4. m \in s => Leads(s, t)
  BY <1>1, <1>2, <1>3 DEF Leads
<1>5. m \in t => Leads(t, s)
  BY <1>1, <1>2, <1>3 DEF Leads
<1>6. m \in s \/ m \in t
  BY <1>1, <1>2
<1>7. ~ (Leads(s, t) /\ Leads(t, s))
  <2> SUFFICES ASSUME Leads(s, t), Leads(t, s) PROVE FALSE
    OBVIOUS
  <2>1. PICK a \in s \ t : \A x \in s \cup t : x < a => (x \in s <=> x \in t)
    BY DEF Leads
  <2>2. PICK b \in t \ s : \A x \in s \cup t : x < b => (x \in s <=> x \in t)
    BY DEF Leads
  <2> QED
    BY <2>1, <2>2
<1>8. m \in s <=> Leads(s, t)
  BY <1>4, <1>5, <1>6, <1>7
<1> QED
  BY <1>4, <1>5, <1>6, <1>7, <1>8 DEF m, D

\* Leads orders the sets.
LEMMA LeadsTransitive ==
    ASSUME NEW s \in SUBSET Nat, NEW t \in SUBSET Nat, NEW u \in SUBSET Nat,
           Leads(s, t), Leads(t, u)
    PROVE  Leads(s, u)
<1>1. PICK a \in s \ t : \A x \in s \cup t : x < a => (x \in s <=> x \in t)
  BY DEF Leads
<1>2. PICK b \in t \ u : \A x \in t \cup u : x < b => (x \in t <=> x \in u)
  BY DEF Leads
<1>3. a \in Nat /\ b \in Nat
  BY <1>1, <1>2
<1>4. CASE a < b
  <2>1. a \in s \ u
    BY <1>1, <1>2, <1>4
  <2>2. \A x \in s \cup u : x < a => (x \in s <=> x \in u)
    BY <1>1, <1>2, <1>3, <1>4
  <2> QED
    BY <2>1, <2>2 DEF Leads
<1>5. CASE b < a
  <2>1. b \in s \ u
    BY <1>1, <1>2, <1>5
  <2>2. \A x \in s \cup u : x < b => (x \in s <=> x \in u)
    BY <1>1, <1>2, <1>3, <1>5
  <2> QED
    BY <2>1, <2>2 DEF Leads
<1>6. a # b
  BY <1>1, <1>2
<1> QED
  BY <1>3, <1>4, <1>5, <1>6

\* The subsets of a finite set are in a strict order.
LEMMA EarlierIs ==
    ASSUME NEW K \in SUBSET Nat, IsFiniteSet(K), NEW s \in SUBSET K, NEW t \in SUBSET K
    PROVE  /\ ~ Earlier(s, s)
           /\ s = t \/ Earlier(s, t) \/ Earlier(t, s)
           /\ ~ (Earlier(s, t) /\ Earlier(t, s))
           /\ s = {} /\ t # {} => Earlier(s, t)
           /\ \A u \in SUBSET K : Earlier(s, t) /\ Earlier(t, u) => Earlier(s, u)
<1>1. \A a \in SUBSET K : a \in SUBSET Nat /\ Cardinality(a) \in Nat /\ (Cardinality(a) = 0 <=> a = {})
  BY FS_Subset, FS_CardinalityType, FS_EmptySet
<1>2. \A a, b \in SUBSET K :
         a # b => /\ Min(SymDiff(a, b)) \in a <=> Leads(a, b)
                  /\ Leads(a, b) \/ Leads(b, a)
                  /\ ~ (Leads(a, b) /\ Leads(b, a))
  BY <1>1, LeadsIs
<1>3. \A a, b \in SUBSET K :
         Earlier(a, b) <=> \/ Cardinality(a) < Cardinality(b)
                           \/ Cardinality(a) = Cardinality(b) /\ a # b /\ Leads(a, b)
  BY <1>2 DEF Earlier
<1>4. ~ Earlier(s, s)
  BY <1>1, <1>3
<1>5. s = t \/ Earlier(s, t) \/ Earlier(t, s)
  BY <1>1, <1>2, <1>3
<1>6. ~ (Earlier(s, t) /\ Earlier(t, s))
  BY <1>1, <1>2, <1>3
<1>7. s = {} /\ t # {} => Earlier(s, t)
  <2>1. ASSUME t # {} PROVE Cardinality(t) > 0
    <3>1. Cardinality(t) \in Nat /\ Cardinality(t) # 0
      BY <1>1, <2>1, Zenon
    <3> QED
      BY <3>1
  <2>2. Cardinality({}) = 0
    BY FS_EmptySet
  <2> QED
    BY <1>3, <2>1, <2>2
<1>8. ASSUME NEW u \in SUBSET K, Earlier(s, t), Earlier(t, u) PROVE Earlier(s, u)
  <2>1. CASE Cardinality(s) < Cardinality(u)
    BY <1>3, <2>1
  <2>2. CASE ~ (Cardinality(s) < Cardinality(u))
    <3>1. Cardinality(s) = Cardinality(t) /\ Cardinality(t) = Cardinality(u)
      BY <1>1, <1>3, <1>8, <2>2
    <3>2. Leads(s, t) /\ Leads(t, u) /\ s # t /\ t # u
      BY <1>1, <1>3, <1>8, <3>1
    <3>3. Leads(s, u)
      BY <1>1, <3>2, LeadsTransitive
    <3>4. s # u
      BY <1>2, <3>2
    <3> QED
      BY <1>3, <3>1, <3>3, <3>4
  <2> QED
    BY <2>1, <2>2
<1> QED
  BY <1>4, <1>5, <1>6, <1>7, <1>8

\* Of some subsets one is the first.
LEMMA FirstSubset ==
    ASSUME NEW K \in SUBSET Nat, IsFiniteSet(K), NEW S \in SUBSET SUBSET K, S # {}
    PROVE  \E t \in S : \A u \in S \ {t} : Earlier(t, u)
<1>. DEFINE Good(s) == \E t \in s : \A u \in s \ {t} : Earlier(t, u)
            T == {n \in Nat : \A s \in SUBSET S : Cardinality(s) = n + 1 => Good(s)}
<1>0. IsFiniteSet(S)
  BY FS_SUBSET, FS_Subset
<1>1. \A x, y, z \in S : Earlier(x, y) /\ Earlier(y, z) => Earlier(x, z)
  BY EarlierIs
<1>2. \A x, y \in S : x = y \/ Earlier(x, y) \/ Earlier(y, x)
  BY EarlierIs
<1>3. 0 \in T
  <2> SUFFICES ASSUME NEW s \in SUBSET S, Cardinality(s) = 1 PROVE Good(s)
    OBVIOUS
  <2>1. PICK x : s = {x}
    BY <1>0, FS_Subset, FS_Singleton
  <2> QED
    BY <2>1
<1>4. ASSUME NEW n \in T PROVE n + 1 \in T
  <2> SUFFICES ASSUME NEW s \in SUBSET S, Cardinality(s) = (n + 1) + 1 PROVE Good(s)
    OBVIOUS
  <2>1. s # {} /\ \A x \in s : s \ {x} \in SUBSET S /\ Cardinality(s \ {x}) = n + 1
    BY <1>0, OneLess
  <2>2. PICK x : x \in s
    BY <2>1
  <2>3. Good(s \ {x})
    BY <2>1, <2>2
  <2>4. PICK m \in s \ {x} : \A y \in (s \ {x}) \ {m} : Earlier(m, y)
    BY <2>3
  <2>5. CASE Earlier(x, m)
    <3>1. ASSUME NEW y \in s \ {x} PROVE Earlier(x, y)
      <4>1. y = m \/ Earlier(m, y)
        BY <2>4
      <4> QED
        BY <1>1, <2>2, <2>4, <2>5, <4>1
    <3> QED
      BY <2>2, <3>1
  <2>6. CASE Earlier(m, x)
    BY <2>2, <2>4, <2>6
  <2> QED
    BY <1>2, <2>2, <2>4, <2>5, <2>6
<1>5. T = Nat
  BY <1>3, <1>4, Induction
<1>6. Cardinality(S) \in Nat /\ Cardinality(S) # 0
  BY <1>0, FS_CardinalityType, FS_EmptySet
<1>7. Cardinality(S) - 1 \in T /\ (Cardinality(S) - 1) + 1 = Cardinality(S)
  BY <1>5, <1>6
<1> QED
  BY <1>7

\* The subset that follows another: none is between them; after the last, none.
LEMMA FollowingIs ==
    ASSUME GivenSearch, NEW s \in SUBSET Keys
    PROVE  /\ Following(s) \subseteq Keys
           /\ \A t \in SUBSET Keys :
                  (Following(s) = {} \/ Earlier(t, Following(s))) /\ t # {} =>
                      t = s \/ Earlier(t, s)
<1>1. IsFiniteSet(Keys) /\ Keys \in SUBSET Nat
  BY RouteIs DEF Placed
<1>. DEFINE after == {t \in SUBSET Keys : Earlier(s, t)}
<1>2. CASE after = {}
  <2>1. Following(s) = {}
    BY <1>2 DEF Following
  <2>2. ASSUME NEW t \in SUBSET Keys PROVE t = s \/ Earlier(t, s)
    BY <1>1, <1>2, EarlierIs
  <2> QED
    BY <2>1, <2>2
<1>3. CASE after # {}
  <2>1. Following(s) = CHOOSE t \in after : \A u \in after \ {t} : Earlier(t, u)
    BY <1>3 DEF Following
  <2>2. after \in SUBSET SUBSET Keys
    OBVIOUS
  <2>. DEFINE K == Keys
  <2>3. \E t \in after : \A u \in after \ {t} : Earlier(t, u)
    <3>1. K \in SUBSET Nat /\ IsFiniteSet(K) /\ after \in SUBSET SUBSET K /\ after # {}
      BY <1>1, <1>3
    <3> HIDE DEF K, after
    <3> QED
      BY <3>1, FirstSubset
  <2>4. Following(s) \in after /\ \A u \in after \ {Following(s)} : Earlier(Following(s), u)
    BY <2>1, <2>3
  <2>. DEFINE f == Following(s)
  <2> HIDE DEF f
  <2>5. f \in SUBSET Keys /\ Earlier(s, f) /\ \A u \in SUBSET Keys : Earlier(s, u) => u = f \/ Earlier(f, u)
    BY <2>4 DEF f
  <2>6. f # {}
    <3>1. ~ Earlier({}, {}) /\ (s # {} => Earlier({}, s)) /\ ~ (Earlier(s, {}) /\ Earlier({}, s))
      BY <1>1, EarlierIs
    <3> QED
      BY <2>5, <3>1
  <2>7. ASSUME NEW t \in SUBSET Keys, Earlier(t, f) PROVE t = s \/ Earlier(t, s)
    <3>1. t = s \/ Earlier(t, s) \/ Earlier(s, t)
      BY <1>1, EarlierIs
    <3>2. ASSUME Earlier(s, t) PROVE FALSE
      <4>1. t = f \/ Earlier(f, t)
        BY <2>5, <3>2
      <4>2. ~ Earlier(f, f) /\ ~ (Earlier(t, f) /\ Earlier(f, t))
        BY <1>1, <2>5, EarlierIs
      <4> QED
        BY <2>7, <4>1, <4>2
    <3> QED
      BY <3>1, <3>2
  <2> QED
    BY <2>5, <2>6, <2>7 DEF f
<1> QED
  BY <1>2, <1>3

-----------------------------------------------------------------------------
(* What was tried *)

\* What a subset gives within a threshold was remembered.
Tried(t, n) == Fits(t, n) => Mark(t, n) \in seen

\* All subsets before the present one were tried within all thresholds, this one within
\* those that are not left.
TriedOK ==
    /\ pc = "search" =>
           /\ subset \subseteq Keys /\ left \subseteq Thresholds
           /\ \A t \in SUBSET Keys :
                  t # {} /\ (subset = {} \/ Earlier(t, subset)) => \A n \in Thresholds : Tried(t, n)
           /\ \A t \in SUBSET Keys :
                  t # {} /\ t = subset => \A n \in Thresholds \ left : Tried(t, n)
    /\ pc = "answered" /\ Complete(Basket(OnRoute)) =>
           \A t \in SUBSET Keys : t # {} => \A n \in Thresholds : Tried(t, n)

\* What does not sell everything within the last threshold does not within any.
LEMMA CoversLast ==
    ASSUME GivenSearch, NEW t, NEW n \in Thresholds, Covers(Within(t, n))
    PROVE  Covers(Within(t, Max(Thresholds)))
<1>1. \A m \in Thresholds : m \in Int /\ m <= Max(Thresholds)
  <2>. DEFINE T == Thresholds
  <2>1. T \in SUBSET Int /\ IsFiniteSet(T) /\ T # {}
    BY RouteIs
  <2> HIDE DEF T
  <2>2. \A m \in T : m \in Int /\ m <= Max(T)
    BY <2>1, MaxIs
  <2> QED
    BY <2>2 DEF T
<1>. DEFINE a == Max(Thresholds)
<1>2. a \in Int
  <2>. DEFINE T == Thresholds
  <2>1. T \in SUBSET Int /\ IsFiniteSet(T) /\ T # {}
    BY RouteIs
  <2> HIDE DEF T
  <2>2. Max(T) \in Int
    BY <2>1, MaxIs
  <2> QED
    BY <2>2 DEF T
<1> HIDE DEF a
<1>3. ASSUME NEW o \in Within(t, n) PROVE o \in Within(t, a)
  <2>1. o \in OnRoute /\ o.agency \in t /\ o.prep <= n
    BY DEF Within
  <2>2. o.prep \in Nat /\ n \in Int /\ n <= a
    BY <1>1, <2>1, RouteIs DEF Thresholds, a
  <2> QED
    BY <1>2, <2>1, <2>2 DEF Within
<1>4. \A o \in Within(t, a) : o.product \in DOMAIN request.cart
  BY DEF Within, OnRoute, Eligible
<1> QED
  BY <1>3, <1>4 DEF Covers, a

LEMMA TriedStays ==
    ASSUME UNCHANGED request, seen \subseteq seen', NEW t, NEW n, Tried(t, n)
    PROVE  Tried(t, n)'
  BY DealStays DEF Tried

\* Every subset before the one that follows was tried, if the present one was.
LEMMA TriedFollowing ==
    ASSUME GivenSearch, UNCHANGED <<request, seen>>, NEW s \in SUBSET Keys, subset' = Following(s),
           \A t \in SUBSET Keys : t # {} /\ (t = s \/ Earlier(t, s)) =>
               \A n \in Thresholds : Tried(t, n)
    PROVE  /\ subset' \subseteq Keys
           /\ \A t \in SUBSET Keys : t # {} /\ (subset' = {} \/ Earlier(t, subset')) =>
                  \A n \in Thresholds : Tried(t, n)'
<1>1. \A t \in SUBSET Keys : (subset' = {} \/ Earlier(t, subset')) /\ t # {} => t = s \/ Earlier(t, s)
  BY FollowingIs
<1>2. \A t, n : Tried(t, n) => Tried(t, n)'
  BY TriedStays
<1> QED
  BY <1>1, <1>2, FollowingIs

\* What a step of the search has tried.
LEMMA TriedSteps ==
    ASSUME TriedOK, SearchOK, GivenSearch, Next PROVE TriedOK'
<1>1. UNCHANGED request
  BY SearchKeeps
<1>2. Keys' = Keys /\ Thresholds' = Thresholds /\ (Complete(Basket(OnRoute))' <=> Complete(Basket(OnRoute)))
  BY <1>1, DealStays DEF Complete
<1>3. \A s, t : Earlier(s, t)' <=> Earlier(s, t)
  OBVIOUS
<1>4. IsFiniteSet(Keys) /\ Keys \in SUBSET Nat
  BY RouteIs DEF Placed
<1>5. CASE NoTour
  BY <1>2, <1>5 DEF NoTour, TriedOK
<1>6. CASE Refuse
  BY <1>6 DEF Refuse, TriedOK
<1>7. CASE Start
  <2>1. pc' = "search" /\ subset' = Following({}) /\ left' = Thresholds /\ UNCHANGED seen
    BY <1>7 DEF Start
  <2>2. \A t \in SUBSET Keys : t # {} => ~ (t = {} \/ Earlier(t, {}))
    BY <1>4, EarlierIs
  <2>3. {} \in SUBSET Keys
    OBVIOUS
  <2>4. /\ subset' \subseteq Keys
        /\ \A t \in SUBSET Keys : t # {} /\ (subset' = {} \/ Earlier(t, subset')) =>
               \A n \in Thresholds : Tried(t, n)'
    BY <1>1, <2>1, <2>2, <2>3, TriedFollowing
  <2> QED
    BY <1>2, <2>1, <2>4 DEF TriedOK
<1>8. CASE NextSubset
  <2>1. /\ pc = "search" /\ subset # {}
        /\ left = {} \/ ~ Covers(Within(subset, Max(Thresholds)))
        /\ pc' = "search" /\ subset' = Following(subset) /\ left' = Thresholds /\ UNCHANGED seen
    BY <1>8 DEF NextSubset
  <2>2. subset \in SUBSET Keys
    BY <1>8 DEF NextSubset, TriedOK
  <2>3. ASSUME NEW n \in Thresholds PROVE Tried(subset, n)
    <3>1. CASE left = {}
      BY <1>8, <2>1, <3>1 DEF NextSubset, TriedOK
    <3>2. CASE ~ Covers(Within(subset, Max(Thresholds)))
      BY <3>2, CoversLast DEF Tried, Fits
    <3> QED
      BY <1>8, <3>1, <3>2 DEF NextSubset
  <2>4. \A t \in SUBSET Keys : t # {} /\ Earlier(t, subset) => \A n \in Thresholds : Tried(t, n)
    BY <1>8 DEF NextSubset, TriedOK
  <2>5. \A t \in SUBSET Keys : t # {} /\ (t = subset \/ Earlier(t, subset)) =>
            \A n \in Thresholds : Tried(t, n)
    BY <2>3, <2>4
  <2>6. pc' = "search" /\ subset' = Following(subset) /\ left' = Thresholds /\ UNCHANGED <<request, seen>>
    BY <1>1, <1>8 DEF NextSubset
  <2>7. /\ subset' \subseteq Keys
        /\ \A t \in SUBSET Keys : t # {} /\ (subset' = {} \/ Earlier(t, subset')) =>
               \A n \in Thresholds : Tried(t, n)'
    BY <2>2, <2>5, <2>6, TriedFollowing
  <2> QED
    BY <1>2, <2>6, <2>7 DEF TriedOK
<1>9. CASE TryThreshold
  <2>0. PICK m, s : m = Min(left) /\ s = subset
    OBVIOUS
  <2>1. /\ pc = "search" /\ subset # {} /\ left # {} /\ left' = left \ {m}
        /\ UNCHANGED <<pc, subset>> /\ s = subset
        /\ IF Fits(s, m) /\ Mark(s, m) \notin seen
           THEN seen' = seen \cup {Mark(s, m)} ELSE UNCHANGED seen
    BY <1>9, <2>0 DEF TryThreshold, Remember, Fits, Mark
  <2>2. /\ subset \subseteq Keys /\ left \subseteq Thresholds
        /\ \A t \in SUBSET Keys :
               t # {} /\ (subset = {} \/ Earlier(t, subset)) => \A n \in Thresholds : Tried(t, n)
        /\ \A n \in Thresholds \ left : Tried(s, n)
    BY <2>1 DEF TriedOK
  <2>3. \A t, n : Tried(t, n) => Tried(t, n)'
    <3>1. seen \subseteq seen'
      BY <2>1
    <3> QED
      BY <1>1, <3>1, TriedStays
  <2>4. Tried(s, m)'
    <3>1. (Fits(s, m)' <=> Fits(s, m)) /\ Mark(s, m)' = Mark(s, m)
      BY <1>1, DealStays
    <3> QED
      BY <2>1, <3>1 DEF Tried
  <2>5. ASSUME NEW n \in Thresholds \ left' PROVE Tried(s, n)'
    <3>1. n = m \/ n \in Thresholds \ left
      BY <2>1
    <3> QED
      BY <2>1, <2>2, <2>3, <2>4, <3>1
  <2>6. \A t \in SUBSET Keys : t = subset' => \A n \in Thresholds \ left' : Tried(t, n)'
    BY <2>1, <2>5
  <2> QED
    BY <1>2, <2>1, <2>2, <2>3, <2>6 DEF TriedOK
<1>10. CASE Answer
  <2>1. pc = "search" /\ subset = {} /\ pc' = "answered" /\ UNCHANGED seen
    BY <1>10 DEF Answer, search
  <2>2. \A t, n : Tried(t, n) => Tried(t, n)'
    BY <1>1, <2>1, TriedStays
  <2> QED
    BY <1>2, <2>1, <2>2 DEF TriedOK
<1> QED
  BY <1>5, <1>6, <1>7, <1>8, <1>9, <1>10 DEF Next

\* Nothing is left out at first.
LEMMA TriedInit == RequestInit => TriedOK
  BY DEF RequestInit, TriedOK, Init

\* No subset is passed over.
LEMMA TriedStep ==
    ASSUME TriedOK, SearchOK, RequestTypeOK, [RequestNext]_<<vars, requestVars>> PROVE TriedOK'
<1>1. CASE Served /\ (Resolve \/ BuildLive \/ BuildCatalogues \/ AskCatalogue \/ Locate \/ LiveFails
                      \/ Compare)
  <2>1. pc' \in Serving \cup {"failed", "asked", "refused"}
    BY <1>1 DEF Resolve, BuildLive, BuildCatalogues, AskCatalogue, Locate, LiveFails, Compare,
       Serving, Asking
  <2> QED
    BY <2>1 DEF TriedOK, Serving
<1>2. CASE Served /\ \E kind \in {"gedimat", "brico"} : AskStore(kind)
  <2>1. pc' = pc /\ pc \in Serving
    BY <1>2 DEF AskStore, Asking, Serving
  <2> QED
    BY <2>1 DEF TriedOK, Serving
<1>3. CASE Served /\ (SetSupplierActive \/ SetCatalogActive \/ SyncStores)
  <2>1. pc' = pc /\ pc \in Serving
    BY <1>3 DEF SetSupplierActive, SetCatalogActive, SyncStores, Edit, vars
  <2> QED
    BY <2>1 DEF TriedOK, Serving
<1>4. CASE Next
  <2>1. GivenSearch
    BY <1>4, SearchKeeps DEF RequestTypeOK, Asked, GivenOK, GivenSearch, RequestOK
  <2> QED
    BY <1>4, <2>1, TriedSteps
<1>5. CASE UNCHANGED <<vars, requestVars>>
  <2>1. UNCHANGED <<request, pc, subset, left, seen>>
    BY <1>5 DEF vars, search
  <2>2. Keys' = Keys /\ Thresholds' = Thresholds /\ (Complete(Basket(OnRoute))' <=> Complete(Basket(OnRoute)))
    BY <2>1, DealStays DEF Complete
  <2>3. \A t, n : Tried(t, n) => Tried(t, n)'
    BY <2>1, TriedStays
  <2> QED
    BY <2>1, <2>2, <2>3 DEF TriedOK
<1> QED
  BY <1>1, <1>2, <1>3, <1>4, <1>5, RequestSteps

-----------------------------------------------------------------------------
(* The agencies of the offers *)

\* The agencies of the live stores of a request; no catalogue has any of them.
Homes == GedimatKeys(the) \cup BricoKeys(the) \cup {None}

\* What may be asked: the stores of a live connector are at such an agency.
Settled == {c \in Fit : c.stores = None \/ c.stores \in Seq(Housed(Homes))}

Homed(o) == IF Live(o) THEN o.agency \in Homes ELSE o \in OffersOf(the.shelf)

HomesOK ==
    pc \in Serving =>
        /\ GedimatHomes \subseteq GedimatKeys(the) \cup {None}
        /\ locator.list \in the.retailers \cup {the.locator.list}
        /\ todo \in Seq(Settled)
        /\ \A o \in found \cup collected : Homed(o)

\* Offers of the same product, agency and reference are prepared in the same time.
Alike(o, q) == o.product = q.product /\ o.agency = q.agency /\ o.ref = q.ref

Twins(offers) == \A o, q \in offers : Alike(o, q) => o.prep = q.prep

TwinsOK == pc \in Asked \ {"refused"} => Twins(request.offers)

\* A shelf has one article of a product, agency and reference.
LEMMA ShelfTwins ==
    ASSUME NEW shelf, Shelves(shelf)
    PROVE  /\ Twins(OffersOf(shelf))
           /\ \A o \in OffersOf(shelf) : \E slot \in DOMAIN shelf : o.agency = slot[3]
<1>. DEFINE slots == {s \in DOMAIN shelf : shelf[s] # None}
            offer(slot) == [product |-> slot[1], supplier |-> slot[2], agency |-> slot[3],
                            ref |-> slot[4],
                            price |-> shelf[slot].price, pack |-> shelf[slot].pack,
                            stock |-> shelf[slot].stock, prep |-> shelf[slot].prep,
                            fulfillment |-> shelf[slot].fulfillment,
                            comparable |-> shelf[slot].comparable]
<1>1. \A o \in OffersOf(shelf) : \E slot \in slots : o = offer(slot)
  BY DEF OffersOf
<1>2. ASSUME NEW s \in slots, NEW t \in slots, Alike(offer(s), offer(t))
      PROVE  offer(s).prep = offer(t).prep
  <2>1. s[1] = t[1] /\ s[3] = t[3] /\ s[4] = t[4]
    BY <1>2 DEF Alike
  <2>2. s[2] = t[2] /\ s \in [1..4 -> Nat \ {0}] /\ t \in [1..4 -> Nat \ {0}]
    BY <2>1 DEF Shelves
  <2>3. \A i \in 1..4 : s[i] = t[i]
    BY <2>1, <2>2
  <2>4. s = t
    BY <2>2, <2>3
  <2> QED
    BY <2>4
<1>3. \A slot \in slots : offer(slot).agency = slot[3]
  OBVIOUS
<1>4. Twins(OffersOf(shelf))
  BY <1>1, <1>2 DEF Twins
<1> QED
  BY <1>1, <1>3, <1>4

\* What is collected has no twins, for the agencies of the live stores are apart.
LEMMA HomedTwins ==
    ASSUME CaseOK(the), NEW offers, OffersOK(offers), \A o \in offers : Homed(o)
    PROVE  Twins(offers)
<1> SUFFICES ASSUME NEW o \in offers, NEW q \in offers, Alike(o, q) PROVE o.prep = q.prep
  BY DEF Twins
<1>1. /\ o.agency \in Nat /\ q.agency \in Nat /\ o.agency = q.agency
      /\ Live(o) => o.prep = 0 /\ o.agency \in Homes
      /\ Live(q) => q.prep = 0 /\ q.agency \in Homes
  BY OfferIs DEF OffersOK, Homed, Alike
<1>2. ASSUME NEW a \in OffersOf(the.shelf), a.agency \in Nat PROVE a.agency \notin Homes
  <2>1. PICK slot \in DOMAIN the.shelf : a.agency = slot[3]
    BY ShelfTwins DEF CaseOK
  <2>2. slot[3] \notin GedimatKeys(the) \cup BricoKeys(the)
    BY DEF CaseOK, KeysApart
  <2>3. None \notin Nat
    BY NoneAssumption
  <2> QED
    BY <1>2, <2>1, <2>2, <2>3 DEF Homes
<1>3. CASE Live(o) /\ Live(q)
  BY <1>1, <1>3
<1>4. CASE ~ Live(o) /\ ~ Live(q)
  BY <1>4, ShelfTwins DEF Homed, CaseOK, Twins
<1>5. ~ (Live(o) /\ ~ Live(q))
  BY <1>1, <1>2 DEF Homed
<1>6. ~ (~ Live(o) /\ Live(q))
  BY <1>1, <1>2 DEF Homed
<1> QED
  BY <1>3, <1>4, <1>5, <1>6

\* The homes are those of the case.
LEMMA HomesStay ==
    ASSUME UNCHANGED case
    PROVE  /\ the' = the /\ GedimatKeys(the)' = GedimatKeys(the) /\ Homes' = Homes /\ Settled' = Settled
           /\ \A o : Homed(o)' <=> Homed(o)
<1>1. the' = the
  BY DEF the
<1>2. GedimatKeys(the)' = GedimatKeys(the) /\ BricoKeys(the)' = BricoKeys(the)
  BY <1>1 DEF GedimatKeys, BricoKeys
<1>3. Homes' = Homes
  BY <1>2 DEF Homes
<1>4. Fit' = Fit
  BY <1>1 DEF Fit
<1>5. Settled' = Settled
  BY <1>3, <1>4 DEF Settled, Housed
<1>6. \A o : Homed(o)' <=> Homed(o)
  BY <1>1, <1>3 DEF Homed, OffersOf, Live
<1> QED
  BY <1>1, <1>2, <1>3, <1>5, <1>6

\* The stores that remain are settled.
LEMMA ProceedSettled ==
    ASSUME todo \in Seq(Settled), todo # <<>>, NEW stores \in Seq(Housed(Homes)), NEW offers,
           Proceed(stores, offers)
    PROVE  /\ todo' \in Seq(Settled)
           /\ found' \cup collected' \subseteq collected \cup offers
<1>1. Head(todo) \in Settled /\ Tail(todo) \in Seq(Settled)
  BY HeadTailProperties
<1>2. CASE stores = <<>>
  BY <1>1, <1>2 DEF Proceed
<1>3. CASE stores # <<>>
  <2>. DEFINE head == [Head(todo) EXCEPT !.stores = stores]
  <2>1. stores \in Seq(AskedStores) \ {<<>>}
    BY <1>3, HousedAre
  <2>2. Head(todo) \in Fit /\ Head(todo) \in Connectors
    BY <1>1 DEF Settled, Fit
  <2>3. head \in Connectors /\ head.kind = Head(todo).kind /\ head.name = Head(todo).name
        /\ head.stores = stores
    BY <2>1, <2>2 DEF Connectors
  <2>4. todo' = <<head>> \o Tail(todo) /\ found' = offers /\ UNCHANGED collected
    BY <1>3 DEF Proceed
  <2> HIDE DEF head
  <2>5. head \in Settled
    BY <2>2, <2>3 DEF Settled, Fit
  <2>6. todo' \in Seq(Settled)
    BY <1>1, <2>4, <2>5, ConcatProperties
  <2> QED
    BY <2>4, <2>6
<1> QED
  BY <1>2, <1>3

\* A step after which what was asked, found and collected is at home.
LEMMA HomesKept ==
    ASSUME UNCHANGED <<case, directory>>, pc \in Serving, HomesOK,
           locator' = locator \/ locator'.list \in the.retailers,
           todo' \in Seq(Settled), \A o \in found' \cup collected' : Homed(o)
    PROVE  HomesOK'
<1>1. /\ the' = the /\ GedimatKeys(the)' = GedimatKeys(the) /\ Settled' = Settled
      /\ \A o : Homed(o)' <=> Homed(o)
  BY HomesStay
<1>2. GedimatHomes' = GedimatHomes
  BY <1>1 DEF GedimatHomes
<1>3. \A o \in found' \cup collected' : Homed(o)'
  BY <1>1
<1>4. locator'.list \in the.retailers \cup {the.locator.list}
  BY DEF HomesOK
<1> QED
  BY <1>1, <1>2, <1>3, <1>4 DEF HomesOK

\* Nobody was asked at first.
LEMMA HomesInit == RequestInit => HomesOK /\ TwinsOK
<1>1. CASE Init
  <2>1. PICK i \in DOMAIN Families : \E shelf \in Families[i].shelves : request.offers = OffersOf(shelf)
    <3>1. PICK i \in DOMAIN Families :
             \E limit \in Families[i].limits, layout \in Families[i].layouts,
                shelf \in Families[i].shelves :
                 request = [cart |-> Families[i].cart, limit |-> limit,
                            layout |-> layout, offers |-> OffersOf(shelf)]
      BY <1>1 DEF Init
    <3>2. PICK shelf \in Families[i].shelves : request.offers = OffersOf(shelf)
      BY <3>1
    <3> QED
      BY <3>2
  <2>a. PICK shelf \in Families[i].shelves : request.offers = OffersOf(shelf)
    BY <2>1
  <2>2. Shelves(shelf)
    BY FamiliesAssumption
  <2>3. Twins(request.offers) /\ pc = "asked"
    BY <1>1, <2>a, <2>2, ShelfTwins DEF Init
  <2> QED
    BY <2>3 DEF HomesOK, TwinsOK, Serving
<1>2. CASE RequestInit /\ ~ Init
  <2>1. /\ case \in DOMAIN Cases /\ directory = the.directory /\ locator = the.locator
        /\ todo = <<>> /\ found = {} /\ collected = {} /\ pc = "received"
    BY <1>2 DEF RequestInit
  <2>2. GedimatHomes \subseteq GedimatKeys(the)
    BY <2>1 DEF GedimatHomes, GedimatKeys
  <2>3. <<>> \in Seq(Settled)
    OBVIOUS
  <2> QED
    BY <2>1, <2>2, <2>3 DEF HomesOK, TwinsOK, Asked
<1> QED
  BY <1>1, <1>2

\* Every action before the search keeps live offers at home,
LEMMA HomesServed ==
    ASSUME Served, HomesOK, TwinsOK, pc \in Serving
    PROVE  /\ Resolve \/ BuildLive \/ BuildCatalogues => HomesOK'
           /\ AskCatalogue \/ Locate \/ LiveFails => HomesOK'
<1>1. CASE Resolve
  <2>1. UNCHANGED <<case, directory, locator, todo, found, collected>>
    BY <1>1 DEF Resolve, database, cached
  <2> QED
    BY <2>1, HomesKept DEF HomesOK
<1>2. CASE BuildLive
  <2>1. /\ UNCHANGED <<case, directory, locator, found, collected>> /\ pc = "located"
        /\ todo' = LiveConnectors
    BY <1>2 DEF BuildLive, database, cached
  <2>2. origin.place \in Int \X Int
    BY <2>1 DEF Served, OriginOK
  <2>3. /\ LiveConnectors \in Seq(Fit)
        /\ \A i \in DOMAIN LiveConnectors :
               LiveConnectors[i].stores = None \/ LiveConnectors[i].stores \in Seq(Housed(GedimatHomes))
    BY <2>2, LiveConnectorsAre DEF Served
  <2>4. GedimatHomes \subseteq Homes
    BY DEF HomesOK, Homes
  <2>5. \A i \in DOMAIN LiveConnectors : LiveConnectors[i] \in Settled
    <3>1. \A s \in Seq(Housed(GedimatHomes)) : s \in Seq(Housed(Homes))
      BY <2>4, HousedAre
    <3>2. \A i \in DOMAIN LiveConnectors : LiveConnectors[i] \in Fit
      BY <2>3, LenProperties, ElementOfSeq
    <3> QED
      BY <2>3, <3>1, <3>2 DEF Settled
  <2>6. LiveConnectors \in Seq(Settled)
    <3>. DEFINE l == LiveConnectors
    <3>1. l \in Seq(Fit) /\ \A i \in DOMAIN l : l[i] \in Settled
      BY <2>3, <2>5
    <3> HIDE DEF l
    <3>2. l \in Seq(Settled)
      BY <3>1
    <3> QED
      BY <3>2 DEF l
  <2> QED
    BY <2>1, <2>6, HomesKept DEF HomesOK
<1>3. CASE BuildCatalogues
  <2>. DEFINE names == Sorted([n \in {n \in DOMAIN suppliers : suppliers[n] = TRUE} \ Replaced |-> <<n>>])
              files == [i \in DOMAIN names |->
                         [kind |-> "catalogue", stores |-> None, name |-> names[i]]]
  <2>1. /\ UNCHANGED <<case, directory, locator, found, collected>>
        /\ todo' = files \o todo
    BY <1>3 DEF BuildCatalogues, database, cached
  <2>2. names \in Seq(Nat \ {0})
    BY CatalogueNames DEF Served
  <2> HIDE DEF names
  <2>3. DOMAIN names = 1..Len(names) /\ Len(names) \in Nat
    BY <2>2, LenProperties
  <2>4. \A i \in 1..Len(names) : files[i] \in Settled
    <3>1. \A i \in 1..Len(names) : names[i] \in Nat \ {0}
      BY <2>2, ElementOfSeq
    <3> QED
      BY <3>1, <2>3 DEF Settled, Fit, Connectors
  <2>5. files \in Seq(Settled)
    <3>1. files = [i \in 1..Len(names) |-> files[i]]
      BY <2>3
    <3> HIDE DEF files
    <3> QED
      BY <2>3, <2>4, <3>1
  <2> HIDE DEF files
  <2>6. todo' \in Seq(Settled)
    BY <2>1, <2>5, ConcatProperties DEF HomesOK
  <2> QED
    BY <2>1, <2>6, HomesKept DEF HomesOK
<1>4. CASE AskCatalogue
  <2>1. /\ UNCHANGED <<case, directory, locator, found>> /\ todo # <<>> /\ todo' = Tail(todo)
        /\ \A o \in collected' : o \in collected \/ o \in OffersOf(the.shelf)
    BY <1>4 DEF AskCatalogue, Asking, database, cached
  <2>2. \A o \in OffersOf(the.shelf) : Homed(o)
    BY ShelfOffers DEF Served, CaseOK, Homed
  <2>3. todo' \in Seq(Settled)
    BY <2>1, HeadTailProperties DEF HomesOK
  <2> QED
    BY <2>1, <2>2, <2>3, HomesKept DEF HomesOK
<1>5. CASE Locate
  <2>1. UNCHANGED <<case, directory>> /\ todo # <<>> /\ todo \in Seq(Settled)
        /\ \A o \in collected : Homed(o)
    BY <1>5 DEF Locate, Asking, database, HomesOK
  <2>2. PICK stores \in Seq(Housed(Homes)) :
           Proceed(stores, {}) /\ (locator' = locator \/ locator'.list \in the.retailers)
    <3>1. <<>> \in Seq(Housed(Homes))
      OBVIOUS
    <3>2. ASSUME NEW list \in the.retailers \cup {the.locator.list} PROVE Limited(list) \in Seq(Housed(Homes))
      <4>1. list \in Seq(Retailers)
        BY DEF Served, CaseOK
      <4>2. {r.id : r \in ToSet(list)} \subseteq Homes
        BY DEF Homes, BricoKeys
      <4> QED
        BY <4>1, <4>2, LimitedIs, HousedAre
    <3>3. Limited(locator.list) \in Seq(Housed(Homes))
      BY <3>2 DEF HomesOK
    <3>4. CASE Proceed(<<>>, {}) /\ UNCHANGED locator
      BY <3>1, <3>4
    <3>5. CASE \E list \in the.retailers : /\ locator' = [list |-> list, fresh |-> TRUE]
                                           /\ Proceed(Limited(list), {})
      <4>1. PICK list \in the.retailers : /\ locator' = [list |-> list, fresh |-> TRUE]
                                          /\ Proceed(Limited(list), {})
        BY <3>5
      <4>2. locator'.list = list
        BY <4>1
      <4> QED
        BY <3>2, <4>1, <4>2
    <3>6. CASE Proceed(Limited(locator.list), {}) /\ UNCHANGED locator
      BY <3>3, <3>6
    <3> QED
      BY <1>5, <3>4, <3>5, <3>6 DEF Locate
  <2>3. todo' \in Seq(Settled) /\ found' \cup collected' \subseteq collected \cup {}
    BY <2>1, <2>2, ProceedSettled
  <2> QED
    BY <2>1, <2>2, <2>3, HomesKept
<1>6. CASE LiveFails
  <2>1. /\ UNCHANGED <<case, directory, locator, collected>> /\ todo # <<>> /\ todo' = Tail(todo)
        /\ found' = {}
    BY <1>6 DEF LiveFails, Asking, database, cached
  <2>2. todo' \in Seq(Settled)
    BY <2>1, HeadTailProperties DEF HomesOK
  <2> QED
    BY <2>1, <2>2, HomesKept DEF HomesOK
<1> QED
  BY <1>1, <1>2, <1>3, <1>4, <1>5, <1>6

\* the answers of a store
LEMMA HomesStore ==
    ASSUME Served, HomesOK, NEW kind \in {"gedimat", "brico"}, AskStore(kind) PROVE HomesOK'
<1>. DEFINE offers == IF kind = "gedimat" THEN GedimatOffers(Here) ELSE BricoOffers(Here)
            stores == Tail(Head(todo).stores)
            all == found \cup offers
<1>1. /\ UNCHANGED <<case, directory, locator>> /\ pc \in Serving /\ todo # <<>>
      /\ Head(todo).stores # None /\ Proceed(stores, all)
  BY DEF AskStore, Asking, Here, database, Serving
<1>2. /\ Here \in AskedStores
      /\ \A ref \in References(kind) : rows'[<<kind, Here.shop, ref>>] \in CachedRows[kind] \cup {NoRow}
  BY RowsAfter DEF Served
<1>3. \A o \in offers : Live(o) /\ o.agency = Here.id
  BY <1>2, LiveOffersAre DEF Served
<1>4. todo \in Seq(Settled) /\ Head(todo) \in Settled
  BY <1>1, HeadTailProperties DEF HomesOK
<1>5. Head(todo).stores \in Seq(Housed(Homes)) /\ Head(todo).stores # <<>>
  BY <1>1, <1>4 DEF Settled, Fit, Connectors
<1>6. Here \in Housed(Homes) /\ stores \in Seq(Housed(Homes))
  BY <1>5, HeadTailProperties DEF Here
<1>7. Here.id \in Homes
  BY <1>6 DEF Housed
<1>8. \A o \in offers : Homed(o)
  BY <1>3, <1>7 DEF Homed
<1> HIDE DEF offers, stores
<1>9. \A o \in collected \cup all : Homed(o)
  BY <1>1, <1>8 DEF HomesOK
<1>10. todo' \in Seq(Settled) /\ found' \cup collected' \subseteq collected \cup all
  BY <1>1, <1>4, <1>6, ProceedSettled
<1> QED
  BY <1>1, <1>9, <1>10, HomesKept

\* and what others change as well.
LEMMA HomesEdits ==
    ASSUME Served, HomesOK, SetSupplierActive \/ SetCatalogActive \/ SyncStores PROVE HomesOK'
<1>1. UNCHANGED <<case, locator, todo, found, collected>> /\ pc \in Serving
  BY DEF SetSupplierActive, SetCatalogActive, SyncStores, Edit, cached, served
<1>2. CASE UNCHANGED directory
  BY <1>1, <1>2, HomesKept DEF HomesOK
<1>3. CASE SyncStores
  <2>1. PICK listing \in the.listings : directory' = Refreshed(listing)
    BY <1>3 DEF SyncStores
  <2>. DEFINE keys == GedimatKeys(the) \cup {None}
  <2>2. GedimatHomes \subseteq keys
    BY <1>1 DEF HomesOK
  <2>3. DOMAIN directory' = DOMAIN directory
    BY <2>1 DEF Refreshed
  <2>4. \A s \in DOMAIN listing : listing[s].page # None => listing[s].page.shop \in keys
    BY DEF GedimatKeys
  <2>5. \A s \in DOMAIN directory : directory[s] # None => directory[s].own \in keys
    BY <2>2 DEF GedimatHomes
  <2>6. ASSUME NEW s \in DOMAIN directory, directory'[s] # None PROVE directory'[s].own \in keys
    <3>1. CASE s \notin DOMAIN listing
      BY <2>1, <2>5, <2>6, <3>1 DEF Refreshed
    <3>2. CASE s \in DOMAIN listing
      BY <2>1, <2>4, <2>5, <3>2 DEF Refreshed, OwnCatalog
    <3> QED
      BY <3>1, <3>2
  <2>7. the.configured \in keys /\ DOMAIN directory \subseteq keys
    BY <2>2 DEF GedimatHomes
  <2> HIDE DEF keys
  <2>8. the' = the
    BY <1>1, HomesStay
  <2>9. GedimatHomes' \subseteq keys
    BY <2>3, <2>6, <2>7, <2>8 DEF GedimatHomes
  <2>10. /\ GedimatKeys(the)' = GedimatKeys(the) /\ Settled' = Settled /\ \A o : Homed(o)' <=> Homed(o)
    BY <1>1, HomesStay
  <2>11. HomesOK
    OBVIOUS
  <2> QED
    BY <1>1, <2>8, <2>9, <2>10, <2>11 DEF HomesOK, keys
<1>4. UNCHANGED directory \/ SyncStores
  BY DEF SetSupplierActive, SetCatalogActive
<1> QED
  BY <1>2, <1>3, <1>4

\* Live offers are at home, action by action.
LEMMA HomesStep ==
    ASSUME RequestTypeOK, HomesOK, TwinsOK, [RequestNext]_<<vars, requestVars>>
    PROVE  HomesOK' /\ TwinsOK'
<1>1. CASE Served /\ (Resolve \/ BuildLive \/ BuildCatalogues)
  <2>1. pc \in Serving /\ pc' \in Serving \cup {"failed", "refused"}
    BY <1>1 DEF Resolve, BuildLive, BuildCatalogues, Serving
  <2> QED
    BY <1>1, <2>1, HomesServed DEF TwinsOK, Asked, Serving
<1>2. CASE Served /\ (AskCatalogue \/ Locate \/ LiveFails)
  <2>1. pc \in Serving /\ pc' \in Serving
    BY <1>2 DEF AskCatalogue, Locate, LiveFails, Asking, Serving
  <2> QED
    BY <1>2, <2>1, HomesServed DEF TwinsOK, Asked, Serving
<1>3. CASE Served /\ \E kind \in {"gedimat", "brico"} : AskStore(kind)
  <2>1. pc' \in Serving
    BY <1>3 DEF AskStore, Asking, Serving
  <2> QED
    BY <1>3, <2>1, HomesStore DEF TwinsOK, Asked, Serving
<1>4. CASE Served /\ (SetSupplierActive \/ SetCatalogActive \/ SyncStores)
  <2>1. pc' \in Serving
    BY <1>4 DEF SetSupplierActive, SetCatalogActive, SyncStores, Edit, vars
  <2> QED
    BY <1>4, <2>1, HomesEdits DEF TwinsOK, Asked, Serving
<1>5. CASE Served /\ Compare
  <2>1. /\ pc = "collecting" /\ pc' = "asked" /\ request'.offers = collected
    BY <1>5 DEF Compare
  <2>2. Twins(collected)
    <3>1. CaseOK(the) /\ OffersOK(collected) /\ \A o \in collected : Homed(o)
      BY <1>5, <2>1 DEF Served, HomesOK, Serving
    <3> QED
      BY <3>1, HomedTwins
  <2> QED
    BY <2>1, <2>2 DEF HomesOK, TwinsOK, Serving, Twins, Alike
<1>6. CASE Next
  <2>1. UNCHANGED request /\ pc \in {"asked", "search"} /\ pc' \in Asked
    BY <1>6, SearchKeeps
  <2> QED
    BY <2>1 DEF HomesOK, TwinsOK, Serving, Asked, Twins, Alike
<1>7. CASE UNCHANGED <<vars, requestVars>>
  <2>1. UNCHANGED <<case, directory, locator, todo, found, collected, pc, request>>
    BY <1>7 DEF vars, requestVars, database, cached, served
  <2>2. CASE pc \in Serving
    BY <2>1, <2>2, HomesKept DEF HomesOK, TwinsOK, Serving, Asked
  <2>3. CASE pc \notin Serving
    BY <2>1, <2>3 DEF HomesOK, TwinsOK, Twins, Alike
  <2> QED
    BY <2>2, <2>3
<1> QED
  BY <1>1, <1>2, <1>3, <1>4, <1>5, <1>6, <1>7, RequestSteps

-----------------------------------------------------------------------------
(* Baskets that are complete *)

\* A basket of the cart with every line bought whole.
Whole(b) ==
    /\ DOMAIN b = DOMAIN request.cart
    /\ \A p \in DOMAIN b : /\ b[p].kind = "available" /\ b[p].packs = Needed(b[p].offer)
                           /\ OfferOK(b[p].offer) /\ b[p].offer.product = p

\* A line of a whole basket covers its quantity.
LEMMA WholeLine ==
    ASSUME RequestOK, NEW b, Whole(b), NEW p \in DOMAIN request.cart
    PROVE  /\ b[p].offer.product = p /\ b[p].packs = Needed(b[p].offer) /\ b[p].packs \in Nat \ {0}
           /\ LineCost(b[p].offer, b[p].packs) \in Nat
           /\ b[p].offer.prep \in Nat /\ b[p].offer.agency \in Nat
<1>1. OfferOK(b[p].offer) /\ b[p].offer.product = p /\ b[p].packs = Needed(b[p].offer)
  BY DEF Whole
<1>2. b[p].packs \in Nat \ {0}
  <2>. DEFINE o == b[p].offer
              n == request.cart[p]
  <2>1. n \in Nat \ {0} /\ o.pack \in Nat \ {0} /\ b[p].packs = RequiredPacks(n, o.pack)
    BY <1>1, CartIs, OfferIs DEF Needed
  <2> HIDE DEF n, o
  <2>2. RequiredPacks(n, o.pack) \in Nat \ {0}
    BY <2>1, RequiredPacksIs
  <2> QED
    BY <2>1, <2>2
<1>3. b[p].offer.price \in Nat /\ b[p].offer.prep \in Nat /\ b[p].offer.agency \in Nat
  BY <1>1, OfferIs
<1> QED
  BY <1>1, <1>2, <1>3, LineCostType

LEMMA WholeBought ==
    ASSUME NEW b, Whole(b) PROVE Complete(b) /\ Bought(b) = DOMAIN request.cart
  BY DEF Whole, Complete, Bought

\* The materials of a whole basket.
LEMMA WholeTotal ==
    ASSUME RequestOK, NEW b, Whole(b)
    PROVE  /\ Total(b) \in Nat
           /\ \A c : /\ Whole(c)
                     /\ \A p \in DOMAIN request.cart :
                            LineCost(b[p].offer, b[p].packs) <= LineCost(c[p].offer, c[p].packs)
                => Total(b) <= Total(c)
<1>. DEFINE T == DOMAIN request.cart
            f(c) == [p \in Bought(c) |-> LineCost(c[p].offer, c[p].packs)]
<1>1. IsFiniteSet(T)
  BY CartIs
<1>2. ASSUME NEW c, Whole(c)
      PROVE  /\ DOMAIN f(c) = T /\ Total(c) = SumFunction(f(c))
             /\ \A p \in T : f(c)[p] \in Nat /\ f(c)[p] = LineCost(c[p].offer, c[p].packs)
  <2>1. Bought(c) = T
    BY <1>2, WholeBought
  <2>2. \A p \in T : LineCost(c[p].offer, c[p].packs) \in Nat
    BY <1>2, WholeLine
  <2>3. Total(c) = SumFunction(f(c))
    BY DEF Total
  <2> QED
    BY <2>1, <2>2, <2>3
<1>3. Total(b) \in Nat
  <2>. DEFINE g == f(b)
  <2>1. IsFiniteSet(DOMAIN g) /\ (\A p \in DOMAIN g : g[p] \in Nat) /\ Total(b) = SumFunction(g)
    BY <1>1, <1>2
  <2> HIDE DEF g
  <2> QED
    BY <2>1, SumNatural
<1>4. ASSUME NEW c, Whole(c),
             \A p \in T : LineCost(b[p].offer, b[p].packs) <= LineCost(c[p].offer, c[p].packs)
      PROVE  Total(b) <= Total(c)
  <2>. DEFINE g == f(b)
              h == f(c)
  <2>1. /\ DOMAIN g = T /\ Total(b) = SumFunction(g) /\ DOMAIN h = T /\ Total(c) = SumFunction(h)
        /\ \A p \in T : g[p] \in Nat /\ g[p] = LineCost(b[p].offer, b[p].packs)
        /\ \A p \in T : h[p] \in Nat /\ h[p] = LineCost(c[p].offer, c[p].packs)
    BY <1>2, <1>4
  <2> HIDE DEF g, h
  <2>2. \A p \in T : g[p] \in Int /\ h[p] \in Int /\ g[p] <= h[p]
    BY <1>4, <2>1
  <2> QED
    BY <1>1, <2>1, <2>2, SumMonotone
<1> QED
  BY <1>3, <1>4

\* The agencies and the preparation of a basket.
LEMMA WholeUsed ==
    ASSUME RequestOK, NEW b, Whole(b)
    PROVE  /\ IsFiniteSet(Used(b)) /\ Used(b) # {}
           /\ Used(b) = {b[p].offer.agency : p \in DOMAIN request.cart}
           /\ Preparation(b) \in Nat
           /\ \E p \in DOMAIN request.cart : Preparation(b) = b[p].offer.prep
           /\ \A p \in DOMAIN request.cart : b[p].offer.prep <= Preparation(b)
<1>. DEFINE T == DOMAIN request.cart
            f == [p \in T |-> b[p].offer.prep]
            g == [p \in T |-> b[p].offer.agency]
            P == {b[p].offer.prep : p \in T}
            A == {b[p].offer.agency : p \in T}
<1>1. IsFiniteSet(T) /\ T # {} /\ Bought(b) = T
  BY CartIs, WholeBought
<1>2. \A p \in T : b[p].offer.prep \in Nat
  BY WholeLine
<1>3. IsFiniteSet(A)
  <2>1. IsFiniteSet(DOMAIN g) /\ \A y \in A : \E x \in DOMAIN g : y = g[x]
    BY <1>1
  <2> HIDE DEF A, g
  <2> QED
    BY <2>1, FiniteValues
<1>4. IsFiniteSet(P)
  <2>1. IsFiniteSet(DOMAIN f) /\ \A y \in P : \E x \in DOMAIN f : y = f[x]
    BY <1>1
  <2> HIDE DEF P, f
  <2> QED
    BY <2>1, FiniteValues
<1>5. Used(b) = A /\ Preparation(b) = Max({0} \cup P)
  BY <1>1 DEF Used, Preparation
<1>6. P \subseteq Nat /\ P # {}
  BY <1>1, <1>2
<1>7. Max({0} \cup P) \in {0} \cup P /\ \A n \in {0} \cup P : n <= Max({0} \cup P)
  <2>. DEFINE U == {0} \cup P
  <2>1. IsFiniteSet({0})
    BY FS_Singleton
  <2>2. U \in SUBSET Int /\ U # {}
    BY <1>6
  <2>3. IsFiniteSet(U)
    <3> HIDE DEF P
    <3> QED
      BY <2>1, <1>4, FS_Union
  <2> HIDE DEF U
  <2>4. Max(U) \in U /\ \A n \in U : n <= Max(U)
    BY <2>2, <2>3, MaxIs
  <2> QED
    BY <2>4 DEF U
<1>8. Max({0} \cup P) \in P
  <2>. DEFINE m == Max({0} \cup P)
  <2>1. m \in {0} \cup P /\ \A n \in P : n <= m
    BY <1>7
  <2> HIDE DEF m
  <2>2. CASE m = 0
    <3>1. PICK n : n \in P
      BY <1>6
    <3> HIDE DEF P
    <3>2. n \in Nat /\ n <= 0
      BY <1>6, <2>1, <2>2, <3>1
    <3>3. n = m
      BY <2>2, <3>2
    <3> QED
      BY <3>1, <3>3 DEF m
  <2> QED
    BY <2>1, <2>2 DEF m
<1>9. Used(b) # {}
  BY <1>1, <1>5
<1>10. Preparation(b) \in P /\ \A n \in P : n <= Preparation(b)
  BY <1>5, <1>7, <1>8
<1> QED
  BY <1>3, <1>5, <1>6, <1>9, <1>10

\* A basket costs no more than another of no fewer materials, agencies, preparation and tour.
LEMMA WholeCost ==
    ASSUME RequestOK, NEW b, Whole(b), NEW tour, tour.time \in Nat, tour.distance \in Nat
    PROVE  /\ Cost(b, tour) \in Nat
           /\ \A c, round : /\ Whole(c) /\ round.time \in Nat /\ round.distance \in Nat
                            /\ tour.time <= round.time /\ tour.distance <= round.distance
                            /\ Total(b) <= Total(c) /\ Used(b) \subseteq Used(c)
                            /\ Preparation(b) <= Preparation(c)
                => Cost(b, tour) <= Cost(c, round)
<1>. DEFINE km(t) == t.distance * PerKm
            minutes(c, t) == (t.time + Preparation(c)) * PerMinute
            stops(c) == Max({Cardinality(Used(c)) - 1, 0})
<1>1. ASSUME NEW c, Whole(c), NEW t, t.time \in Nat, t.distance \in Nat
      PROVE  /\ Cost(c, t) = Total(c) + Rounded(km(t)) + Rounded(minutes(c, t)) + stops(c) * PerExtraStop
             /\ km(t) \in Nat /\ minutes(c, t) \in Nat /\ Total(c) \in Nat /\ Preparation(c) \in Nat
             /\ Cardinality(Used(c)) \in Nat /\ Cardinality(Used(c)) # 0
             /\ stops(c) = Cardinality(Used(c)) - 1
             /\ IsFiniteSet(Used(c)) /\ stops(c) * PerExtraStop \in Nat
  <2>1. Total(c) \in Nat /\ Preparation(c) \in Nat /\ IsFiniteSet(Used(c)) /\ Used(c) # {}
    BY <1>1, WholeTotal, WholeUsed
  <2>2. Cardinality(Used(c)) \in Nat /\ Cardinality(Used(c)) # 0
    BY <2>1, FS_CardinalityType, FS_EmptySet
  <2>3. stops(c) = Cardinality(Used(c)) - 1
    BY <2>1, StopsCount
  <2>. DEFINE d == t.distance
              m == t.time
              n == Preparation(c)
              k == Cardinality(Used(c)) - 1
  <2>4. d \in Nat /\ m \in Nat /\ n \in Nat /\ k \in Nat
    BY <1>1, <2>1, <2>2
  <2> HIDE DEF d, m, n, k
  <2>5. d * PerKm \in Nat /\ (m + n) * PerMinute \in Nat /\ k * PerExtraStop \in Nat
    BY <2>4, CostsAssumption
  <2>6. Cost(c, t) = Total(c) + Rounded(km(t)) + Rounded(minutes(c, t)) + stops(c) * PerExtraStop
    BY DEF Cost
  <2>7. km(t) = d * PerKm /\ minutes(c, t) = (m + n) * PerMinute
        /\ stops(c) * PerExtraStop = k * PerExtraStop
    BY <2>3 DEF d, m, n, k
  <2> HIDE DEF km, minutes, stops
  <2> QED
    BY <2>1, <2>2, <2>3, <2>5, <2>6, <2>7
<1>2. Cost(b, tour) \in Nat
  <2>. DEFINE x == km(tour)
              y == minutes(b, tour)
              z == stops(b) * PerExtraStop
  <2>1. Cost(b, tour) = Total(b) + Rounded(x) + Rounded(y) + z /\ x \in Nat /\ y \in Nat /\ z \in Nat
        /\ Total(b) \in Nat
    BY <1>1
  <2> HIDE DEF x, y, z
  <2>2. Rounded(x) \in Nat /\ Rounded(y) \in Nat
    BY <2>1, RoundedIs
  <2> QED
    BY <2>1, <2>2
<1>3. ASSUME NEW c, NEW round, Whole(c), round.time \in Nat, round.distance \in Nat,
             tour.time <= round.time, tour.distance <= round.distance,
             Total(b) <= Total(c), Used(b) \subseteq Used(c), Preparation(b) <= Preparation(c)
      PROVE  Cost(b, tour) <= Cost(c, round)
  <2>. DEFINE x == km(tour)
              y == minutes(b, tour)
              z == stops(b) * PerExtraStop
              u == km(round)
              v == minutes(c, round)
              w == stops(c) * PerExtraStop
  <2>1. /\ Cost(b, tour) = Total(b) + Rounded(x) + Rounded(y) + z /\ x \in Nat /\ y \in Nat /\ z \in Nat
        /\ Total(b) \in Nat
    BY <1>1
  <2>2. /\ Cost(c, round) = Total(c) + Rounded(u) + Rounded(v) + w /\ u \in Nat /\ v \in Nat /\ w \in Nat
        /\ Total(c) \in Nat
    BY <1>1, <1>3
  <2>3. x <= u
    <3>. DEFINE m == tour.distance
                n == round.distance
    <3>1. m \in Nat /\ n \in Nat /\ m <= n
      BY <1>3
    <3> HIDE DEF m, n
    <3>2. m * PerKm <= n * PerKm
      BY <3>1, CostsAssumption
    <3> QED
      BY <3>2 DEF m, n
  <2>4. y <= v
    <3>. DEFINE m == tour.time
                n == round.time
                i == Preparation(b)
                j == Preparation(c)
    <3>1. m \in Nat /\ n \in Nat /\ m <= n /\ i \in Nat /\ j \in Nat /\ i <= j
      BY <1>1, <1>3
    <3> HIDE DEF m, n, i, j
    <3>2. (m + i) * PerMinute <= (n + j) * PerMinute
      <4>. DEFINE s == m + i
                  t == n + j
      <4>1. s \in Nat /\ t \in Nat /\ s <= t
        BY <3>1
      <4> HIDE DEF s, t
      <4>2. s * PerMinute <= t * PerMinute
        BY <4>1, CostsAssumption
      <4> QED
        BY <4>2 DEF s, t
    <3> QED
      BY <3>2 DEF m, n, i, j
  <2>5. z <= w
    <3>. DEFINE m == Cardinality(Used(b))
                n == Cardinality(Used(c))
    <3>1. IsFiniteSet(Used(c)) /\ m \in Nat /\ n \in Nat /\ m # 0 /\ stops(b) = m - 1 /\ stops(c) = n - 1
      BY <1>1, <1>3
    <3>2. m <= n
      BY <1>3, <3>1, FS_Subset
    <3> HIDE DEF m, n, stops
    <3>. DEFINE s == m - 1
                t == n - 1
    <3>3. s \in Nat /\ t \in Nat /\ s <= t
      BY <3>1, <3>2
    <3> HIDE DEF s, t
    <3>4. s * PerExtraStop <= t * PerExtraStop
      BY <3>3, CostsAssumption
    <3>5. stops(b) = s /\ stops(c) = t
      BY <3>1 DEF s, t
    <3> QED
      BY <3>4, <3>5
  <2> HIDE DEF x, y, z, u, v, w
  <2>6. /\ Rounded(x) \in Nat /\ Rounded(y) \in Nat /\ Rounded(u) \in Nat /\ Rounded(v) \in Nat
        /\ Rounded(x) <= Rounded(u) /\ Rounded(y) <= Rounded(v)
    BY <2>1, <2>2, <2>3, <2>4, RoundedIs
  <2> QED
    BY <1>3, <2>1, <2>2, <2>5, <2>6
<1> QED
  BY <1>2, <1>3

-----------------------------------------------------------------------------
(* Assignments *)

\* An offer that covers the packs needed has the quantity.
LEMMA CoversQuantity ==
    ASSUME RequestOK, NEW o, OfferOK(o), o.product \in DOMAIN request.cart
    PROVE  /\ Needed(o) \in Nat \ {0} /\ Needed(o) <= request.cart[o.product]
           /\ CoversPacks(o, Needed(o)) <=> Uncounted(o) \/ o.stock * o.pack >= request.cart[o.product]
           /\ Uncounted(o) \/ o.stock * o.pack >= request.cart[o.product] =>
                  AvailableQuantity(o) >= request.cart[o.product]
           /\ \A n \in 0..request.cart[o.product] :
                  (n * o.pack >= request.cart[o.product] /\ (n - 1) * o.pack < request.cart[o.product])
                      <=> n = Needed(o)
<1>. DEFINE q == request.cart[o.product]
            k == o.pack
            s == o.stock
            r == Needed(o)
<1>1. q \in Nat \ {0} /\ k \in Nat \ {0} /\ s \in Nat /\ q \in 1..Million
  BY CartIs, OfferIs DEF RequestOK, Carts
<1>2. r = RequiredPacks(q, k)
  BY DEF Needed
<1> HIDE DEF q, k, s, r
<1>3. r \in Nat \ {0} /\ \A n \in Int : r <= n <=> q <= k * n
  BY <1>1, <1>2, RequiredPacksIs
<1>4. r <= q
  <2>1. q <= k * q
    BY <1>1
  <2> QED
    BY <1>1, <1>3, <2>1
<1>5. s >= r <=> s * k >= q
  <2>1. r <= s <=> q <= k * s
    BY <1>1, <1>3
  <2>2. k * s = s * k /\ k * s \in Int
    BY <1>1
  <2> QED
    BY <1>1, <1>3, <2>1, <2>2
<1>6. ASSUME NEW n \in 0..q PROVE (n * k >= q /\ (n - 1) * k < q) <=> n = r
  <2>0. n \in Int /\ n - 1 \in Int
    BY <1>1
  <2>1. (r <= n <=> q <= k * n) /\ (r <= n - 1 <=> q <= k * (n - 1))
    BY <1>3, <2>0
  <2>2. k * n = n * k /\ k * (n - 1) = (n - 1) * k /\ n * k \in Int /\ (n - 1) * k \in Int
    BY <1>1, <2>0
  <2>. DEFINE x == n * k
              y == (n - 1) * k
  <2>3. x \in Int /\ y \in Int /\ (r <= n <=> q <= x) /\ (r <= n - 1 <=> q <= y)
    BY <2>1, <2>2
  <2> HIDE DEF x, y
  <2>4. (x >= q /\ y < q) <=> n = r
    BY <1>1, <1>3, <2>0, <2>3
  <2> QED
    BY <2>4 DEF x, y
<1>7. CoversPacks(o, Needed(o)) <=> Uncounted(o) \/ s >= r
  BY DEF CoversPacks, s, r
<1>8. Uncounted(o) \/ s * k >= q => AvailableQuantity(o) >= q
  <2>1. CASE Uncounted(o)
    <3>1. AvailableQuantity(o) = Million
      BY <2>1 DEF AvailableQuantity
    <3> QED
      BY <1>1, <3>1, MillionIs
  <2>2. CASE ~ Uncounted(o)
    <3>1. AvailableQuantity(o) = k * s
      BY <2>2 DEF AvailableQuantity, k, s
    <3>2. k * s = s * k /\ k * s \in Int
      BY <1>1
    <3> QED
      BY <2>2, <3>1, <3>2
  <2> QED
    BY <2>1, <2>2
<1>9. CoversPacks(o, Needed(o)) <=> Uncounted(o) \/ s * k >= q
  BY <1>5, <1>7
<1> QED
  BY <1>3, <1>4, <1>6, <1>8, <1>9 DEF q, k, s, r

\* The whole offers of an assignment.
WholeOf(offers) ==
    {o \in offers : /\ o.comparable
                    /\ o.fulfillment \notin Later \cup {"unavailable"}
                    /\ Uncounted(o) \/ o.stock * o.pack >= request.cart[o.product]}

OnCart == {o \in request.offers : o.product \in DOMAIN request.cart}

OnCartRoute == {o \in request.offers : Geolocated(o) /\ o.product \in DOMAIN request.cart}

\* An assignment gives each product an offer that is eligible.
LEMMA AssignmentsAre ==
    /\ AllAssignments = {a \in [DOMAIN request.cart -> WholeOf(OnCart)] :
                            \A p \in DOMAIN request.cart : a[p].product = p}
    /\ OnRouteAssignments = {a \in [DOMAIN request.cart -> WholeOf(OnCartRoute)] :
                                \A p \in DOMAIN request.cart : a[p].product = p}
    /\ OnRouteAssignments \subseteq AllAssignments
<1>1. \A offers : Assignments(offers) =
         {a \in [DOMAIN request.cart -> WholeOf(offers)] : \A p \in DOMAIN a : a[p].product = p}
  BY DEF Assignments, WholeOf
<1>2. \A offers : Assignments(offers) =
         {a \in [DOMAIN request.cart -> WholeOf(offers)] : \A p \in DOMAIN request.cart : a[p].product = p}
  BY <1>1
<1>3. WholeOf(OnCartRoute) \subseteq WholeOf(OnCart)
  BY DEF WholeOf, OnCart, OnCartRoute
<1>4. AllAssignments = Assignments(OnCart) /\ OnRouteAssignments = Assignments(OnCartRoute)
  BY DEF AllAssignments, OnRouteAssignments, OnCart, OnCartRoute
<1> QED
  BY <1>2, <1>3, <1>4

\* What may be bought whole is eligible, and in the first pool of any offers it is among.
LEMMA WholeOfIs ==
    ASSUME GivenSearch, NEW o \in WholeOf(OnCart)
    PROVE  /\ o \in Eligible /\ (o \in OnCartRoute => o \in OnRoute) /\ OfferOK(o)
           /\ \A S : o \in S => o \in Pool("available", S, o.product)
<1>1. /\ o \in request.offers /\ o.product \in DOMAIN request.cart /\ OfferOK(o) /\ RequestOK
      /\ o.comparable /\ o.fulfillment \notin Later \cup {"unavailable"}
      /\ Uncounted(o) \/ o.stock * o.pack >= request.cart[o.product]
  BY DEF WholeOf, OnCart, GivenSearch, OffersOK
<1>2. CoversPacks(o, Needed(o)) /\ AvailableQuantity(o) >= request.cart[o.product]
  BY <1>1, CoversQuantity
<1>3. o \in Eligible
  BY <1>1, <1>2 DEF Eligible, Comparable
<1>4. o \in OnCartRoute => o \in OnRoute
  BY <1>3 DEF OnRoute, OnCartRoute
<1>5. \A S : o \in S => o \in Pool("available", S, o.product)
  BY <1>1, <1>2 DEF Pool, Stocked, Comparables
<1> QED
  BY <1>1, <1>3, <1>4, <1>5

\* The first pool holds the offers that may be bought whole.
LEMMA PoolIsWhole ==
    ASSUME GivenSearch, NEW S, S \subseteq Eligible, NEW p \in DOMAIN request.cart,
           NEW o \in Pool("available", S, p)
    PROVE  /\ o \in WholeOf(OnCart) /\ o.product = p
           /\ S \subseteq OnRoute => o \in WholeOf(OnCartRoute)
<1>1. /\ o \in S /\ o.product = p /\ o.comparable /\ CoversPacks(o, Needed(o))
      /\ o.fulfillment \notin Later \cup {"unavailable"}
  BY DEF Pool, Stocked, Comparables
<1>2. o \in request.offers /\ OfferOK(o) /\ RequestOK
  BY <1>1, RouteIs DEF GivenSearch, OffersOK
<1>3. Uncounted(o) \/ o.stock * o.pack >= request.cart[o.product]
  BY <1>1, <1>2, CoversQuantity
<1>4. S \subseteq OnRoute => Geolocated(o)
  BY <1>1 DEF OnRoute
<1> QED
  BY <1>1, <1>2, <1>3, <1>4 DEF WholeOf, OnCart, OnCartRoute

\* An assignment is packed in a basket that is complete.
LEMMA PackedIs ==
    ASSUME GivenSearch, NEW a \in AllAssignments
    PROVE  /\ Whole(Packed(a)) /\ DOMAIN a = DOMAIN request.cart
           /\ \A p \in DOMAIN request.cart :
                  /\ Packed(a)[p].offer = a[p] /\ a[p] \in Eligible /\ a[p].product = p
                  /\ \A S : a[p] \in S => a[p] \in Pool("available", S, p)
                  /\ a \in OnRouteAssignments => a[p] \in OnRoute
<1>1. /\ a \in [DOMAIN request.cart -> WholeOf(OnCart)] /\ DOMAIN a = DOMAIN request.cart
      /\ \A p \in DOMAIN request.cart : a[p] \in WholeOf(OnCart) /\ a[p].product = p
      /\ a \in OnRouteAssignments => \A p \in DOMAIN request.cart : a[p] \in WholeOf(OnCartRoute)
  BY AssignmentsAre
<1>2. \A p \in DOMAIN request.cart :
         /\ a[p] \in Eligible /\ a[p].product = p /\ OfferOK(a[p])
         /\ \A S : a[p] \in S => a[p] \in Pool("available", S, p)
         /\ a \in OnRouteAssignments => a[p] \in OnRoute
  <2> SUFFICES ASSUME NEW p \in DOMAIN request.cart
               PROVE  /\ a[p] \in Eligible /\ a[p].product = p /\ OfferOK(a[p])
                      /\ \A S : a[p] \in S => a[p] \in Pool("available", S, p)
                      /\ a \in OnRouteAssignments => a[p] \in OnRoute
    OBVIOUS
  <2>1. a[p] \in WholeOf(OnCart) /\ a[p].product = p
    BY <1>1
  <2>2. /\ a[p] \in Eligible /\ (a[p] \in OnCartRoute => a[p] \in OnRoute) /\ OfferOK(a[p])
        /\ \A S : a[p] \in S => a[p] \in Pool("available", S, p)
    BY <2>1, WholeOfIs
  <2>3. a \in OnRouteAssignments => a[p] \in OnCartRoute
    BY <1>1 DEF WholeOf
  <2> QED
    BY <2>1, <2>2, <2>3
<1>3. ASSUME NEW p \in DOMAIN request.cart
      PROVE  Packed(a)[p] = [kind |-> "available", offer |-> a[p], packs |-> Needed(a[p])]
  <2>. DEFINE o == a[p]
  <2>1. RequestOK /\ OfferOK(o) /\ o.product = p
    BY <1>2 DEF GivenSearch
  <2> HIDE DEF o
  <2>2. /\ Needed(o) \in Nat \ {0} /\ Needed(o) <= request.cart[p]
        /\ \A n \in 0..request.cart[p] :
               (n * o.pack >= request.cart[p] /\ (n - 1) * o.pack < request.cart[p]) <=> n = Needed(o)
    BY <2>1, CoversQuantity
  <2>3. request.cart[p] \in Nat
    BY <2>1, CartIs
  <2>4. Needed(o) \in 0..request.cart[p]
    BY <2>2, <2>3
  <2>5. (CHOOSE n \in 0..request.cart[p] :
            n * o.pack >= request.cart[p] /\ (n - 1) * o.pack < request.cart[p]) = Needed(o)
    BY <2>2, <2>4
  <2> QED
    BY <1>1, <2>5 DEF Packed, o
<1>4. DOMAIN Packed(a) = DOMAIN request.cart
  BY <1>1 DEF Packed
<1>5. ASSUME NEW p \in DOMAIN request.cart
      PROVE  /\ Packed(a)[p].kind = "available" /\ Packed(a)[p].packs = Needed(Packed(a)[p].offer)
             /\ OfferOK(Packed(a)[p].offer) /\ Packed(a)[p].offer.product = p
             /\ Packed(a)[p].offer = a[p]
  <2>. DEFINE line == Packed(a)[p]
              n == Needed(a[p])
  <2>0. line = [kind |-> "available", offer |-> a[p], packs |-> n]
    BY <1>3
  <2> HIDE DEF line, n
  <2>1. line.kind = "available" /\ line.offer = a[p] /\ line.packs = n
    BY <2>0
  <2>2. OfferOK(a[p]) /\ a[p].product = p
    BY <1>2
  <2> QED
    BY <2>1, <2>2 DEF line, n
<1>. DEFINE b == Packed(a)
<1>6. DOMAIN b = DOMAIN request.cart
  BY <1>4
<1>7. \A p \in DOMAIN request.cart :
         b[p].kind = "available" /\ b[p].packs = Needed(b[p].offer) /\ OfferOK(b[p].offer)
         /\ b[p].offer.product = p /\ b[p].offer = a[p]
  BY <1>5
<1> HIDE DEF b
<1>8. Whole(b)
  BY <1>6, <1>7 DEF Whole
<1>9. Whole(Packed(a)) /\ DOMAIN a = DOMAIN request.cart
  BY <1>1, <1>8 DEF b
<1>10. \A p \in DOMAIN request.cart : Packed(a)[p].offer = a[p]
  BY <1>7 DEF b
<1> QED
  BY <1>2, <1>9, <1>10

-----------------------------------------------------------------------------
(* The baskets of assignments *)

\* A basket that is complete is whole.
LEMMA CompleteIsWhole ==
    ASSUME RequestOK, NEW S, OffersOK(S), Complete(Basket(S))
    PROVE  /\ Whole(Basket(S))
           /\ \A p \in DOMAIN request.cart :
                  /\ Basket(S)[p].offer \in Pool("available", S, p)
                  /\ Basket(S)[p] = [kind |-> "available", offer |-> Basket(S)[p].offer,
                                     packs |-> Basket(S)[p].packs]
<1>1. ASSUME NEW p \in DOMAIN request.cart
      PROVE  /\ Line(S, p).kind = "available" /\ Line(S, p).offer \in Pool("available", S, p)
             /\ Line(S, p) = [kind |-> "available", offer |-> Line(S, p).offer,
                              packs |-> Line(S, p).packs]
  <2>1. Line(S, p).kind = "available"
    BY BasketIs DEF Complete
  <2>. DEFINE line == Line(S, p)
  <2>2. \/ line.kind \in {"out_of_stock", "unavailable"}
        \/ /\ line.offer \in Pool(line.kind, S, p)
           /\ line = [kind |-> line.kind, offer |-> line.offer, packs |-> line.packs]
    BY LineIs
  <2> HIDE DEF line
  <2>3. line.kind = "available"
    BY <2>1 DEF line
  <2>4. line.offer \in Pool("available", S, p)
    BY <2>2, <2>3
  <2>5. line = [kind |-> "available", offer |-> line.offer, packs |-> line.packs]
    BY <2>2, <2>3
  <2> QED
    BY <2>3, <2>4, <2>5 DEF line
<1>2. ASSUME NEW p \in DOMAIN request.cart
      PROVE  /\ Line(S, p).packs = Needed(Line(S, p).offer)
             /\ OfferOK(Line(S, p).offer) /\ Line(S, p).offer.product = p
  <2>. DEFINE o == Line(S, p).offer
  <2>1. o \in Pool("available", S, p)
    BY <1>1
  <2>2. Line(S, p).packs = Needed(o)
    BY <2>1, LineIsCheapest
  <2> HIDE DEF o
  <2>3. o.product = p /\ OfferOK(o)
    BY <2>1, PoolIs
  <2> QED
    BY <2>2, <2>3 DEF o
<1>. DEFINE b == Basket(S)
<1>3. DOMAIN b = DOMAIN request.cart /\ \A p \in DOMAIN request.cart : b[p] = Line(S, p)
  BY BasketIs
<1> HIDE DEF b
<1>4. \A p \in DOMAIN request.cart :
         b[p].kind = "available" /\ b[p].packs = Needed(b[p].offer) /\ OfferOK(b[p].offer)
         /\ b[p].offer.product = p
  BY <1>1, <1>2, <1>3
<1>5. Whole(b)
  BY <1>3, <1>4 DEF Whole
<1>6. \A p \in DOMAIN request.cart :
         /\ b[p].offer \in Pool("available", S, p)
         /\ b[p] = [kind |-> "available", offer |-> b[p].offer, packs |-> b[p].packs]
  BY <1>1, <1>3
<1> QED
  BY <1>5, <1>6 DEF b

\* The basket of offers that hold an assignment is complete and no dearer.
LEMMA CheapestBasket ==
    ASSUME GivenSearch, NEW a \in AllAssignments, NEW S, S \subseteq request.offers,
           \A p \in DOMAIN request.cart : a[p] \in S
    PROVE  /\ Complete(Basket(S)) /\ OffersOK(S)
           /\ Total(Basket(S)) <= Total(Packed(a))
<1>1. RequestOK /\ OffersOK(S)
  BY FS_Subset DEF GivenSearch, OffersOK
<1>2. \A p \in DOMAIN request.cart : a[p] \in Pool("available", S, p)
  BY PackedIs
<1>3. Complete(Basket(S))
  BY <1>1, <1>2, CompleteIs
<1>4. Whole(Basket(S)) /\ Whole(Packed(a))
  BY <1>1, <1>3, CompleteIsWhole, PackedIs
<1>5. ASSUME NEW p \in DOMAIN request.cart
      PROVE  LineCost(Basket(S)[p].offer, Basket(S)[p].packs)
                 <= LineCost(Packed(a)[p].offer, Packed(a)[p].packs)
  <2>1. LineCost(Line(S, p).offer, Line(S, p).packs) <= LineCost(a[p], Needed(a[p]))
    BY <1>1, <1>2, LineIsCheapest
  <2>2. Packed(a)[p].offer = a[p]
    BY PackedIs
  <2>3. Packed(a)[p].packs = Needed(a[p])
    BY <1>1, <1>4, <2>2, WholeLine
  <2>4. Basket(S)[p] = Line(S, p)
    BY BasketIs
  <2> QED
    BY <2>1, <2>2, <2>3, <2>4
<1>6. Total(Basket(S)) <= Total(Packed(a))
  <2>. DEFINE b == Basket(S)
              c == Packed(a)
  <2>1. Whole(b) /\ Whole(c) /\ \A p \in DOMAIN request.cart :
            LineCost(b[p].offer, b[p].packs) <= LineCost(c[p].offer, c[p].packs)
    BY <1>4, <1>5
  <2> HIDE DEF b, c
  <2>2. Total(b) <= Total(c)
    BY <1>1, <2>1, WholeTotal
  <2> QED
    BY <2>2 DEF b, c
<1> QED
  BY <1>1, <1>3, <1>6

\* The offers of a basket that is complete are an assignment.
LEMMA BasketAssigned ==
    ASSUME GivenSearch, NEW S, S \subseteq Eligible, OffersOK(S), Complete(Basket(S))
    PROVE  \E a \in AllAssignments :
              /\ Used(Packed(a)) = Used(Basket(S))
              /\ S \subseteq OnRoute => a \in OnRouteAssignments
<1>. DEFINE b == Basket(S)
            a == [p \in DOMAIN request.cart |-> b[p].offer]
<1>1. RequestOK /\ Whole(b) /\ \A p \in DOMAIN request.cart : b[p].offer \in Pool("available", S, p)
  BY CompleteIsWhole DEF GivenSearch
<1>2. ASSUME NEW p \in DOMAIN request.cart
      PROVE  /\ a[p] \in WholeOf(OnCart) /\ a[p].product = p
             /\ S \subseteq OnRoute => a[p] \in WholeOf(OnCartRoute)
  <2>. DEFINE o == b[p].offer
  <2>1. o \in Pool("available", S, p)
    BY <1>1
  <2> HIDE DEF o
  <2>2. /\ o \in WholeOf(OnCart) /\ o.product = p
        /\ S \subseteq OnRoute => o \in WholeOf(OnCartRoute)
    BY <2>1, PoolIsWhole
  <2> QED
    BY <2>2 DEF o
<1>3. a \in AllAssignments
  BY <1>2, AssignmentsAre
<1>4. S \subseteq OnRoute => a \in OnRouteAssignments
  BY <1>2, AssignmentsAre
<1>5. \A p \in DOMAIN request.cart : a[p] = b[p].offer
  OBVIOUS
<1> HIDE DEF a, b
<1>6. Whole(Packed(a)) /\ \A p \in DOMAIN request.cart : Packed(a)[p].offer = a[p]
  BY <1>3, PackedIs
<1>7. /\ Used(b) = {b[p].offer.agency : p \in DOMAIN request.cart}
      /\ Used(Packed(a)) = {Packed(a)[p].offer.agency : p \in DOMAIN request.cart}
  BY <1>1, <1>6, WholeUsed
<1>8. Used(Packed(a)) = Used(b)
  BY <1>5, <1>6, <1>7
<1> QED
  BY <1>3, <1>4, <1>8 DEF b

\* What may be bought of all offers, and of those on the route.
LEMMA AssignmentsExist ==
    ASSUME GivenSearch
    PROVE  /\ Complete(Basket(OnRoute)) <=> OnRouteAssignments # {}
           /\ Complete(Basket(Eligible)) <=> AllAssignments # {}
<1>0. RequestOK /\ OffersOK(OnRoute) /\ OffersOK(Eligible) /\ OnRoute \subseteq Eligible
      /\ OnRoute \subseteq request.offers /\ Eligible \subseteq request.offers
  BY RouteIs DEF GivenSearch
<1>1. ASSUME Complete(Basket(OnRoute)) PROVE OnRouteAssignments # {}
  BY <1>0, <1>1, BasketAssigned
<1>2. ASSUME Complete(Basket(Eligible)) PROVE AllAssignments # {}
  BY <1>0, <1>2, BasketAssigned
<1>3. ASSUME NEW a \in OnRouteAssignments PROVE Complete(Basket(OnRoute))
  <2>1. a \in AllAssignments
    BY AssignmentsAre
  <2>2. \A p \in DOMAIN request.cart : a[p] \in OnRoute
    BY <2>1, PackedIs
  <2> QED
    BY <1>0, <2>1, <2>2, CheapestBasket
<1>4. ASSUME NEW a \in AllAssignments PROVE Complete(Basket(Eligible))
  <2>1. \A p \in DOMAIN request.cart : a[p] \in Eligible
    BY PackedIs
  <2> QED
    BY <1>0, <2>1, CheapestBasket
<1> QED
  BY <1>1, <1>2, <1>3, <1>4

\* The shortest tour has a time and a distance.
LEMMA ExhaustiveType ==
    ASSUME NEW layout, NEW S, Placed(layout, S)
    PROVE  Exhaustive(layout, S).time \in Nat /\ Exhaustive(layout, S).distance \in Nat
<1>1. PICK s : Best(layout, S, s) /\ Exhaustive(layout, S) = Tour(layout, s)
  BY ShortestTourIs
<1> QED
  BY <1>1, TourType DEF Best, IsOrder

\* A basket of fewer agencies that is ready sooner costs less with its tour.
LEMMA CheaperDeal ==
    ASSUME GivenSearch, NEW S, S \subseteq OnRoute, Whole(Basket(S)), NEW c, Whole(c),
           Used(c) \subseteq Keys, Used(Basket(S)) \subseteq Used(c),
           Preparation(Basket(S)) <= Preparation(c), Total(Basket(S)) <= Total(c)
    PROVE  Deal(S).cost <= Cost(c, Exhaustive(request.layout, Used(c)))
<1>. DEFINE b == Basket(S)
            tour == Exhaustive(request.layout, Used(b))
            round == Exhaustive(request.layout, Used(c))
<1>1. RequestOK /\ Placed(request.layout, Used(c)) /\ Placed(request.layout, Used(b))
  BY RouteIs, PlacedSubset DEF GivenSearch
<1>2. /\ tour.time \in Nat /\ tour.distance \in Nat /\ round.time \in Nat /\ round.distance \in Nat
      /\ tour.time <= round.time /\ tour.distance <= round.distance
  BY <1>1, ExhaustiveType, TourShrinks
<1>3. Deal(S).cost = Cost(b, tour)
  BY DEF Deal
<1>4. /\ Whole(b) /\ Whole(c) /\ Total(b) <= Total(c) /\ Used(b) \subseteq Used(c)
      /\ Preparation(b) <= Preparation(c)
  OBVIOUS
<1> HIDE DEF b, tour, round
<1>5. Cost(b, tour) <= Cost(c, round)
  BY <1>1, <1>2, <1>4, WholeCost
<1> QED
  BY <1>3, <1>5 DEF round

\* The basket of the agencies and the preparation of an assignment costs no more.
LEMMA WithinCheapest ==
    ASSUME GivenSearch, NEW a \in OnRouteAssignments
    PROVE  LET t == Used(Packed(a))
               n == Preparation(Packed(a))
           IN  /\ t \in SUBSET Keys /\ t # {} /\ n \in Thresholds /\ Fits(t, n)
               /\ Used(Basket(Within(t, n))) \subseteq t
               /\ Total(Basket(Within(t, n))) <= Total(Packed(a))
               /\ Deal(Within(t, n)).cost <= FullCost(a)
<1>. DEFINE c == Packed(a)
            t == Used(c)
            n == Preparation(c)
            S == Within(t, n)
            T == DOMAIN request.cart
<1>1. RequestOK /\ a \in AllAssignments /\ Whole(c)
  BY AssignmentsAre, PackedIs DEF GivenSearch
<1>2. \A p \in T : c[p].offer = a[p] /\ a[p] \in OnRoute /\ a[p].product = p
  BY <1>1, PackedIs
<1>3. /\ IsFiniteSet(t) /\ t # {} /\ n \in Nat /\ t = {c[p].offer.agency : p \in T}
      /\ \E p \in T : n = c[p].offer.prep
      /\ \A p \in T : c[p].offer.prep <= n
  BY <1>1, WholeUsed
<1>4. \A p \in T : a[p].agency \in t /\ a[p].prep <= n
  BY <1>2, <1>3
<1>5. t \in SUBSET Keys
  BY <1>2, <1>3 DEF Keys
<1>6. n \in Thresholds
  BY <1>2, <1>3 DEF Thresholds
<1> HIDE DEF t, n
<1>7. \A p \in T : a[p] \in S
  BY <1>2, <1>4 DEF Within
<1>8. S \subseteq OnRoute /\ S \subseteq request.offers
  BY RouteIs
<1>9. Complete(Basket(S)) /\ OffersOK(S) /\ Total(Basket(S)) <= Total(c)
  <2> HIDE DEF S
  <2> QED
    BY <1>1, <1>7, <1>8, CheapestBasket
<1>10. Covers(S)
  <2>1. \A o \in S : o.product \in T
    BY <1>8 DEF OnRoute, Eligible
  <2>2. \A p \in T : \E o \in S : o.product = p
    BY <1>2, <1>7
  <2> QED
    BY <2>1, <2>2 DEF Covers
<1>11. Fits(t, n)
  BY <1>9, <1>10 DEF Fits
<1>12. Whole(Basket(S)) /\ \A p \in T : Basket(S)[p].offer \in Pool("available", S, p)
  BY <1>1, <1>9, CompleteIsWhole
<1>13. \A p \in T : Basket(S)[p].offer.agency \in t /\ Basket(S)[p].offer.prep <= n
  <2> SUFFICES ASSUME NEW p \in T
               PROVE  Basket(S)[p].offer.agency \in t /\ Basket(S)[p].offer.prep <= n
    OBVIOUS
  <2>. DEFINE o == Basket(S)[p].offer
  <2>1. o \in Pool("available", S, p)
    BY <1>12
  <2> HIDE DEF o
  <2>2. o \in S
    BY <2>1, <1>1, <1>9, PoolIs
  <2>3. o.agency \in t /\ o.prep <= n
    BY <2>2 DEF Within
  <2> QED
    BY <2>3 DEF o
<1> HIDE DEF S
<1>14. Used(Basket(S)) \subseteq t /\ Preparation(Basket(S)) <= n
  <2>. DEFINE b == Basket(S)
  <2>1. /\ Used(b) = {b[p].offer.agency : p \in T}
        /\ \E p \in T : Preparation(b) = b[p].offer.prep
    BY <1>1, <1>12, WholeUsed
  <2>2. \A p \in T : b[p].offer.agency \in t /\ b[p].offer.prep <= n
    BY <1>13
  <2> HIDE DEF b
  <2>3. Used(b) \subseteq t /\ Preparation(b) <= n
    BY <2>1, <2>2
  <2> QED
    BY <2>3 DEF b
<1>15. Deal(S).cost <= Cost(c, Exhaustive(request.layout, t))
  <2>1. Used(c) \subseteq Keys /\ Used(Basket(S)) \subseteq Used(c)
        /\ Preparation(Basket(S)) <= Preparation(c) /\ Total(Basket(S)) <= Total(c)
    BY <1>5, <1>9, <1>14 DEF t, n
  <2> QED
    BY <2>1, <1>1, <1>8, <1>12, CheaperDeal DEF t
<1>16. Deal(S).cost <= FullCost(a)
  BY <1>15 DEF FullCost, t
<1> QED
  BY <1>3, <1>5, <1>6, <1>9, <1>11, <1>14, <1>16 DEF S, t, n

\* Two subsets whose baskets have the same signature make the same deal.
LEMMA SameMark ==
    ASSUME GivenSearch, Twins(request.offers), NEW t, NEW n, NEW u, NEW m,
           Fits(t, n), Fits(u, m), Mark(t, n) = Mark(u, m)
    PROVE  /\ Used(Basket(Within(u, m))) = Used(Basket(Within(t, n)))
           /\ Total(Basket(Within(u, m))) <= Total(Basket(Within(t, n)))
           /\ Deal(Within(u, m)).cost <= Deal(Within(t, n)).cost
<1>. DEFINE S == Within(t, n)
            R == Within(u, m)
            b == Basket(S)
            c == Basket(R)
            T == DOMAIN request.cart
<1>1. RequestOK /\ OffersOK(S) /\ OffersOK(R) /\ S \subseteq OnRoute /\ R \subseteq OnRoute
      /\ S \subseteq request.offers /\ R \subseteq request.offers
  BY RouteIs DEF GivenSearch
<1>2. Complete(b) /\ Complete(c)
  BY DEF Fits
<1>3. /\ Whole(b) /\ \A p \in T : b[p].offer \in Pool("available", S, p)
      /\ Whole(c) /\ \A p \in T : c[p].offer \in Pool("available", R, p)
  BY <1>1, <1>2, CompleteIsWhole
<1>4. DOMAIN b = T /\ DOMAIN c = T /\ \A p \in T : b[p] = Line(S, p) /\ c[p] = Line(R, p)
  BY BasketIs
<1>5. Signature(b) = Signature(c)
  BY DEF Mark
<1> HIDE DEF b, c
<1>6. ASSUME NEW p \in T
      PROVE  b[p].offer.agency = c[p].offer.agency /\ b[p].offer.ref = c[p].offer.ref
  <2>1. Signature(b)[p] = <<b[p].offer.agency, b[p].offer.ref>>
    BY <1>4 DEF Signature
  <2>2. Signature(c)[p] = <<c[p].offer.agency, c[p].offer.ref>>
    BY <1>4 DEF Signature
  <2> QED
    BY <2>1, <2>2, <1>5
<1>7. ASSUME NEW p \in T
      PROVE  /\ b[p].offer.prep = c[p].offer.prep
             /\ LineCost(c[p].offer, c[p].packs) <= LineCost(b[p].offer, b[p].packs)
  <2>. DEFINE o == b[p].offer
              q == c[p].offer
  <2>1. /\ o \in Pool("available", S, p) /\ q \in Pool("available", R, p)
        /\ o.agency = q.agency /\ o.ref = q.ref /\ b[p].packs = Needed(o)
    BY <1>3, <1>6, <1>1, WholeLine
  <2>0. c[p] = Line(R, p)
    BY <1>4
  <2> HIDE DEF o
  <2>2. o \in S /\ q \in R /\ o.product = p /\ q.product = p
    BY <2>1, <1>1, PoolIs
  <2>3. o.prep = q.prep
    BY <1>1, <2>1, <2>2 DEF Twins, Alike
  <2>4. o \in R
    BY <1>1, <2>1, <2>2, <2>3 DEF Within
  <2>5. o \in Pool("available", R, p)
    BY <2>1, <2>4 DEF Pool, Stocked, Comparables
  <2>6. LineCost(Line(R, p).offer, Line(R, p).packs) <= LineCost(o, Needed(o))
    BY <1>1, <2>5, LineIsCheapest
  <2> QED
    BY <2>0, <2>1, <2>3, <2>6 DEF o
<1>8. Used(c) = Used(b) /\ Preparation(c) <= Preparation(b)
  <2>1. /\ Used(c) = {c[p].offer.agency : p \in T} /\ Used(b) = {b[p].offer.agency : p \in T}
        /\ \E p \in T : Preparation(c) = c[p].offer.prep
        /\ \A p \in T : b[p].offer.prep <= Preparation(b)
    BY <1>1, <1>3, WholeUsed
  <2> QED
    BY <2>1, <1>6, <1>7
<1>9. Total(c) <= Total(b)
  BY <1>1, <1>3, <1>7, WholeTotal
<1>10. Used(b) \subseteq Keys
  <2>1. Deal(S).basket = b /\ Used(Deal(S).basket) \subseteq Keys
    BY <1>1, DealIs DEF b
  <2> QED
    BY <2>1
<1>11. Deal(R).cost <= Cost(b, Exhaustive(request.layout, Used(b)))
  BY <1>1, <1>3, <1>8, <1>9, <1>10, CheaperDeal DEF c
<1>12. Deal(S).cost = Cost(b, Exhaustive(request.layout, Used(b)))
  BY DEF Deal, b
<1> QED
  BY <1>8, <1>9, <1>11, <1>12 DEF b, c

-----------------------------------------------------------------------------
(* The strategies *)

\* A whole basket is one of a deal.
LEMMA WholeBasketIn ==
    ASSUME RequestOK, NEW S, OffersOK(S), S \subseteq request.offers, Complete(Basket(S))
    PROVE  /\ Basket(S) \in [DOMAIN request.cart ->
                               [kind : {"available"}, offer : request.offers, packs : Nat \ {0}]]
           /\ Total(Basket(S)) \in Nat
<1>. DEFINE T == DOMAIN request.cart
            R == [kind : {"available"}, offer : request.offers, packs : Nat \ {0}]
<1>1. Whole(Basket(S)) /\ Total(Basket(S)) \in Nat
  BY CompleteIsWhole, WholeTotal
<1>2. ASSUME NEW p \in T PROVE Line(S, p) \in R
  <2>. DEFINE line == Basket(S)[p]
              o == line.offer
              n == line.packs
  <2>1. o \in Pool("available", S, p) /\ line = [kind |-> "available", offer |-> o, packs |-> n]
    BY CompleteIsWhole
  <2>2. n \in Nat \ {0}
    BY <1>1, WholeLine
  <2>3. line = Line(S, p)
    BY BasketIs
  <2> HIDE DEF line, o, n
  <2>4. o \in request.offers
    BY <2>1, PoolIs
  <2> QED
    BY <2>1, <2>2, <2>3, <2>4
<1>3. Basket(S) = [p \in T |-> Line(S, p)]
  BY DEF Basket
<1> HIDE DEF R
<1>4. Basket(S) \in [T -> R]
  BY <1>2, <1>3
<1> QED
  BY <1>1, <1>4 DEF R

\* No strategy is None, and None is no tour.
LEMMA DealIn ==
    ASSUME GivenSearch, None \notin Deals(request.cart, request.offers),
           NEW S, S \subseteq OnRoute, Complete(Basket(S))
    PROVE  Deal(S) # None /\ Deal(S).tour # None
<1>. DEFINE b == Basket(S)
            used == Used(b)
            tour == Exhaustive(request.layout, used)
            cost == Cost(b, tour)
            total == Total(b)
<1>1. RequestOK /\ OffersOK(S) /\ S \subseteq request.offers
  BY RouteIs, DealIs DEF GivenSearch
<1>2. /\ b \in [DOMAIN request.cart ->
                   [kind : {"available"}, offer : request.offers, packs : Nat \ {0}]]
      /\ total \in Nat
  BY <1>1, WholeBasketIn
<1>3. Placed(request.layout, used)
  BY DealIs DEF Deal
<1>4. PICK s : Best(request.layout, used, s) /\ tour = Tour(request.layout, s)
  BY <1>3, ShortestTourIs
<1>5. tour.time \in Nat /\ tour.distance \in Nat
  BY <1>3, ExhaustiveType
<1>6. cost \in Nat
  <2>1. Whole(b)
    BY <1>1, CompleteIsWhole
  <2> HIDE DEF b, tour
  <2> QED
    BY <1>1, <1>5, <2>1, WholeCost
<1>7. s \in Seq(Nat \ {0})
  <2>1. s \in Seq(used) /\ used \subseteq Nat \ {0}
    BY <1>3, <1>4 DEF Best, IsOrder, Placed
  <2> HIDE DEF used
  <2> QED
    BY <2>1, SeqMonotonic
<1>8. tour = [order |-> s, time |-> tour.time, distance |-> tour.distance]
  <2>1. \E x, y : tour = [order |-> s, time |-> x, distance |-> y]
    BY <1>4 DEF Tour
  <2> HIDE DEF tour
  <2> QED
    BY <2>1
<1>9. Deal(S) = [basket |-> b, tour |-> tour, material |-> total, cost |-> cost]
  BY DEF Deal
<1> HIDE DEF b, used, tour, cost, total
<1>10. tour \in Circuits
  BY <1>5, <1>7, <1>8 DEF Circuits
<1>11. Deal(S) \in Deals(request.cart, request.offers)
  BY <1>2, <1>6, <1>9, <1>10 DEF Deals
<1>12. Deal(S).tour = tour
  BY <1>9
<1> QED
  BY <1>10, <1>11, <1>12, NoneAssumption

\* So is the national basket.
LEMMA NationalIn ==
    ASSUME GivenSearch, None \notin Deals(request.cart, request.offers), Complete(Basket(Eligible))
    PROVE  /\ National(Basket(Eligible)) # None /\ National(Basket(Eligible)).tour = None
           /\ National(Basket(Eligible)).material = Total(Basket(Eligible))
           /\ Total(Basket(Eligible)) \in Nat
<1>. DEFINE b == Basket(Eligible)
            total == Total(b)
<1>1. /\ b \in [DOMAIN request.cart ->
                   [kind : {"available"}, offer : request.offers, packs : Nat \ {0}]]
      /\ total \in Nat
  BY RouteIs, WholeBasketIn DEF GivenSearch
<1>2. National(b) = [basket |-> b, tour |-> None, material |-> total, cost |-> total]
  BY DEF National
<1> HIDE DEF b, total
<1>3. None \in Circuits \cup {None}
  OBVIOUS
<1>4. National(b) \in Deals(request.cart, request.offers)
  BY <1>1, <1>2, <1>3 DEF Deals
<1>5. National(b).tour = None /\ National(b).material = total
  BY <1>2
<1> QED
  BY <1>1, <1>4, <1>5 DEF b, total

\* The cost of an assignment is a number.
LEMMA FullCostType ==
    ASSUME GivenSearch, NEW a \in OnRouteAssignments
    PROVE  FullCost(a) \in Int /\ Total(Packed(a)) \in Int
<1>. DEFINE t == Used(Packed(a))
<1>1. RequestOK /\ Whole(Packed(a))
  BY AssignmentsAre, PackedIs DEF GivenSearch
<1>2. Placed(request.layout, t)
  BY WithinCheapest, RouteIs, PlacedSubset
<1>3. Exhaustive(request.layout, t).time \in Nat /\ Exhaustive(request.layout, t).distance \in Nat
  BY <1>2, ExhaustiveType
<1>4. Total(Packed(a)) \in Nat /\ Cost(Packed(a), Exhaustive(request.layout, t)) \in Nat
  BY <1>1, <1>3, WholeTotal, WholeCost
<1> QED
  BY <1>4 DEF FullCost

\* Everything was tried.
AllTried == \A t \in SUBSET Keys : t # {} => \A n \in Thresholds : Tried(t, n)

\* Whatever is assigned on the route, a candidate at agencies of it costs no more.
LEMMA FoundCheaper ==
    ASSUME GivenSearch, FoundOK, Twins(request.offers), AllTried, NEW a \in OnRouteAssignments
    PROVE  \E c \in candidates : /\ c.cost <= FullCost(a) /\ c.material <= Total(Packed(a))
                                 /\ Used(c.basket) \subseteq Used(Packed(a))
<1>. DEFINE t == Used(Packed(a))
            n == Preparation(Packed(a))
            S == Within(t, n)
<1>1. /\ t \in SUBSET Keys /\ t # {} /\ n \in Thresholds /\ Fits(t, n)
      /\ Used(Basket(S)) \subseteq t
      /\ Total(Basket(S)) <= Total(Packed(a))
      /\ Deal(S).cost <= FullCost(a)
  BY WithinCheapest
<1> HIDE DEF t, n, S
<1>2. Mark(t, n) \in seen
  BY <1>1 DEF AllTried, Tried
<1>3. PICK c \in candidates : Mark(t, n) = Signature(c.basket)
  BY <1>2 DEF FoundOK
<1>4. PICK u, m : Fits(u, m) /\ c = Deal(Within(u, m)) /\ Mark(u, m) = Signature(c.basket)
                  /\ c.basket = Basket(Within(u, m))
  BY CandidateIs
<1>5. /\ Used(Basket(Within(u, m))) = Used(Basket(Within(t, n)))
      /\ Total(Basket(Within(u, m))) <= Total(Basket(Within(t, n)))
      /\ Deal(Within(u, m)).cost <= Deal(Within(t, n)).cost
  BY <1>1, <1>3, <1>4, SameMark
<1>. DEFINE R == Within(u, m)
<1>6. /\ R \subseteq OnRoute /\ S \subseteq OnRoute /\ S = Within(t, n)
  BY RouteIs DEF S
<1> HIDE DEF R
<1>7. /\ c.cost = Deal(R).cost /\ c.cost \in Int /\ c.material = Total(Basket(R)) /\ c.material \in Int
      /\ Deal(S).cost \in Int /\ Total(Basket(S)) \in Int
  BY <1>4, <1>6, DealIs DEF R
<1>8. FullCost(a) \in Int /\ Total(Packed(a)) \in Int
  BY FullCostType
<1>9. c.cost <= FullCost(a)
  <2>. DEFINE x == Deal(S).cost
              y == FullCost(a)
  <2>1. x \in Int /\ y \in Int /\ c.cost \in Int /\ c.cost <= x /\ x <= y
    BY <1>1, <1>5, <1>6, <1>7, <1>8 DEF R
  <2> HIDE DEF x, y
  <2> QED
    BY <2>1 DEF y
<1>10. c.material <= Total(Packed(a))
  <2>. DEFINE x == Total(Basket(S))
              y == Total(Packed(a))
  <2>1. x \in Int /\ y \in Int /\ c.material \in Int /\ c.material <= x /\ x <= y
    BY <1>1, <1>5, <1>6, <1>7, <1>8 DEF R
  <2> HIDE DEF x, y
  <2> QED
    BY <2>1 DEF y
<1>11. Used(c.basket) \subseteq Used(Packed(a))
  BY <1>1, <1>4, <1>5, <1>6 DEF t
<1> QED
  BY <1>9, <1>10, <1>11

\* A candidate is an assignment on the route.
LEMMA CandidateAssigned ==
    ASSUME GivenSearch, FoundOK, None \notin Deals(request.cart, request.offers), NEW c \in candidates
    PROVE  /\ \E a \in OnRouteAssignments : Used(Packed(a)) = Used(c.basket)
           /\ c # None /\ c.tour # None /\ Len(c.tour.order) = Cardinality(Used(c.basket))
           /\ IsFiniteSet(Used(c.basket))
<1>1. PICK u, m : Fits(u, m) /\ c = Deal(Within(u, m)) /\ c.basket = Basket(Within(u, m))
  BY CandidateIs
<1>. DEFINE R == Within(u, m)
<1>2. R \subseteq OnRoute /\ R \subseteq Eligible /\ OffersOK(R) /\ Complete(Basket(R))
  BY <1>1, RouteIs DEF Fits
<1> HIDE DEF R
<1>3. \E a \in OnRouteAssignments : Used(Packed(a)) = Used(Basket(R))
  BY <1>2, BasketAssigned
<1>4. Deal(R) # None /\ Deal(R).tour # None
  BY <1>2, DealIn
<1>5. Len(c.tour.order) = Cardinality(Used(c.basket)) /\ IsFiniteSet(Used(c.basket))
  BY CandidateIs
<1> QED
  BY <1>1, <1>3, <1>4, <1>5 DEF R

\* What the least of the candidates promises of the assignments.
LEMMA CompromiseIs ==
    ASSUME GivenSearch, FoundOK, Twins(request.offers), AllTried,
           None \notin Deals(request.cart, request.offers), candidates # {}
    PROVE  /\ Cheapest(candidates) # None
           /\ \A a \in OnRouteAssignments : Cheapest(candidates).cost <= FullCost(a)
<1>1. Cheapest(candidates) \in candidates
      /\ \A c \in candidates : Cheapest(candidates).cost <= c.cost
  BY CheapestIs
<1>2. Cheapest(candidates) # None /\ \A c \in candidates : c.cost \in Int
  BY <1>1, CandidateAssigned, CandidateIs
<1>3. ASSUME NEW a \in OnRouteAssignments PROVE Cheapest(candidates).cost <= FullCost(a)
  <2>1. PICK c \in candidates : c.cost <= FullCost(a)
    BY FoundCheaper
  <2>2. FullCost(a) \in Int
    BY FullCostType
  <2>3. Cheapest(candidates).cost <= c.cost /\ Cheapest(candidates).cost \in Int /\ c.cost \in Int
    BY <1>1, <1>2
  <2>. DEFINE x == Cheapest(candidates).cost
              y == FullCost(a)
  <2> HIDE DEF x, y
  <2>4. x <= y
    BY <2>1, <2>2, <2>3 DEF x, y
  <2> QED
    BY <2>4 DEF x, y
<1> QED
  BY <1>2, <1>3

Singles == {c \in candidates : Len(c.tour.order) = 1}

Alone == {a \in OnRouteAssignments : Cardinality(Used(Packed(a))) = 1}

\* An assignment to one agency has a candidate of one stop that costs no more.
LEMMA SingleIs ==
    ASSUME GivenSearch, FoundOK, Twins(request.offers), AllTried,
           None \notin Deals(request.cart, request.offers)
    PROVE  /\ Singles = {} <=> Alone = {}
           /\ Singles # {} => Cheapest(Singles) # None
           /\ \A a \in Alone : Cheapest(Singles).cost <= FullCost(a)
<1>1. ASSUME NEW c \in Singles PROVE Alone # {}
  <2>1. c \in candidates /\ Len(c.tour.order) = 1
    BY DEF Singles
  <2>2. PICK a \in OnRouteAssignments : Used(Packed(a)) = Used(c.basket)
    BY <2>1, CandidateAssigned
  <2>3. Cardinality(Used(c.basket)) = 1
    BY <2>1, CandidateAssigned
  <2> QED
    BY <2>2, <2>3 DEF Alone
<1>2. ASSUME NEW a \in Alone PROVE \E c \in Singles : c.cost <= FullCost(a)
  <2>1. a \in OnRouteAssignments /\ Cardinality(Used(Packed(a))) = 1
    BY DEF Alone
  <2>2. PICK c \in candidates : c.cost <= FullCost(a) /\ Used(c.basket) \subseteq Used(Packed(a))
    BY <2>1, FoundCheaper
  <2>3. /\ Len(c.tour.order) = Cardinality(Used(c.basket)) /\ IsFiniteSet(Used(c.basket))
        /\ \E b \in OnRouteAssignments : Used(Packed(b)) = Used(c.basket)
    BY CandidateAssigned
  <2>4. PICK b \in OnRouteAssignments : Used(Packed(b)) = Used(c.basket)
    BY <2>3
  <2>5. Used(Packed(b)) # {} /\ IsFiniteSet(Used(Packed(a)))
    <3>1. RequestOK /\ Whole(Packed(b)) /\ Whole(Packed(a))
      BY <2>1, AssignmentsAre, PackedIs DEF GivenSearch
    <3> QED
      BY <3>1, WholeUsed
  <2>6. Cardinality(Used(c.basket)) \in Nat /\ Cardinality(Used(c.basket)) # 0
        /\ Cardinality(Used(c.basket)) <= Cardinality(Used(Packed(a)))
    BY <2>2, <2>3, <2>4, <2>5, FS_CardinalityType, FS_EmptySet, FS_Subset
  <2>7. Len(c.tour.order) = 1
    <3>. DEFINE n == Cardinality(Used(c.basket))
    <3>1. n \in Nat /\ n # 0 /\ n <= 1 /\ Len(c.tour.order) = n
      BY <2>1, <2>3, <2>6
    <3> HIDE DEF n
    <3> QED
      BY <3>1
  <2> QED
    BY <2>2, <2>7 DEF Singles
<1>3. Singles \subseteq candidates
  BY DEF Singles
<1>4. ASSUME Singles # {}
      PROVE  /\ Cheapest(Singles) \in Singles /\ Cheapest(Singles) # None
             /\ \A c \in Singles : Cheapest(Singles).cost <= c.cost
  BY <1>3, <1>4, CheapestIs, CandidateAssigned
<1>5. ASSUME NEW a \in Alone PROVE Cheapest(Singles).cost <= FullCost(a)
  <2>1. PICK c \in Singles : c.cost <= FullCost(a)
    BY <1>2
  <2>2. a \in OnRouteAssignments
    BY DEF Alone
  <2>3. FullCost(a) \in Int
    BY <2>2, FullCostType
  <2>4. Cheapest(Singles) \in candidates /\ c \in candidates /\ Cheapest(Singles).cost <= c.cost
    BY <1>3, <1>4, <2>1
  <2>5. Cheapest(Singles).cost \in Int /\ c.cost \in Int
    BY <2>4, CandidateIs
  <2>. DEFINE x == Cheapest(Singles).cost
              y == FullCost(a)
  <2> HIDE DEF x, y
  <2>6. x <= y
    BY <2>1, <2>3, <2>4, <2>5 DEF x, y
  <2> QED
    BY <2>6 DEF x, y
<1> QED
  BY <1>1, <1>2, <1>4, <1>5

\* The national prices bound the materials of all assignments.
LEMMA NationalIs ==
    ASSUME GivenSearch, NEW a \in AllAssignments
    PROVE  /\ Total(Basket(Eligible)) <= Total(Packed(a))
           /\ Total(Packed(a)) \in Int /\ Total(Basket(Eligible)) \in Int
<1>1. RequestOK /\ Eligible \subseteq request.offers /\ OffersOK(Eligible) /\ Whole(Packed(a))
  BY RouteIs, PackedIs DEF GivenSearch
<1>2. \A p \in DOMAIN request.cart : a[p] \in Eligible
  BY PackedIs
<1>3. Total(Basket(Eligible)) <= Total(Packed(a))
  BY <1>1, <1>2, CheapestBasket
<1> QED
  BY <1>1, <1>3, WholeTotal, TotalIs

\* The least materials of all assignments; at their price, the least cost on the route.
LEMMA MinimumIs ==
    ASSUME GivenSearch, FoundOK, Twins(request.offers), AllTried,
           None \notin Deals(request.cart, request.offers), candidates # {}, AllAssignments # {}
    PROVE  LET minimum == MinimumOf(candidates) IN
           /\ minimum # None
           /\ \A a \in AllAssignments : minimum.material <= Total(Packed(a))
           /\ \A a \in OnRouteAssignments :
                  minimum.material = Total(Packed(a)) =>
                      minimum.tour # None /\ minimum.cost <= FullCost(a)
<1>. DEFINE national == Basket(Eligible)
            best == Least([c \in candidates |-> <<c.material>> \o CostRank(c)])
            minimum == MinimumOf(candidates)
            total == Total(national)
<1>1. /\ best \in candidates
      /\ \A c \in candidates :
             best.material < c.material \/ (best.material = c.material /\ best.cost <= c.cost)
  BY LightestIs
<1>2. /\ National(national) # None /\ National(national).material = total /\ total \in Int
      /\ National(national).tour = None
  BY AssignmentsExist, NationalIn
<1>3. minimum = IF total < best.material THEN National(national) ELSE best
  BY DEF MinimumOf
<1> HIDE DEF national, best, minimum, total
<1>4. /\ best # None /\ best.tour # None /\ best.material \in Int /\ best.cost \in Int
      /\ \A c \in candidates : c.material \in Int /\ c.cost \in Int
  BY <1>1, CandidateAssigned, CandidateIs
<1>5. minimum # None
  BY <1>2, <1>3, <1>4
<1>6. ASSUME NEW a \in AllAssignments PROVE minimum.material <= Total(Packed(a))
  <2>. DEFINE y == Total(Packed(a))
  <2>1. total <= y /\ y \in Int
    BY NationalIs DEF total, national
  <2> HIDE DEF y
  <2>2. CASE total < best.material
    BY <1>2, <1>3, <2>1, <2>2 DEF y
  <2>3. CASE ~ (total < best.material)
    <3>1. minimum = best /\ best.material <= total
      BY <1>2, <1>3, <1>4, <2>3
    <3>2. best.material <= y
      BY <3>1, <1>2, <1>4, <2>1
    <3> QED
      BY <3>1, <3>2 DEF y
  <2> QED
    BY <2>2, <2>3
<1>7. ASSUME NEW a \in OnRouteAssignments, minimum.material = Total(Packed(a))
      PROVE  minimum.tour # None /\ minimum.cost <= FullCost(a)
  <2>. DEFINE y == Total(Packed(a))
              x == FullCost(a)
  <2>1. PICK c \in candidates : c.cost <= x /\ c.material <= y
    BY FoundCheaper
  <2>2. x \in Int /\ y \in Int /\ minimum.material = y
    BY <1>7, FullCostType
  <2> HIDE DEF x, y
  <2>3. /\ c.material \in Int /\ c.cost \in Int
        /\ best.material < c.material \/ (best.material = c.material /\ best.cost <= c.cost)
    BY <1>1, <1>4
  <2>4. minimum = best
    <3> SUFFICES ASSUME total < best.material PROVE FALSE
      BY <1>3
    <3>1. minimum.material = total
      BY <1>2, <1>3
    <3> QED
      BY <1>2, <1>4, <2>1, <2>2, <2>3, <3>1
  <2>5. best.material = y
    BY <2>2, <2>4
  <2>6. best.cost <= x
    BY <1>4, <2>1, <2>2, <2>3, <2>5
  <2> QED
    BY <1>4, <2>4, <2>6 DEF x
<1> QED
  BY <1>5, <1>6, <1>7 DEF minimum

\* The fields of the answer.
LEMMA ReplyIs ==
    /\ ~ Complete(Basket(OnRoute)) =>
           /\ Reply.single = None /\ Reply.compromise = None
           /\ Reply.minimum = IF Complete(Basket(Eligible)) THEN National(Basket(Eligible)) ELSE None
    /\ Complete(Basket(OnRoute)) /\ candidates # {} =>
           /\ Reply.single = IF Singles = {} THEN None ELSE Cheapest(Singles)
           /\ Reply.compromise = Cheapest(candidates)
           /\ Reply.minimum = MinimumOf(candidates)
  BY DEF Reply, Singles

\* What is answered costs no more than any assignment.
LEMMA ReplyIsCheapest ==
    ASSUME GivenSearch, FoundOK, Twins(request.offers), Complete(Basket(OnRoute)) => AllTried,
           None \notin Deals(request.cart, request.offers)
    PROVE  /\ (Reply.compromise = None) <=> (OnRouteAssignments = {})
           /\ \A a \in OnRouteAssignments : Reply.compromise.cost <= FullCost(a)
           /\ (Reply.single = None) <=> (Alone = {})
           /\ \A a \in Alone : Reply.single.cost <= FullCost(a)
           /\ (Reply.minimum = None) <=> (AllAssignments = {})
           /\ \A a \in AllAssignments : Reply.minimum.material <= Total(Packed(a))
           /\ \A a \in OnRouteAssignments :
                  Reply.minimum.material = Total(Packed(a)) =>
                      Reply.minimum.tour # None /\ Reply.minimum.cost <= FullCost(a)
<1>1. CASE ~ Complete(Basket(OnRoute))
  <2>1. OnRouteAssignments = {} /\ Alone = {}
    BY <1>1, AssignmentsExist DEF Alone
  <2>2. /\ Reply.single = None /\ Reply.compromise = None
        /\ Reply.minimum = IF Complete(Basket(Eligible)) THEN National(Basket(Eligible)) ELSE None
    BY <1>1, ReplyIs
  <2>3. Complete(Basket(Eligible)) <=> AllAssignments # {}
    BY AssignmentsExist
  <2>4. (Reply.minimum = None) <=> (AllAssignments = {})
    BY <2>2, <2>3, NationalIn
  <2>5. ASSUME NEW a \in AllAssignments PROVE Reply.minimum.material <= Total(Packed(a))
    <3>1. Reply.minimum = National(Basket(Eligible))
      BY <2>2, <2>3
    <3>2. National(Basket(Eligible)).material = Total(Basket(Eligible))
      BY <2>3, NationalIn
    <3>3. Total(Basket(Eligible)) <= Total(Packed(a))
      BY NationalIs
    <3> QED
      BY <3>1, <3>2, <3>3
  <2> QED
    BY <2>1, <2>2, <2>4, <2>5
<1>2. CASE Complete(Basket(OnRoute))
  <2>1. AllTried /\ OnRouteAssignments # {}
    BY <1>2, AssignmentsExist
  <2>2. candidates # {}
    BY <2>1, FoundCheaper
  <2>3. AllAssignments # {}
    BY <2>1, AssignmentsAre
  <2>4. /\ Reply.single = IF Singles = {} THEN None ELSE Cheapest(Singles)
        /\ Reply.compromise = Cheapest(candidates)
        /\ Reply.minimum = MinimumOf(candidates)
    BY <1>2, <2>2, ReplyIs
  <2>5. /\ Reply.compromise # None
        /\ \A a \in OnRouteAssignments : Reply.compromise.cost <= FullCost(a)
    BY <2>1, <2>2, <2>4, CompromiseIs
  <2>6. /\ (Reply.single = None) <=> (Alone = {})
        /\ \A a \in Alone : Reply.single.cost <= FullCost(a)
    <3>1. /\ Singles = {} <=> Alone = {}
          /\ Singles # {} => Cheapest(Singles) # None
          /\ \A a \in Alone : Cheapest(Singles).cost <= FullCost(a)
      BY <2>1, SingleIs
    <3>2. \A a \in Alone : Reply.single = Cheapest(Singles)
      BY <2>4, <3>1
    <3> QED
      BY <2>4, <3>1, <3>2
  <2>7. /\ Reply.minimum # None
        /\ \A a \in AllAssignments : Reply.minimum.material <= Total(Packed(a))
        /\ \A a \in OnRouteAssignments :
               Reply.minimum.material = Total(Packed(a)) =>
                   Reply.minimum.tour # None /\ Reply.minimum.cost <= FullCost(a)
    BY <2>1, <2>2, <2>3, <2>4, MinimumIs
  <2> QED
    BY <2>1, <2>3, <2>5, <2>6, <2>7
<1> QED
  BY <1>1, <1>2

\* What is asked of the search, or nothing was searched.
LEMMA AnswersAreCheapest ==
    RequestTypeOK /\ SearchOK /\ TriedOK /\ TwinsOK => StrategiesAreCheapest
<1> SUFFICES ASSUME RequestTypeOK, SearchOK, TriedOK, TwinsOK PROVE StrategiesAreCheapest
  OBVIOUS
<1>1. ASSUME pc \in {"search", "answered"} PROVE GivenSearch /\ FoundOK
  BY <1>1, GivenIs DEF GivenSearch, RequestTypeOK, GivenOK, Asked, SearchOK
<1>2. ToursAreBest
  <2>1. CASE pc \in {"search", "answered"}
    BY <1>1, <2>1, CandidateIs DEF ToursAreBest
  <2>2. CASE pc \notin {"search", "answered"}
    BY <2>2 DEF RequestTypeOK, Asked, SearchOK, Idle, ToursAreBest
  <2> QED
    BY <2>1, <2>2
<1>3. ASSUME pc = "answered"
      PROVE  /\ strategies = Reply /\ Twins(request.offers)
             /\ Complete(Basket(OnRoute)) => AllTried
             /\ None \notin Deals(request.cart, request.offers)
  BY <1>3 DEF SearchOK, TwinsOK, Asked, TriedOK, AllTried, RequestTypeOK, GivenOK
<1>4. ASSUME pc = "answered"
      PROVE  /\ (strategies.compromise = None) <=> (OnRouteAssignments = {})
             /\ \A a \in OnRouteAssignments : strategies.compromise.cost <= FullCost(a)
             /\ (strategies.single = None) <=> (Alone = {})
             /\ \A a \in Alone : strategies.single.cost <= FullCost(a)
             /\ (strategies.minimum = None) <=> (AllAssignments = {})
             /\ \A a \in AllAssignments : strategies.minimum.material <= Total(Packed(a))
             /\ \A a \in OnRouteAssignments :
                    strategies.minimum.material = Total(Packed(a)) =>
                        strategies.minimum.tour # None /\ strategies.minimum.cost <= FullCost(a)
  BY <1>1, <1>3, <1>4, ReplyIsCheapest
<1>5. CompromiseIsCheapest
  BY <1>2, <1>4 DEF CompromiseIsCheapest
<1> QED
  BY <1>4, <1>5 DEF StrategiesAreCheapest, Alone

\* ProcurementOptimizer tries subsets of agencies and thresholds of preparation, and one
\* basket for each; the strategies it answers cost no more than any assignment at all.
THEOREM StrategiesAreBest == RequestSpec => []StrategiesAreCheapest
<1>. DEFINE Inv == RequestTypeOK /\ SearchOK /\ TriedOK /\ HomesOK /\ TwinsOK
<1>1. RequestInit => Inv
  BY RequestTypeInit, SearchInit, TriedInit, HomesInit
<1>2. Inv /\ [RequestNext]_<<vars, requestVars>> => Inv'
  BY RequestTypeStep, SearchStep, TriedStep, HomesStep
<1>3. Inv => StrategiesAreCheapest
  BY AnswersAreCheapest
<1> QED
  BY <1>1, <1>2, <1>3, PTL DEF RequestSpec

-----------------------------------------------------------------------------
(* Sums over sets *)

\* A class of parts of a finite set that holds the empty part and grows by each element
\* holds the whole.
LEMMA GrowTo ==
    ASSUME NEW S, IsFiniteSet(S), NEW C \in SUBSET (SUBSET S), {} \in C,
           \A T \in C : \A x \in S \ T : T \cup {x} \in C
    PROVE  S \in C
<1>. DEFINE N == {n \in Nat : \A T \in SUBSET S : Cardinality(T) = n => T \in C}
<1>1. \A T \in SUBSET S : IsFiniteSet(T) /\ Cardinality(T) \in Nat
  BY FS_Subset, FS_CardinalityType
<1>2. 0 \in N
  BY <1>1, FS_EmptySet
<1>3. ASSUME NEW n \in N PROVE n + 1 \in N
  <2> SUFFICES ASSUME NEW T \in SUBSET S, Cardinality(T) = n + 1 PROVE T \in C
    OBVIOUS
  <2>1. n \in Nat
    OBVIOUS
  <2>2. T # {} /\ \A x \in T : T \ {x} \in SUBSET S /\ Cardinality(T \ {x}) = n
    BY <2>1, OneLess
  <2>3. PICK x : x \in T
    BY <2>2
  <2>5. T \ {x} \in C
    BY <2>2, <2>3
  <2>6. T = (T \ {x}) \cup {x}
    BY <2>3
  <2> QED
    BY <2>3, <2>5, <2>6
<1>4. N = Nat
  <2> HIDE DEF N
  <2>1. N \in SUBSET Nat
    BY DEF N
  <2> QED
    BY <2>1, <1>2, <1>3, Induction
<1>5. Cardinality(S) \in N
  BY <1>1, <1>4
<1> QED
  BY <1>5

\* The sum of the values of the elements of a set.
TotalOf(v, T) == SumFunction([x \in T |-> v[x]])

\* It is a number.
LEMMA TotalType ==
    ASSUME NEW v, NEW T, IsFiniteSet(T), \A x \in T : v[x] \in Int PROVE TotalOf(v, T) \in Int
  BY SumType DEF TotalOf

\* There is none for no elements,
LEMMA TotalNone == ASSUME NEW v PROVE TotalOf(v, {}) = 0
  BY SumEmpty DEF TotalOf

\* and the same of equal values.
LEMMA TotalAlike ==
    ASSUME NEW v, NEW w, NEW T, \A x \in T : v[x] = w[x] PROVE TotalOf(v, T) = TotalOf(w, T)
<1>1. [x \in T |-> v[x]] = [x \in T |-> w[x]]
  OBVIOUS
<1> QED
  BY <1>1 DEF TotalOf

\* An element more.
LEMMA TotalGrows ==
    ASSUME NEW v, NEW T, IsFiniteSet(T), NEW x, x \notin T, \A y \in T \cup {x} : v[y] \in Int
    PROVE  TotalOf(v, T \cup {x}) = v[x] + TotalOf(v, T)
<1>. DEFINE f == [y \in T \cup {x} |-> v[y]]
            g == [y \in T |-> v[y]]
<1>1. /\ DOMAIN f = T \cup {x} /\ DOMAIN g = (T \cup {x}) \ {x}
      /\ \A y \in T \cup {x} : f[y] \in Int
      /\ \A y \in DOMAIN g : g[y] = f[y]
      /\ f[x] = v[x]
  OBVIOUS
<1>2. IsFiniteSet(T \cup {x})
  BY FS_AddElement
<1> HIDE DEF f, g
<1>3. SumFunction(f) = f[x] + SumFunction(g)
  BY <1>1, <1>2, SumRemove
<1> QED
  BY <1>1, <1>3 DEF TotalOf, f, g

\* One value changed.
LEMMA TotalChanges ==
    ASSUME NEW v, NEW w, NEW T, IsFiniteSet(T), NEW x \in T,
           \A y \in T : v[y] \in Int /\ w[y] \in Int,
           \A y \in T \ {x} : v[y] = w[y]
    PROVE  TotalOf(w, T) = TotalOf(v, T) + (w[x] - v[x])
<1>. DEFINE U == T \ {x}
<1>1. IsFiniteSet(U) /\ x \notin U /\ U \cup {x} = T
  BY FS_Subset
<1>2. \A y \in U : v[y] = w[y] /\ v[y] \in Int
  OBVIOUS
<1> HIDE DEF U
<1>3. TotalOf(w, T) = w[x] + TotalOf(w, U) /\ TotalOf(v, T) = v[x] + TotalOf(v, U)
  BY <1>1, TotalGrows
<1>4. TotalOf(v, U) = TotalOf(w, U) /\ TotalOf(v, U) \in Int
  BY <1>1, <1>2, TotalAlike, TotalType
<1> QED
  BY <1>3, <1>4

\* Nothing and nothing.
LEMMA TotalZero ==
    ASSUME NEW v, NEW S, IsFiniteSet(S), \A x \in S : v[x] = 0 PROVE TotalOf(v, S) = 0
<1>. DEFINE C == {T \in SUBSET S : TotalOf(v, T) = 0}
<1>1. {} \in C
  BY TotalNone
<1>2. ASSUME NEW T \in C, NEW x \in S \ T PROVE T \cup {x} \in C
  <2>1. IsFiniteSet(T) /\ x \notin T /\ \A y \in T \cup {x} : v[y] \in Int
    BY FS_Subset
  <2>2. TotalOf(v, T \cup {x}) = v[x] + TotalOf(v, T)
    BY <2>1, TotalGrows
  <2>3. v[x] = 0 /\ TotalOf(v, T) = 0
    OBVIOUS
  <2> QED
    BY <2>2, <2>3
<1>3. S \in C
  <2>1. C \in SUBSET (SUBSET S)
    OBVIOUS
  <2> HIDE DEF C
  <2> QED
    BY <2>1, <1>1, <1>2, GrowTo
<1> QED
  BY <1>3

\* The elements are counted through others.
LEMMA TotalThrough ==
    ASSUME NEW S, IsFiniteSet(S), NEW F, \A x, y \in S : F[x] = F[y] => x = y,
           NEW v, \A x \in S : v[F[x]] \in Int
    PROVE  TotalOf(v, {F[x] : x \in S}) = TotalOf([x \in S |-> v[F[x]]], S)
<1>. DEFINE w == [x \in S |-> v[F[x]]]
            image(T) == {F[x] : x \in T}
            C == {T \in SUBSET S : TotalOf(v, image(T)) = TotalOf(w, T)}
<1>1. {} \in C
  <2>1. image({}) = {}
    OBVIOUS
  <2> QED
    BY <2>1, TotalNone
<1>2. ASSUME NEW T \in C, NEW x \in S \ T PROVE T \cup {x} \in C
  <2>1. /\ image(T \cup {x}) = image(T) \cup {F[x]} /\ F[x] \notin image(T)
        /\ \A y \in image(T) \cup {F[x]} : v[y] \in Int
        /\ \A y \in T \cup {x} : w[y] \in Int
        /\ w[x] = v[F[x]]
    OBVIOUS
  <2>2. IsFiniteSet(T)
    BY FS_Subset
  <2>3. IsFiniteSet(image(T))
    <3>. DEFINE G == [y \in T |-> F[y]]
    <3>1. DOMAIN G = T /\ \A z \in image(T) : \E y \in T : z = G[y]
      OBVIOUS
    <3> HIDE DEF G, image
    <3> QED
      BY <3>1, <2>2, FiniteValues
  <2>4. TotalOf(v, image(T)) = TotalOf(w, T)
    OBVIOUS
  <2> HIDE DEF image, w
  <2>5. TotalOf(v, image(T) \cup {F[x]}) = v[F[x]] + TotalOf(v, image(T))
    BY <2>1, <2>3, TotalGrows
  <2>6. TotalOf(w, T \cup {x}) = w[x] + TotalOf(w, T)
    BY <2>1, <2>2, TotalGrows
  <2>7. TotalOf(v, image(T \cup {x})) = TotalOf(w, T \cup {x})
    BY <2>1, <2>4, <2>5, <2>6
  <2> QED
    BY <2>7
<1>3. S \in C
  <2>1. C \in SUBSET (SUBSET S)
    OBVIOUS
  <2> HIDE DEF C
  <2> QED
    BY <2>1, <1>1, <1>2, GrowTo
<1> QED
  BY <1>3

\* The sums of the parts c puts the elements in.
TotalsOf(v, c, S, m) == [i \in 1..m |-> TotalOf(v, {x \in S : c[x] = i})]

\* The elements are counted by parts.
LEMMA TotalByParts ==
    ASSUME NEW S, IsFiniteSet(S), NEW m \in Nat, NEW c, \A x \in S : c[x] \in 1..m,
           NEW v, \A x \in S : v[x] \in Int
    PROVE  TotalOf(TotalsOf(v, c, S, m), 1..m) = TotalOf(v, S)
<1>. DEFINE part(T, i) == {x \in T : c[x] = i}
            G(T) == [i \in 1..m |-> TotalOf(v, part(T, i))]
            C == {T \in SUBSET S : TotalOf(G(T), 1..m) = TotalOf(v, T)}
<1>0. IsFiniteSet(1..m)
  BY FiniteInterval
<1>c. ASSUME NEW g, NEW h, NEW k \in 1..m,
             \A i \in 1..m : g[i] \in Int /\ h[i] \in Int,
             \A i \in (1..m) \ {k} : g[i] = h[i]
      PROVE  TotalOf(h, 1..m) = TotalOf(g, 1..m) + (h[k] - g[k])
  BY <1>c, <1>0, TotalChanges
<1>a. \A T \in SUBSET S : IsFiniteSet(T) /\ \A i \in 1..m : IsFiniteSet(part(T, i))
  <2>1. \A T \in SUBSET S : IsFiniteSet(T)
    BY FS_Subset
  <2> QED
    BY <2>1
<1>b. \A T \in SUBSET S : \A i \in 1..m : TotalOf(v, part(T, i)) \in Int
  BY <1>a, TotalType
<1>1. {} \in C
  <2>. DEFINE g == G({})
  <2>1. \A i \in 1..m : part({}, i) = {}
    OBVIOUS
  <2>2. \A i \in 1..m : g[i] = 0
    BY <2>1, TotalNone
  <2> HIDE DEF g
  <2>4. TotalOf(g, 1..m) = 0
    BY <2>2, <1>0, TotalZero
  <2> QED
    BY <2>4, TotalNone DEF g
<1>2. ASSUME NEW T \in C, NEW x \in S \ T PROVE T \cup {x} \in C
  <2>. DEFINE U == T \cup {x}
              k == c[x]
              g == G(T)
              h == G(U)
  <2>1. /\ T \in SUBSET S /\ U \in SUBSET S /\ k \in 1..m
        /\ part(U, k) = part(T, k) \cup {x} /\ x \notin part(T, k)
        /\ \A i \in (1..m) \ {k} : part(U, i) = part(T, i)
        /\ \A y \in part(T, k) \cup {x} : v[y] \in Int
    OBVIOUS
  <2>2. TotalOf(g, 1..m) = TotalOf(v, T)
    OBVIOUS
  <2>3. \A i \in 1..m : g[i] = TotalOf(v, part(T, i)) /\ h[i] = TotalOf(v, part(U, i))
    OBVIOUS
  <2>4. U = T \cup {x} /\ x \notin T
    OBVIOUS
  <2> HIDE DEF part, g, h, U, k
  <2>5. TotalOf(v, U) = v[x] + TotalOf(v, T)
    BY <2>1, <2>4, <1>a, TotalGrows
  <2>6. TotalOf(v, part(U, k)) = v[x] + TotalOf(v, part(T, k))
    BY <2>1, <1>a, TotalGrows
  <2>7. /\ \A i \in 1..m : g[i] \in Int /\ h[i] \in Int
        /\ \A i \in (1..m) \ {k} : g[i] = h[i]
        /\ h[k] = v[x] + g[k] /\ v[x] \in Int
    <3>1. \A i \in 1..m : g[i] \in Int /\ h[i] \in Int
      BY <2>1, <2>3, <1>b
    <3>2. \A i \in (1..m) \ {k} : g[i] = h[i]
      BY <2>1, <2>3
    <3>3. h[k] = v[x] + g[k]
      BY <2>1, <2>3, <2>6
    <3>4. v[x] \in Int
      OBVIOUS
    <3> QED
      BY ONLY <3>1, <3>2, <3>3, <3>4
  <2>8. TotalOf(h, 1..m) = TotalOf(g, 1..m) + (h[k] - g[k])
    BY <1>c, <2>1, <2>7
  <2>9. TotalOf(g, 1..m) \in Int
    BY <2>7, <1>0, TotalType
  <2>10. TotalOf(h, 1..m) = TotalOf(v, U)
    <3>1. h[k] - g[k] = v[x]
      BY <2>1, <2>7
    <3>2. TotalOf(v, T) + v[x] = v[x] + TotalOf(v, T)
      BY <2>2, <2>7, <2>9
    <3> QED
      BY <2>2, <2>5, <2>8, <3>1, <3>2
  <2> QED
    BY <2>1, <2>10 DEF U, h
<1>3. S \in C
  <2>1. C \in SUBSET (SUBSET S)
    OBVIOUS
  <2> HIDE DEF C
  <2> QED
    BY <2>1, <1>1, <1>2, GrowTo
<1>4. G(S) = TotalsOf(v, c, S, m)
  BY DEF TotalsOf
<1> HIDE DEF G
<1> QED
  BY <1>3, <1>4

-----------------------------------------------------------------------------
(* The keys of agencies and of lines *)

\* None is no key, no line and no view.
LEMMA KeysGiven ==
    /\ None \notin AgencyKeys /\ None \notin SelectedLines /\ None \notin [real : Int, gap : Int]
    /\ None \notin Nat
  BY KeysAssumption, NoneAssumption

\* A key is an agency's, and of no other.
LEMMA KeyOfIs ==
    ASSUME NEW a \in Nat \ {0}
    PROVE  /\ KeyOf(a) \in AgencyKeys
           /\ KeyOf(a)[1] = "db" => KeyOf(a) = DbKey(a)
           /\ \A b \in Nat \ {0} : KeyOf(a) = KeyOf(b) => a = b
<1>1. \A b \in DOMAIN LiveKey : LiveKey[b] \in AgencyKeys /\ LiveKey[b][1] # "db"
  BY KeysAssumption
<1>2. \A b, c \in DOMAIN LiveKey : LiveKey[b] = LiveKey[c] => b = c
  BY KeysAssumption
<1>3. \A b \in Nat \ {0} : /\ DbKey(b) \in AgencyKeys /\ DbKey(b)[1] = "db" /\ DbKey(b)[2] = b
  <2> SUFFICES ASSUME NEW b \in Nat \ {0}
               PROVE  DbKey(b) \in AgencyKeys /\ DbKey(b)[1] = "db" /\ DbKey(b)[2] = b
    OBVIOUS
  <2>1. <<"db", b>> \in Namespaces \X (Nat \ {0})
    BY DEF Namespaces
  <2> QED
    BY <2>1 DEF DbKey, AgencyKeys
<1>4. \A b : KeyOf(b) = IF b \in DOMAIN LiveKey THEN LiveKey[b] ELSE DbKey(b)
  BY DEF KeyOf
<1>5. KeyOf(a) \in AgencyKeys
  BY <1>1, <1>3, <1>4
<1>6. KeyOf(a)[1] = "db" => KeyOf(a) = DbKey(a)
  BY <1>1, <1>3, <1>4
<1>7. ASSUME NEW b \in Nat \ {0}, KeyOf(a) = KeyOf(b) PROVE a = b
  <2>1. CASE a \in DOMAIN LiveKey /\ b \in DOMAIN LiveKey
    BY <2>1, <1>2, <1>4, <1>7
  <2>2. CASE a \notin DOMAIN LiveKey /\ b \notin DOMAIN LiveKey
    BY <2>2, <1>3, <1>4, <1>7
  <2>3. CASE (a \in DOMAIN LiveKey) # (b \in DOMAIN LiveKey)
    BY <2>3, <1>1, <1>3, <1>4, <1>7
  <2> QED
    BY <2>1, <2>2, <2>3
<1> QED
  BY <1>5, <1>6, <1>7

\* A key is a namespace and an id.
LEMMA AgencyKeyIs ==
    ASSUME NEW k \in AgencyKeys
    PROVE  k = <<k[1], k[2]>> /\ k[2] \in Nat \ {0}
  BY DEF AgencyKeys

\* What a snapshot of some lines says: B are the products bought, home gives the agency
\* of each and line its line.
Kept(made, B, home, stops, line) ==
    /\ IsFiniteSet(B) /\ B \subseteq Nat \ {0}
    /\ stops \in Seq(Nat \ {0})
    /\ \A p \in B : home[p] \in Nat \ {0} /\ \E i \in 1..Len(stops) : stops[i] = home[p]
    /\ \A i \in 1..Len(stops) : \E p \in B : home[p] = stops[i]
    /\ \A i, j \in 1..Len(stops) : stops[i] = stops[j] => i = j
    /\ \A p \in B : /\ line[p] \in SelectedLines /\ line[p].product = p
                    /\ AgencyKey(line[p]) = KeyOf(home[p]) /\ line[p].agency_id = KeyOf(home[p])[2]
    /\ \E n \in Nat : DOMAIN made.lines = 1..n
    /\ \A i \in DOMAIN made.lines : \E p \in B : made.lines[i] = line[p]
    /\ \A p \in B : \E i \in DOMAIN made.lines : made.lines[i] = line[p]
    /\ DOMAIN made.stops = 1..Len(stops)
    /\ \A i \in 1..Len(stops) : AgencyKey(made.stops[i]) = KeyOf(stops[i])

\* The key of a line is read back as the agency and the product it is made of.
LEMMA KeyIsRead ==
    ASSUME NEW k \in AgencyKeys, NEW x, AgencyKey(x) = k, x.agency_id = k[2]
    PROVE  ParseLineKey(MakeLineKey(x)) = [agency |-> k, product |-> x.product]
<1>1. k = <<k[1], k[2]>>
  BY AgencyKeyIs
<1>2. CASE k[1] = "db"
  <2>1. MakeLineKey(x) = <<k[2], x.product>>
    BY <1>2 DEF MakeLineKey
  <2>2. DbKey(k[2]) = k
    BY <1>1, <1>2 DEF DbKey
  <2> QED
    BY <2>1, <2>2 DEF ParseLineKey
<1>3. CASE k[1] # "db"
  <2>1. MakeLineKey(x) = <<k[1], k[2], x.product>>
    BY <1>3 DEF MakeLineKey
  <2> QED
    BY <1>1, <2>1 DEF ParseLineKey
<1> QED
  BY <1>2, <1>3

\* Each line is found with its key.
LEMMA LineIsFound ==
    ASSUME NEW made, NEW B, NEW home, NEW stops, NEW line, Kept(made, B, home, stops, line),
           NEW p \in B
    PROVE  /\ SnapshotLine(made, MakeLineKey(line[p])) = line[p]
           /\ SnapshotLine(made, MakeLineKey(line[p])) # None
           /\ \A q \in B : MakeLineKey(line[p]) = MakeLineKey(line[q]) => p = q
<1>1. \A q \in B : SnapshotLine(made, MakeLineKey(line[q])) = line[q]
  <2> SUFFICES ASSUME NEW q \in B PROVE SnapshotLine(made, MakeLineKey(line[q])) = line[q]
    OBVIOUS
  <2>. DEFINE k == KeyOf(home[q])
              same == {i \in DOMAIN made.lines : /\ AgencyKey(made.lines[i]) = k
                                                 /\ made.lines[i].product = q}
  <2>1. /\ home[q] \in Nat \ {0} /\ AgencyKey(line[q]) = k /\ line[q].agency_id = k[2]
        /\ line[q].product = q
    BY DEF Kept
  <2>2. k \in AgencyKeys
    BY <2>1, KeyOfIs
  <2>3. ParseLineKey(MakeLineKey(line[q])) = [agency |-> k, product |-> q]
    BY <2>1, <2>2, KeyIsRead
  <2>4. SnapshotLine(made, MakeLineKey(line[q])) = IF same = {} THEN None ELSE made.lines[Min(same)]
    BY <2>3 DEF SnapshotLine
  <2>5. same # {}
    <3>1. PICK i \in DOMAIN made.lines : made.lines[i] = line[q]
      BY DEF Kept
    <3> QED
      BY <2>1, <3>1
  <2>6. \A i \in same : made.lines[i] = line[q]
    <3>1. /\ \A i \in DOMAIN made.lines : \E r \in B : made.lines[i] = line[r]
          /\ \A r \in B : line[r].product = r
      BY DEF Kept
    <3> QED
      BY <3>1
  <2>7. same \in SUBSET Nat
    <3>1. DOMAIN made.lines \in SUBSET Nat
      BY DEF Kept
    <3> QED
      BY <3>1
  <2> HIDE DEF same
  <2>8. Min(same) \in same
    BY <2>5, <2>7, MinIs
  <2> QED
    BY <2>4, <2>5, <2>6, <2>8
<1>2. \A q \in B : line[q].product = q /\ line[q] \in SelectedLines
  BY DEF Kept
<1> QED
  BY <1>1, <1>2, KeysGiven

-----------------------------------------------------------------------------
(* The stores of a list *)

\* Places in order.
LEMMA InOrderIs ==
    ASSUME NEW m \in Nat PROVE InOrder(1..m) = [i \in 1..m |-> i]
<1>. DEFINE key == [i \in 1..m |-> <<i>>]
            s == Sorted(key)
<1>1. DOMAIN key = 1..m /\ IsFiniteSet(DOMAIN key) /\ Cardinality(DOMAIN key) = m
  BY FS_Interval, FiniteInterval
<1>2. \A i \in DOMAIN key : key[i] \in Seq(Int) /\ Len(key[i]) = 1 /\ key[i][1] = i
  OBVIOUS
<1>3. \A i, j \in DOMAIN key : key[i] = key[j] => i = j
  BY <1>2
<1> HIDE DEF key
<1>4. Ranked(key, 1)
  <2>1. 1 \in Nat /\ 1 \in 1..1
    OBVIOUS
  <2>2. \A i \in DOMAIN key : key[i] \in Seq(Int) /\ Len(key[i]) = 1
    BY <1>2
  <2> QED
    BY ONLY <2>1, <2>2, RankedAlike
<1>5. /\ s \in Seq(1..m) /\ Len(s) = m
      /\ \A i, j \in DOMAIN s : i < j => Before(key[s[i]], key[s[j]])
  BY <1>1, <1>3, <1>4, SortedIs
<1>6. \A i, j \in 1..m : Before(key[i], key[j]) => i < j
  BY <1>1, <1>2 DEF Before
<1>7. DOMAIN s = 1..m /\ \A i \in 1..m : s[i] \in 1..m
  BY <1>5
<1> HIDE DEF s
<1>8. \A i, j \in 1..m : i < j => s[i] < s[j]
  BY <1>5, <1>6, <1>7
<1>9. \A i \in 1..m : s[i] >= i
  <2>. DEFINE T == {n \in Nat : n + 1 \in 1..m => s[n + 1] >= n + 1}
  <2>1. 0 \in T
    BY <1>7
  <2>2. ASSUME NEW n \in T PROVE n + 1 \in T
    <3>1. CASE n + 2 \in 1..m
      <4>1. n + 1 \in 1..m /\ n \in Nat
        BY <3>1
      <4>2. s[n + 1] >= n + 1 /\ s[n + 1] < s[n + 2]
        BY <4>1, <3>1, <1>8
      <4>3. s[n + 1] \in 1..m /\ s[n + 2] \in 1..m
        BY <4>1, <3>1, <1>7
      <4> QED
        BY <4>1, <4>2, <4>3
    <3> QED
      BY <3>1
  <2>3. T = Nat
    <3>1. T \in SUBSET Nat
      OBVIOUS
    <3> HIDE DEF T
    <3> QED
      BY <3>1, <2>1, <2>2, Induction
  <2> QED
    <3> SUFFICES ASSUME NEW i \in 1..m PROVE s[i] >= i
      OBVIOUS
    <3>1. i - 1 \in Nat /\ (i - 1) + 1 = i
      OBVIOUS
    <3>2. i - 1 \in T
      BY <2>3, <3>1
    <3> QED
      BY <3>1, <3>2
<1>10. \A i \in 1..m : s[i] <= i
  <2>. DEFINE T == {n \in Nat : m - n \in 1..m => s[m - n] <= m - n}
  <2>1. 0 \in T
    BY <1>7
  <2>2. ASSUME NEW n \in T PROVE n + 1 \in T
    <3>1. CASE m - (n + 1) \in 1..m
      <4>1. m - n \in 1..m /\ n \in Nat
        BY <3>1
      <4>2. s[m - n] <= m - n /\ s[m - (n + 1)] < s[m - n]
        BY <4>1, <3>1, <1>8
      <4>3. s[m - n] \in 1..m /\ s[m - (n + 1)] \in 1..m
        BY <4>1, <3>1, <1>7
      <4> QED
        BY <4>1, <4>2, <4>3
    <3> QED
      BY <3>1
  <2>3. T = Nat
    <3>1. T \in SUBSET Nat
      OBVIOUS
    <3> HIDE DEF T
    <3> QED
      BY <3>1, <2>1, <2>2, Induction
  <2> QED
    <3> SUFFICES ASSUME NEW i \in 1..m PROVE s[i] <= i
      OBVIOUS
    <3>1. m - i \in T
      BY <2>3
    <3> QED
      BY <3>1
<1>11. \A i \in 1..m : s[i] = i
  BY <1>7, <1>9, <1>10
<1>12. s = [i \in 1..m |-> i]
  BY <1>5, <1>7, <1>11
<1>13. InOrder(1..m) = s
  BY DEF InOrder, s, key
<1> QED
  BY <1>12, <1>13

-----------------------------------------------------------------------------
(* The stores and their lines *)

\* Two sequences of the same set, one after the other.
LEMMA JoinIs ==
    ASSUME NEW K, NEW a \in Seq(K), NEW b \in Seq(K), NEW m, NEW n, m = Len(a), n = Len(b)
    PROVE  /\ DOMAIN (a \o b) = 1..(m + n)
           /\ \A i \in 1..m : (a \o b)[i] = a[i]
           /\ \A i \in 1..n : (a \o b)[m + i] = b[i]
  BY BothAre

\* The stores are asked in the order of the stops.
LEMMA OrderedKeysAre ==
    ASSUME NEW made, NEW B, NEW home, NEW stops, NEW line, Kept(made, B, home, stops, line)
    PROVE  OrderedKeys(made) = [i \in 1..Len(stops) |-> KeyOf(stops[i])]
<1>. DEFINE m == Len(stops)
            a == [i \in DOMAIN made.stops |-> AgencyKey(made.stops[i])]
            b == [i \in DOMAIN made.lines |-> AgencyKey(made.lines[i])]
            keys == a \o b
            new == {i \in DOMAIN keys : \A j \in 1..(i - 1) : keys[j] # keys[i]}
<1>1. m \in Nat /\ \A i \in 1..m : stops[i] \in Nat \ {0}
  BY DEF Kept
<1>2. PICK n \in Nat : DOMAIN made.lines = 1..n
  BY DEF Kept
<1>3. /\ DOMAIN made.stops = 1..m
      /\ \A i \in 1..m : AgencyKey(made.stops[i]) = KeyOf(stops[i])
  BY DEF Kept
<1>4. \A i \in 1..n : \E j \in 1..m : AgencyKey(made.lines[i]) = KeyOf(stops[j])
  <2> SUFFICES ASSUME NEW i \in 1..n
               PROVE  \E j \in 1..m : AgencyKey(made.lines[i]) = KeyOf(stops[j])
    OBVIOUS
  <2>1. PICK p \in B : made.lines[i] = line[p]
    BY <1>2 DEF Kept
  <2>2. AgencyKey(line[p]) = KeyOf(home[p]) /\ \E j \in 1..m : stops[j] = home[p]
    BY DEF Kept
  <2> QED
    BY <2>1, <2>2
<1>5. \A i, j \in 1..m : KeyOf(stops[i]) = KeyOf(stops[j]) => i = j
  <2>1. \A i, j \in 1..m : stops[i] = stops[j] => i = j
    BY DEF Kept
  <2> QED
    BY <1>1, <2>1, KeyOfIs
<1>6. /\ a \in Seq({KeyOf(stops[i]) : i \in 1..m}) /\ Len(a) = m
      /\ \A i \in 1..m : a[i] = KeyOf(stops[i])
  BY <1>1, <1>3
<1>7. /\ b \in Seq({KeyOf(stops[i]) : i \in 1..m}) /\ Len(b) = n
      /\ \A i \in 1..n : \E j \in 1..m : b[i] = KeyOf(stops[j])
  BY <1>2, <1>4
<1> HIDE DEF a, b, m
<1>8. /\ DOMAIN keys = 1..(m + n)
      /\ \A i \in 1..m : keys[i] = KeyOf(stops[i])
      /\ \A i \in 1..n : keys[m + i] = b[i]
  <2>. DEFINE K == {KeyOf(stops[i]) : i \in 1..m}
  <2>1. a \in Seq(K) /\ b \in Seq(K) /\ Len(a) = m /\ Len(b) = n
    BY <1>6, <1>7
  <2> HIDE DEF K
  <2>2. /\ DOMAIN (a \o b) = 1..(m + n)
        /\ \A i \in 1..m : (a \o b)[i] = a[i]
        /\ \A i \in 1..n : (a \o b)[m + i] = b[i]
    BY <2>1, JoinIs
  <2>3. \A i \in 1..m : a[i] = KeyOf(stops[i])
    BY <1>6
  <2> QED
    BY ONLY <2>2, <2>3 DEF keys
<1> HIDE DEF keys
<1>9. new = 1..m
  <2>1. \A i \in 1..m : i \in new
    <3> SUFFICES ASSUME NEW i \in 1..m PROVE i \in DOMAIN keys /\ \A j \in 1..(i - 1) : keys[j] # keys[i]
      OBVIOUS
    <3>1. i \in DOMAIN keys /\ \A j \in 1..(i - 1) : j \in 1..m /\ j # i
      BY <1>1, <1>2, <1>8 DEF m
    <3> QED
      BY <3>1, <1>5, <1>8
  <2>2. ASSUME NEW i \in DOMAIN keys, i \notin 1..m PROVE i \notin new
    <3>1. i - m \in 1..n /\ m + (i - m) = i
      BY <2>2, <1>1, <1>2, <1>8 DEF m
    <3>2. PICK j \in 1..m : keys[i] = KeyOf(stops[j])
      BY <3>1, <1>7, <1>8
    <3>3. j \in 1..(i - 1) /\ keys[j] = keys[i]
      BY <2>2, <3>1, <3>2, <1>1, <1>8 DEF m
    <3> QED
      BY <3>3
  <2> QED
    BY <2>1, <2>2
<1>10. InOrder(new) = [i \in 1..m |-> i]
  BY <1>1, <1>9, InOrderIs DEF m
<1>11. OrderedKeys(made) = [i \in DOMAIN InOrder(new) |-> keys[InOrder(new)[i]]]
  BY DEF OrderedKeys, a, b, keys, new
<1> QED
  BY <1>8, <1>10, <1>11 DEF m

\* What f makes of S.
Values(f, S) == {f[x] : x \in S}

\* The products bought at an agency.
BoughtAt(B, home, a) == {p \in B : home[p] = a}

\* The lines of a store are those of the products bought there.
LEMMA LinesAre ==
    ASSUME NEW made, NEW B, NEW home, NEW stops, NEW line, Kept(made, B, home, stops, line),
           NEW i \in 1..Len(stops)
    PROVE  /\ LinesOf(made, KeyOf(stops[i])) = Values(line, BoughtAt(B, home, stops[i]))
           /\ LinesOf(made, KeyOf(stops[i])) # {}
<1>1. ToSet(made.lines) = {line[p] : p \in B}
  <2>1. ToSet(made.lines) = {made.lines[j] : j \in DOMAIN made.lines}
    BY DEF ToSet
  <2>2. /\ \A j \in DOMAIN made.lines : \E p \in B : made.lines[j] = line[p]
        /\ \A p \in B : \E j \in DOMAIN made.lines : made.lines[j] = line[p]
    BY DEF Kept
  <2> QED
    BY <2>1, <2>2
<1>2. \A p \in B : AgencyKey(line[p]) = KeyOf(home[p]) /\ home[p] \in Nat \ {0}
  BY DEF Kept
<1>3. stops[i] \in Nat \ {0}
  BY DEF Kept
<1>4. \A p \in B : AgencyKey(line[p]) = KeyOf(stops[i]) <=> home[p] = stops[i]
  BY <1>2, <1>3, KeyOfIs
<1>5. \E p \in B : home[p] = stops[i]
  BY DEF Kept
<1> QED
  BY <1>1, <1>4, <1>5 DEF LinesOf, Values, BoughtAt

\* There is one store for each stop.
LEMMA StoresAre ==
    ASSUME NEW made, NEW B, NEW home, NEW stops, NEW line, Kept(made, B, home, stops, line), NEW suivi
    PROVE  Stores(made, suivi) =
               [i \in 1..Len(stops) |-> ListedStore(made, suivi, KeyOf(stops[i]), i)]
<1>. DEFINE keys == OrderedKeys(made)
            with == {i \in DOMAIN keys : LinesOf(made, keys[i]) # {}}
            shown == InOrder(with)
<1>1. keys = [i \in 1..Len(stops) |-> KeyOf(stops[i])]
  BY OrderedKeysAre
<1>2. with = 1..Len(stops)
  <2>1. \A i \in 1..Len(stops) : LinesOf(made, KeyOf(stops[i])) # {}
    BY LinesAre
  <2>2. DOMAIN keys = 1..Len(stops) /\ \A i \in 1..Len(stops) : keys[i] = KeyOf(stops[i])
    BY <1>1
  <2> HIDE DEF keys
  <2> QED
    BY <2>1, <2>2
<1>3. Len(stops) \in Nat
  BY DEF Kept
<1>4. Stores(made, suivi) =
          [i \in DOMAIN shown |-> ListedStore(made, suivi, keys[shown[i]], shown[i])]
  BY DEF Stores
<1>5. shown = [i \in 1..Len(stops) |-> i]
  BY <1>2, <1>3, InOrderIs
<1> HIDE DEF shown, keys
<1> QED
  BY <1>1, <1>4, <1>5

\* The lines listed, by product.
Listed(line, suivi, B) == [p \in B |-> ListedLine(line[p], suivi)]

\* The stores of the list and their lines.
LEMMA ListIs ==
    ASSUME NEW made, NEW B, NEW home, NEW stops, NEW line, Kept(made, B, home, stops, line), NEW suivi
    PROVE  LET stores == BuildShoppingList(made, suivi).stores IN
           /\ stores = [i \in 1..Len(stops) |-> ListedStore(made, suivi, KeyOf(stops[i]), i)]
           /\ \A i \in 1..Len(stops) :
                  stores[i].lines = {ListedLine(line[p], suivi) : p \in BoughtAt(B, home, stops[i])}
<1>. DEFINE stores == [i \in 1..Len(stops) |-> ListedStore(made, suivi, KeyOf(stops[i]), i)]
<1>1. Stores(made, suivi) = stores
  BY StoresAre
<1>2. BuildShoppingList(made, suivi).stores = stores
  BY <1>1 DEF BuildShoppingList
<1>3. ASSUME NEW i \in 1..Len(stops)
      PROVE  stores[i].lines = {ListedLine(line[p], suivi) : p \in BoughtAt(B, home, stops[i])}
  <2>1. stores[i].lines = {ListedLine(x, suivi) : x \in LinesOf(made, KeyOf(stops[i]))}
    BY DEF ListedStore
  <2>2. LinesOf(made, KeyOf(stops[i])) = Values(line, BoughtAt(B, home, stops[i]))
    BY LinesAre
  <2> HIDE DEF stores
  <2> QED
    BY <2>1, <2>2 DEF Values
<1> HIDE DEF stores
<1> QED
  BY <1>2, <1>3 DEF stores

\* The lines of the list are the lines bought.
LEMMA ListedAre ==
    ASSUME NEW made, NEW B, NEW home, NEW stops, NEW line, Kept(made, B, home, stops, line), NEW suivi
    PROVE  BuildShoppingList(made, suivi).lines = Values(Listed(line, suivi, B), B)
<1>. DEFINE list == BuildShoppingList(made, suivi)
            stores == list.stores
<1>1. /\ stores = [i \in 1..Len(stops) |-> ListedStore(made, suivi, KeyOf(stops[i]), i)]
      /\ \A i \in 1..Len(stops) :
             stores[i].lines = {ListedLine(line[p], suivi) : p \in BoughtAt(B, home, stops[i])}
  BY ListIs
<1>2. list.lines = UNION {stores[i].lines : i \in DOMAIN stores}
  BY DEF BuildShoppingList
<1>3. \A p \in B : \E i \in 1..Len(stops) : stops[i] = home[p]
  BY DEF Kept
<1>4. DOMAIN stores = 1..Len(stops)
  BY <1>1
<1> HIDE DEF list, stores
<1>. DEFINE U == UNION {stores[i].lines : i \in DOMAIN stores}
            W == {ListedLine(line[p], suivi) : p \in B}
<1>5. U = W
  <2>1. \A x : x \in U <=> \E i \in 1..Len(stops) : x \in stores[i].lines
    BY <1>4
  <2>2. \A i \in 1..Len(stops) : \A x :
            x \in stores[i].lines <=> \E p \in B : home[p] = stops[i] /\ x = ListedLine(line[p], suivi)
    BY <1>1 DEF BoughtAt
  <2>3. \A x : x \in W <=> \E p \in B : x = ListedLine(line[p], suivi)
    OBVIOUS
  <2> HIDE DEF U, W
  <2>4. \A x : x \in U <=> x \in W
    BY <1>3, <2>1, <2>2, <2>3
  <2> QED
    BY <2>4
<1>6. W = Values(Listed(line, suivi, B), B)
  BY DEF Values, Listed
<1> QED
  BY <1>2, <1>5, <1>6 DEF list

\* As many elements as others they are counted through.
LEMMA CountThrough ==
    ASSUME NEW S, IsFiniteSet(S), NEW F, \A x, y \in S : F[x] = F[y] => x = y
    PROVE  IsFiniteSet(Values(F, S)) /\ Cardinality(Values(F, S)) = Cardinality(S)
<1>. DEFINE G == [x \in S |-> F[x]]
            T == Values(F, S)
<1>1. G \in [S -> T] /\ \A x, y \in S : G[x] = G[y] => x = y
  BY DEF Values
<1>2. \A t \in T : \E x \in S : G[x] = t
  BY DEF Values
<1> HIDE DEF G, T
<1>3. G \in Bijection(S, T)
  BY <1>1, <1>2 DEF Bijection, Injection, IsInjective, Surjection
<1>4. ExistsBijection(S, T)
  BY <1>3 DEF ExistsBijection
<1>5. IsFiniteSet(T) /\ Cardinality(T) = Cardinality(S)
  BY <1>4, FS_Bijection
<1> QED
  BY <1>5 DEF T

\* The fields of a listed line.
LEMMA ListedLineIs ==
    ASSUME NEW x, NEW suivi
    PROVE  /\ ListedLine(x, suivi).line_key = MakeLineKey(x)
           /\ ListedLine(x, suivi).line = x
           /\ ListedLine(x, suivi).suivi =
                  IF MakeLineKey(x) \in DOMAIN suivi THEN TrackingView(suivi[MakeLineKey(x)], x) ELSE None
  BY DEF ListedLine

\* A line is listed once.
LEMMA ListedOnce ==
    ASSUME NEW made, NEW B, NEW home, NEW stops, NEW line, Kept(made, B, home, stops, line), NEW suivi
    PROVE  \A p, q \in B : Listed(line, suivi, B)[p] = Listed(line, suivi, B)[q] => p = q
<1>1. \A p \in B : line[p].product = p
  BY DEF Kept
<1>2. \A p \in B : ListedLine(line[p], suivi).line = line[p]
  BY ListedLineIs
<1> QED
  BY <1>1, <1>2 DEF Listed

\* Each line is shown where it is bought.
LEMMA ShownIs ==
    ASSUME NEW made, NEW basket, NEW home, NEW stops, NEW line,
           Kept(made, Bought(basket), home, stops, line),
           \A p \in Bought(basket) : home[p] = basket[p].offer.agency, NEW suivi
    PROVE  ShownWhereBought(BuildShoppingList(made, suivi), made, basket)
<1>. DEFINE B == Bought(basket)
            list == BuildShoppingList(made, suivi)
            item == Listed(line, suivi, B)
<1>1. /\ list.stores = [i \in 1..Len(stops) |-> ListedStore(made, suivi, KeyOf(stops[i]), i)]
      /\ \A i \in 1..Len(stops) :
             list.stores[i].lines = {ListedLine(line[p], suivi) : p \in BoughtAt(B, home, stops[i])}
  BY ListIs
<1>2. Cardinality(list.lines) = Cardinality(B)
  <2>1. IsFiniteSet(B)
    BY DEF Kept
  <2>2. (\A p, q \in B : item[p] = item[q] => p = q) /\ list.lines = Values(item, B)
    BY ListedAre, ListedOnce
  <2> HIDE DEF item, B, list
  <2> QED
    BY <2>1, <2>2, CountThrough
<1>3. ASSUME NEW p \in B
      PROVE  \E store \in ToSet(list.stores) : \E x \in store.lines :
                 /\ store.agency_key = KeyOf(basket[p].offer.agency)
                 /\ x.line.product = p
                 /\ SnapshotLine(made, x.line_key) = x.line
  <2>1. PICK i \in 1..Len(stops) : stops[i] = home[p]
    BY DEF Kept
  <2>. DEFINE store == list.stores[i]
              x == ListedLine(line[p], suivi)
  <2>2. store \in ToSet(list.stores)
    BY <1>1 DEF ToSet
  <2>3. x \in store.lines
    BY <1>1, <2>1 DEF BoughtAt
  <2>4. store.agency_key = KeyOf(basket[p].offer.agency)
    BY <1>1, <2>1 DEF ListedStore
  <2>5. x.line = line[p] /\ x.line_key = MakeLineKey(line[p])
    BY ListedLineIs
  <2>6. line[p].product = p
    BY DEF Kept
  <2>7. SnapshotLine(made, MakeLineKey(line[p])) = line[p]
    BY LineIsFound
  <2> QED
    BY <2>2, <2>3, <2>4, <2>5, <2>6, <2>7
<1> QED
  BY <1>2, <1>3 DEF ShownWhereBought

\* What the legs of a snapshot of a tour are.
LegsTold(made, layout, stops) ==
    LET points == <<0>> \o stops \o <<0>>
    IN  made.legs = [i \in 1..(Len(stops) + 1) |->
                        [end |-> IF i > Len(stops) THEN None ELSE KeyOf(stops[i]),
                         minutes |-> Leg(layout, points[i], points[i + 1]).time]]

\* The minutes of the stores and the way back are those of the tour.
LEMMA MinutesAre ==
    ASSUME NEW made, NEW S, NEW layout, Placed(layout, S), NEW order, IsOrder(order, S), S # {},
           LegsTold(made, layout, order), NEW minutes,
           DOMAIN minutes = 1..Len(order),
           \A i \in 1..Len(order) : minutes[i] = LegMinutes(made, KeyOf(order[i]))
    PROVE  SumFunction(minutes) + Leg(layout, Last(order), 0).time = Tour(layout, order).time
<1>. DEFINE m == Len(order)
            points == Around(order)
            w == Minutes(layout, S)
            f == Legs(w, points)
<1>1. /\ order \in Seq(S) /\ m = Cardinality(S) /\ S \subseteq Nat \ {0} /\ IsFiniteSet(S)
      /\ \A i, j \in 1..m : i # j => order[i] # order[j]
  BY DEF IsOrder, Placed
<1>2. m \in Nat \ {0} /\ \A i \in 1..m : order[i] \in S
  <2>1. Cardinality(S) \in Nat /\ Cardinality(S) # 0
    BY <1>1, FS_CardinalityType, FS_EmptySet
  <2> QED
    BY <1>1, <2>1
<1>3. /\ points \in Seq(S \cup {0}) /\ Len(points) = m + 2
      /\ \A i \in 1..m : points[i + 1] = order[i]
      /\ points[1] = 0 /\ points[m + 2] = 0
  BY <1>1, AroundIs
<1>4. Tour(layout, order).time = Walk(w, points)
  BY <1>1, TourIs
<1>5. w \in [(S \cup {0}) \X (S \cup {0}) -> Nat]
  BY LegsAreMetric DEF Metric
<1>6. DOMAIN f = 1..(m + 1) /\ \A i \in 1..(m + 1) : f[i] \in Nat
  <2>1. DOMAIN f = 1..(Len(points) - 1) /\ \A i \in DOMAIN f : f[i] \in Nat
    <3>. DEFINE N == S \cup {0}
    <3>1. points \in Seq(N) /\ w \in [N \X N -> Nat]
      BY <1>3, <1>5
    <3> HIDE DEF N, points, w
    <3> QED
      BY <3>1, LegsType
  <2> QED
    BY <2>1, <1>2, <1>3
<1>7. \A i \in 1..(m + 1) : points[i] \in S \cup {0} /\ points[i + 1] \in S \cup {0}
  BY <1>2, <1>3
<1>8. \A i \in 1..(m + 1) : f[i] = Leg(layout, points[i], points[i + 1]).time
  <2> SUFFICES ASSUME NEW i \in 1..(m + 1) PROVE f[i] = Leg(layout, points[i], points[i + 1]).time
    OBVIOUS
  <2>1. f[i] = w[<<points[i], points[i + 1]>>]
    BY <1>6 DEF Legs
  <2> QED
    BY <1>7, <2>1 DEF Minutes
<1>9. made.legs = [i \in 1..(m + 1) |->
                     [end |-> IF i > m THEN None ELSE KeyOf(order[i]),
                      minutes |-> Leg(layout, points[i], points[i + 1]).time]]
  BY DEF LegsTold, Around
<1>10. \A i, j \in 1..m : KeyOf(order[i]) = KeyOf(order[j]) => i = j
  BY <1>1, <1>2, KeyOfIs
<1>11. \A i \in 1..m : KeyOf(order[i]) # None
  BY <1>1, <1>2, KeyOfIs, KeysGiven
<1> HIDE DEF f, points, m
<1>12. ASSUME NEW i \in 1..m PROVE LegMinutes(made, KeyOf(order[i])) = f[i]
  <2>. DEFINE ends == {j \in DOMAIN made.legs : made.legs[j].end = KeyOf(order[i])}
  <2>1. /\ DOMAIN made.legs = 1..(m + 1) /\ i \in 1..(m + 1)
        /\ \A j \in 1..(m + 1) :
               made.legs[j].end = IF j > m THEN None ELSE KeyOf(order[j])
    BY <1>9, <1>2
  <2>2. made.legs[i].minutes = f[i]
    BY <1>8, <1>9, <2>1
  <2>3. ends = {i}
    <3>1. i \in ends
      BY <1>2, <2>1
    <3>2. ASSUME NEW j \in ends PROVE j = i
      <4>1. j \in 1..(m + 1) /\ made.legs[j].end = KeyOf(order[i])
        BY <2>1
      <4>2. ~ j > m
        BY <4>1, <2>1, <1>11
      <4>3. j \in 1..m
        BY <4>1, <4>2, <1>2
      <4> QED
        BY <4>1, <4>2, <4>3, <2>1, <1>10
    <3> HIDE DEF ends
    <3> QED
      BY <3>1, <3>2
  <2>4. Max({i}) = i
    <3>1. {i} \in SUBSET Int /\ {i} # {} /\ IsFiniteSet({i})
      <4>1. i \in Int
        BY <1>2
      <4>2. IsFiniteSet({i})
        BY FS_Singleton
      <4> QED
        BY <4>1, <4>2
    <3>2. Max({i}) \in {i}
      BY <3>1, MaxIs
    <3> QED
      BY <3>2
  <2>5. LegMinutes(made, KeyOf(order[i])) = IF ends = {} THEN None ELSE made.legs[Max(ends)].minutes
    BY DEF LegMinutes
  <2> QED
    BY <2>2, <2>3, <2>4, <2>5
<1>13. SumFunction(f) = SumFunction(minutes) + f[m + 1]
  <2>1. \A i \in 1..(m + 1) : f[i] \in Int
    BY <1>6
  <2>2. DOMAIN minutes = 1..m /\ \A i \in 1..m : minutes[i] = f[i]
    BY <1>12 DEF m
  <2>3. m \in Nat
    BY <1>2
  <2> QED
    BY <1>6, <2>1, <2>2, <2>3, SumAppend
<1>14. f[m + 1] = Leg(layout, Last(order), 0).time
  <2>1. Last(order) = order[m]
    BY DEF Last, m
  <2>2. points[m + 1] = order[m] /\ points[(m + 1) + 1] = 0 /\ m + 1 \in 1..(m + 1)
    BY <1>2, <1>3
  <2> QED
    BY <2>1, <2>2, <1>8
<1>15. Tour(layout, order).time = SumFunction(f)
  BY <1>4 DEF Walk, f
<1> QED
  BY <1>13, <1>14, <1>15

\* The subtotals make the total of the basket.
LEMMA SubtotalsAre ==
    ASSUME NEW made, NEW basket, NEW home, NEW stops, NEW line,
           Kept(made, Bought(basket), home, stops, line),
           \A p \in Bought(basket) :
               line[p].line_total = LineCost(basket[p].offer, basket[p].packs), NEW suivi
    PROVE  LET stores == BuildShoppingList(made, suivi).stores
           IN  SumFunction([i \in DOMAIN stores |-> stores[i].subtotal]) = Total(basket)
<1>. DEFINE B == Bought(basket)
            m == Len(stops)
            stores == BuildShoppingList(made, suivi).stores
            v == [x \in SelectedLines |-> x.line_total]
            w == [p \in B |-> line[p].line_total]
            c == [p \in B |-> CHOOSE i \in 1..m : stops[i] = home[p]]
            at(i) == BoughtAt(B, home, stops[i])
            G == TotalsOf(w, c, B, m)
<1>1. /\ IsFiniteSet(B) /\ m \in Nat
      /\ \A p \in B : line[p] \in SelectedLines /\ line[p].product = p
  BY DEF Kept
<1>2. /\ \A p \in B : \E i \in 1..m : stops[i] = home[p]
      /\ \A i, j \in 1..m : stops[i] = stops[j] => i = j
  BY DEF Kept
<1>3. \A p \in B : line[p].line_total \in Nat
  BY <1>1 DEF SelectedLines
<1>4. \A p \in B : /\ c[p] \in 1..m /\ \A i \in 1..m : c[p] = i <=> stops[i] = home[p]
  BY <1>2
<1>5. \A i \in 1..m : at(i) \in SUBSET B /\ {p \in B : c[p] = i} = at(i)
  BY <1>4 DEF BoughtAt
<1>6. stores = [i \in 1..m |-> ListedStore(made, suivi, KeyOf(stops[i]), i)]
  BY ListIs
<1> HIDE DEF c
<1>7. ASSUME NEW i \in 1..m PROVE stores[i].subtotal = TotalOf(w, at(i))
  <2>. DEFINE lines == LinesOf(made, KeyOf(stops[i]))
              S == at(i)
              u == [p \in S |-> v[line[p]]]
  <2>1. stores[i].subtotal = SumFunction([x \in lines |-> x.line_total])
    BY <1>6 DEF ListedStore
  <2>2. lines = Values(line, S)
    BY LinesAre
  <2>3. S \in SUBSET B /\ IsFiniteSet(S)
    BY <1>1, <1>5, FS_Subset
  <2>4. \A x \in lines : v[x] = x.line_total
    BY <1>1, <2>2, <2>3 DEF Values
  <2>5. stores[i].subtotal = TotalOf(v, lines)
    <3>1. [x \in lines |-> x.line_total] = [x \in lines |-> v[x]]
      BY <2>4
    <3> QED
      BY <2>1, <3>1 DEF TotalOf
  <2>6. /\ \A p, q \in S : line[p] = line[q] => p = q
        /\ \A p \in S : v[line[p]] \in Int /\ v[line[p]] = w[p]
    BY <1>1, <1>3, <2>3
  <2> HIDE DEF S, lines, v, w
  <2>7. TotalOf(v, {line[p] : p \in S}) = TotalOf(u, S)
    BY <2>3, <2>6, TotalThrough
  <2>8. TotalOf(u, S) = TotalOf(w, S)
    BY <2>6, TotalAlike
  <2>9. TotalOf(v, lines) = TotalOf(w, S)
    BY <2>2, <2>7, <2>8 DEF Values
  <2> QED
    BY <2>5, <2>9 DEF S
<1>8. \A i \in 1..m : G[i] = stores[i].subtotal
  BY <1>5, <1>7 DEF TotalsOf
<1>9. [i \in DOMAIN stores |-> stores[i].subtotal] = [i \in 1..m |-> G[i]]
  <2>1. DOMAIN stores = 1..m
    BY <1>6
  <2>2. DOMAIN G = 1..m
    BY DEF TotalsOf
  <2> HIDE DEF G, stores
  <2> QED
    BY <2>1, <2>2, <1>8
<1>10. TotalOf(G, 1..m) = TotalOf(w, B)
  <2>1. \A p \in B : w[p] \in Int
    BY <1>3
  <2> HIDE DEF w, B, m
  <2> QED
    BY <1>1, <1>4, <2>1, TotalByParts
<1>11. [p \in B |-> w[p]] = [p \in B |-> LineCost(basket[p].offer, basket[p].packs)]
  OBVIOUS
<1>12. Total(basket) = TotalOf(w, B)
  BY <1>11 DEF Total, TotalOf
<1> QED
  BY <1>9, <1>10, <1>12 DEF TotalOf

-----------------------------------------------------------------------------
(* What is counted of the lines ticked *)

\* Packs at a rounded price against their price rounded.
LEMMA RoundingOfPacks ==
    ASSUME NEW price \in Nat, NEW n \in Nat \ {0}
    PROVE  /\ n * Rounded(price) \in Int /\ Rounded(price * n) \in Int
           /\ 2 * (n * Rounded(price) - Rounded(price * n)) <= n + 1
           /\ 2 * (Rounded(price * n) - n * Rounded(price)) <= n + 1
<1>. DEFINE C == Cent
            h == C \div 2
            r == Rounded(price)
            R == Rounded(price * n)
            P == price * n
            A == C * r
            E == A * n
            H == h * n
            D == C * n
<1>0. C \in Nat \ {0}
  BY CostsAssumption
<1>1. h \in Int /\ 2 * h <= C /\ C < 2 * h + 2
  BY <1>0, DivIs
<1>2. P \in Nat
  OBVIOUS
<1>3. r \in Int /\ R \in Int
  BY <1>2, RoundedIs
<1>4. C * r <= price + h /\ price + h < C * r + C
  BY <1>0, <1>1, DivIs DEF Rounded
<1>5. C * R <= P + h /\ P + h < C * R + C
  BY <1>0, <1>1, <1>2, DivIs DEF Rounded
<1>6. A \in Int /\ E \in Int /\ H \in Int /\ D \in Int /\ C * R \in Int
  BY <1>0, <1>1, <1>3
<1>7. E = C * (n * r)
  BY <1>0, <1>3
<1>8. E <= P + H
  <2>1. A <= price + h
    BY <1>4
  <2>2. A * n <= (price + h) * n
    BY <2>1, <1>1, <1>6
  <2>3. (price + h) * n = P + H
    BY <1>1
  <2> QED
    BY <2>2, <2>3
<1>9. P + H + n <= E + D
  <2>1. price + h + 1 <= A + C
    BY <1>4, <1>0, <1>1, <1>6
  <2>2. (price + h + 1) * n <= (A + C) * n
    BY <2>1, <1>0, <1>1, <1>6
  <2>3. (price + h + 1) * n = P + H + n /\ (A + C) * n = E + D
    BY <1>0, <1>1, <1>6
  <2> QED
    BY <2>2, <2>3
<1>10. 2 * H <= D /\ D <= 2 * H + n
  <2>1. (2 * h) * n <= C * n /\ C * n <= (2 * h + 1) * n
    BY <1>0, <1>1
  <2>2. (2 * h) * n = 2 * H /\ (2 * h + 1) * n = 2 * H + n
    BY <1>1
  <2> QED
    BY <2>1, <2>2
<1>. DEFINE k == n * r
            Q == C * R
            K == C * k
<1>11. k \in Int /\ K \in Int /\ Q \in Int /\ K = E
  BY <1>0, <1>3, <1>6, <1>7
<1> HIDE DEF h, r, R, P, A, E, H, D, C, k, Q, K
<1>12. 2 * (K - Q) <= D + C /\ 2 * (Q - K) <= D + C
  BY <1>0, <1>1, <1>2, <1>5, <1>6, <1>8, <1>9, <1>10, <1>11 DEF Q
<1>13. 2 * (K - Q) = C * (2 * (k - R)) /\ 2 * (Q - K) = C * (2 * (R - k)) /\ D + C = C * (n + 1)
  BY <1>0, <1>3, <1>11 DEF K, Q, D
<1>14. \A a, b \in Int : C * a <= C * b => a <= b
  BY <1>0
<1>15. 2 * (k - R) <= n + 1 /\ 2 * (R - k) <= n + 1
  BY <1>3, <1>11, <1>12, <1>13, <1>14
<1> QED
  BY <1>3, <1>11, <1>15 DEF k, r, R, P

\* A function on what elements are mapped to sums to the same as on the elements.
LEMMA SumThrough ==
    ASSUME NEW S, IsFiniteSet(S), NEW F, \A x, y \in S : F[x] = F[y] => x = y,
           NEW f, f = [t \in Values(F, S) |-> f[t]],
           NEW u, \A x \in S : f[F[x]] = u[x] /\ u[x] \in Int
    PROVE  SumFunction(f) = TotalOf(u, S)
<1>. DEFINE w == [x \in S |-> f[F[x]]]
<1>1. SumFunction(f) = TotalOf(f, {F[x] : x \in S})
  BY DEF Values, TotalOf
<1>2. TotalOf(f, {F[x] : x \in S}) = TotalOf(w, S)
  BY TotalThrough
<1>3. TotalOf(w, S) = TotalOf(u, S)
  BY TotalAlike
<1> QED
  BY <1>1, <1>2, <1>3

\* A part of a sum of naturals is no more.
LEMMA TotalOfPart ==
    ASSUME NEW S, IsFiniteSet(S), NEW T \in SUBSET S, NEW w, \A x \in S : w[x] \in Nat
    PROVE  TotalOf(w, T) <= TotalOf(w, S)
<1>. DEFINE C == {U \in SUBSET S : TotalOf(w, U \cap T) <= TotalOf(w, U)}
<1>0. \A U \in SUBSET S : IsFiniteSet(U) /\ IsFiniteSet(U \cap T)
  BY FS_Subset
<1>b. \A U \in SUBSET S : TotalOf(w, U) \in Int /\ TotalOf(w, U \cap T) \in Int
  BY <1>0, TotalType
<1>1. {} \in C
  <2>1. {} \cap T = {}
    OBVIOUS
  <2> QED
    BY <2>1, TotalNone
<1>2. ASSUME NEW U \in C, NEW x \in S \ U PROVE U \cup {x} \in C
  <2>. DEFINE V == U \cup {x}
  <2>1. TotalOf(w, U \cap T) <= TotalOf(w, U)
    OBVIOUS
  <2>2. U \in SUBSET S /\ V \in SUBSET S /\ x \notin U /\ x \notin U \cap T /\ w[x] \in Nat
    OBVIOUS
  <2>3. TotalOf(w, V) = w[x] + TotalOf(w, U)
    BY <1>0, <2>2, TotalGrows
  <2>6. TotalOf(w, U) \in Int /\ TotalOf(w, U \cap T) \in Int
    BY <1>b, <2>2
  <2>4. CASE x \in T
    <3>1. V \cap T = (U \cap T) \cup {x}
      BY <2>4
    <3>2. TotalOf(w, (U \cap T) \cup {x}) = w[x] + TotalOf(w, U \cap T)
      <4>1. IsFiniteSet(U \cap T) /\ \A y \in (U \cap T) \cup {x} : w[y] \in Int
        BY <1>0, <2>2
      <4> QED
        BY <2>2, <4>1, TotalGrows
    <3>3. TotalOf(w, V \cap T) <= TotalOf(w, V)
      <4>1. TotalOf(w, V \cap T) = w[x] + TotalOf(w, U \cap T)
        BY <3>1, <3>2, Zenon
      <4> QED
        BY ONLY <2>1, <2>2, <2>3, <2>6, <4>1
    <3> QED
      BY <2>2, <3>3
  <2>5. CASE x \notin T
    <3>1. V \cap T = U \cap T
      BY <2>5
    <3>3. TotalOf(w, V \cap T) <= TotalOf(w, V)
      BY ONLY <2>1, <2>2, <2>3, <2>6, <3>1
    <3> QED
      BY <2>2, <3>3
  <2> QED
    BY <2>4, <2>5
<1>3. S \in C
  <2>1. C \in SUBSET (SUBSET S)
    OBVIOUS
  <2> HIDE DEF C
  <2> QED
    BY <2>1, <1>1, <1>2, GrowTo
<1>4. S \cap T = T
  OBVIOUS
<1> QED
  BY <1>3, <1>4

\* Values that differ by little, together differ by little.
LEMMA TotalsNear ==
    ASSUME NEW S, IsFiniteSet(S), NEW a, NEW b, NEW w,
           \A x \in S : /\ a[x] \in Int /\ b[x] \in Int /\ w[x] \in Nat
                        /\ 2 * (a[x] - b[x]) <= w[x] + 1 /\ 2 * (b[x] - a[x]) <= w[x] + 1
    PROVE  /\ TotalOf(a, S) \in Int /\ TotalOf(b, S) \in Int
           /\ 2 * (TotalOf(a, S) - TotalOf(b, S)) <= TotalOf(w, S) + Cardinality(S)
           /\ 2 * (TotalOf(b, S) - TotalOf(a, S)) <= TotalOf(w, S) + Cardinality(S)
<1>. DEFINE near(T) == /\ 2 * (TotalOf(a, T) - TotalOf(b, T)) <= TotalOf(w, T) + Cardinality(T)
                       /\ 2 * (TotalOf(b, T) - TotalOf(a, T)) <= TotalOf(w, T) + Cardinality(T)
            C == {T \in SUBSET S : near(T)}
<1>0. \A T \in SUBSET S : IsFiniteSet(T) /\ Cardinality(T) \in Nat
  BY FS_Subset, FS_CardinalityType
<1>b. \A T \in SUBSET S : TotalOf(a, T) \in Int /\ TotalOf(b, T) \in Int /\ TotalOf(w, T) \in Int
  <2> SUFFICES ASSUME NEW T \in SUBSET S
               PROVE  TotalOf(a, T) \in Int /\ TotalOf(b, T) \in Int /\ TotalOf(w, T) \in Int
    OBVIOUS
  <2>1. IsFiniteSet(T) /\ \A x \in T : a[x] \in Int /\ b[x] \in Int /\ w[x] \in Int
    BY <1>0
  <2> QED
    BY <2>1, TotalType
<1>1. {} \in C
  <2>1. TotalOf(a, {}) = 0 /\ TotalOf(b, {}) = 0 /\ TotalOf(w, {}) = 0 /\ Cardinality({}) = 0
    BY TotalNone, FS_EmptySet
  <2> QED
    BY <2>1
<1>2. ASSUME NEW T \in C, NEW x \in S \ T PROVE T \cup {x} \in C
  <2>. DEFINE U == T \cup {x}
  <2>1. near(T) /\ T \in SUBSET S /\ U \in SUBSET S /\ x \notin T /\ x \in S
    OBVIOUS
  <2>2. /\ TotalOf(a, U) = a[x] + TotalOf(a, T) /\ TotalOf(b, U) = b[x] + TotalOf(b, T)
        /\ TotalOf(w, U) = w[x] + TotalOf(w, T)
    <3>1. IsFiniteSet(T) /\ \A y \in T \cup {x} : a[y] \in Int /\ b[y] \in Int /\ w[y] \in Int
      BY <1>0, <2>1
    <3> QED
      BY <2>1, <3>1, TotalGrows
  <2>3. Cardinality(U) = Cardinality(T) + 1
    BY <1>0, <2>1, FS_AddElement
  <2>4. /\ a[x] \in Int /\ b[x] \in Int /\ w[x] \in Int
        /\ 2 * (a[x] - b[x]) <= w[x] + 1 /\ 2 * (b[x] - a[x]) <= w[x] + 1
    OBVIOUS
  <2>5. /\ TotalOf(a, T) \in Int /\ TotalOf(b, T) \in Int /\ TotalOf(w, T) \in Int
        /\ Cardinality(T) \in Int
    BY <1>0, <1>b, <2>1
  <2>6. near(U)
    BY ONLY <2>1, <2>2, <2>3, <2>4, <2>5
  <2> QED
    BY <2>1, <2>6
<1>3. S \in C
  <2>1. C \in SUBSET (SUBSET S)
    OBVIOUS
  <2> HIDE DEF C
  <2> QED
    BY <2>1, <1>1, <1>2, GrowTo
<1> QED
  BY <1>3, <1>b

\* Whatever lines are ticked as planned, they are counted, and what they cost differs by
\* no more than the rounding of the price of each pack.
LEMMA TickedIs ==
    ASSUME NEW made, NEW B, NEW home, NEW stops, NEW line, Kept(made, B, home, stops, line),
           \A p \in B : \E price \in Nat : /\ line[p].pack_price = Rounded(price)
                                           /\ line[p].line_total = Rounded(price * line[p].packs),
           NEW ticked \in SUBSET {MakeLineKey(line[p]) : p \in B}
    PROVE  CountsWhatIsTicked(BuildShoppingList(made, Ticked(made, ticked)), ticked)
<1>. DEFINE suivi == Ticked(made, ticked)
            list == BuildShoppingList(made, suivi)
            key == [p \in B |-> MakeLineKey(line[p])]
            T == {p \in B : key[p] \in ticked}
            item == Listed(line, suivi, B)
            a == [p \in B |-> line[p].packs * line[p].pack_price]
            b == [p \in B |-> line[p].line_total]
            w == [p \in B |-> line[p].packs]
            entered == {x \in list.lines : x.suivi # None}
            real == SumFunction([x \in entered |-> x.suivi.real])
            planned == SumFunction([x \in entered |-> x.line.line_total])
            packs == SumFunction([x \in list.lines |-> x.line.packs])
<1>1. IsFiniteSet(B) /\ \A p \in B : line[p] \in SelectedLines /\ line[p].product = p
  BY DEF Kept
<1>2. T \in SUBSET B /\ IsFiniteSet(T)
  BY <1>1, FS_Subset
<1>3. \A p \in B : /\ line[p].packs \in Nat \ {0} /\ line[p].pack_price \in Nat
                   /\ line[p].line_total \in Nat
  BY <1>1 DEF SelectedLines
<1>4. /\ \A p \in B : /\ SnapshotLine(made, key[p]) = line[p]
                      /\ SnapshotLine(made, key[p]) # None
      /\ \A p, q \in B : key[p] = key[q] => p = q
  BY LineIsFound
<1>5. ticked = Values(key, T)
  BY DEF Values
<1>6. /\ DOMAIN suivi = ticked
      /\ \A p \in T : suivi[key[p]] = [quantity |-> line[p].packs, price |-> line[p].pack_price]
  <2>1. \A k \in ticked : SnapshotLine(made, k) # None
    BY <1>4
  <2>2. suivi = [k \in ticked |-> Prefilled(SnapshotLine(made, k))]
    BY <2>1 DEF Ticked
  <2>3. \A p \in T : key[p] \in ticked /\ SnapshotLine(made, key[p]) = line[p]
    BY <1>4
  <2> HIDE DEF suivi, key, T
  <2> QED
    BY <2>2, <2>3 DEF Prefilled
<1>7. \A p \in B : /\ item[p].line = line[p]
                   /\ item[p].suivi = IF key[p] \in DOMAIN suivi
                                      THEN TrackingView(suivi[key[p]], line[p]) ELSE None
  BY ListedLineIs DEF Listed
<1>8. /\ list.lines = Values(item, B) /\ list.actual = Actual(list.lines)
      /\ \A p, q \in B : item[p] = item[q] => p = q
  <2>1. list.lines = Values(item, B)
    BY ListedAre
  <2>3. list.actual = Actual(list.lines)
    BY DEF BuildShoppingList
  <2>2. \A p, q \in B : item[p] = item[q] => p = q
    BY ListedOnce
  <2> QED
    BY <2>1, <2>2, <2>3
<1>9. /\ \A p \in T : item[p].suivi = [real |-> a[p], gap |-> a[p] - b[p]] /\ item[p].suivi # None
      /\ \A p \in B \ T : item[p].suivi = None
  <2>1. ASSUME NEW p \in T
        PROVE  item[p].suivi = [real |-> a[p], gap |-> a[p] - b[p]] /\ item[p].suivi # None
    <3>1. item[p].suivi = TrackingView([quantity |-> line[p].packs, price |-> line[p].pack_price], line[p])
      BY <1>6, <1>7
    <3>2. line[p].packs # None /\ line[p].pack_price # None
      BY <1>3, KeysGiven
    <3>3. item[p].suivi = [real |-> a[p], gap |-> a[p] - b[p]]
      BY <3>1, <3>2 DEF TrackingView
    <3>4. a[p] \in Int /\ a[p] - b[p] \in Int
      BY <1>3
    <3> QED
      BY <3>3, <3>4, KeysGiven
  <2>2. ASSUME NEW p \in B \ T PROVE item[p].suivi = None
    BY <1>6, <1>7
  <2> QED
    BY <2>1, <2>2
<1> HIDE DEF item, suivi, list, T, key
<1>10. entered = Values(item, T)
  <2>1. \A x : x \in list.lines <=> \E p \in B : x = item[p]
    BY <1>8 DEF Values
  <2>2. \A x : x \in Values(item, T) <=> \E p \in T : x = item[p]
    BY DEF Values
  <2>3. \A p \in B : item[p].suivi # None <=> p \in T
    BY <1>2, <1>9
  <2>4. \A x : x \in entered <=> \E p \in T : x = item[p]
    BY <1>2, <2>1, <2>3
  <2> HIDE DEF entered
  <2> QED
    BY <2>2, <2>4
<1>11. Cardinality(entered) = Cardinality(T) /\ Cardinality(ticked) = Cardinality(T)
  <2>1. /\ \A p, q \in T : item[p] = item[q] => p = q
        /\ \A p, q \in T : key[p] = key[q] => p = q
    BY <1>2, <1>4, <1>8
  <2> HIDE DEF entered
  <2> QED
    BY <2>1, <1>2, <1>5, <1>10, CountThrough
<1>12. real = TotalOf(a, T) /\ planned = TotalOf(b, T)
  <2>. DEFINE f == [x \in entered |-> x.suivi.real]
              g == [x \in entered |-> x.line.line_total]
  <2>1. \A p \in T : /\ item[p] \in entered /\ f[item[p]] = a[p] /\ a[p] \in Int
                     /\ g[item[p]] = b[p] /\ b[p] \in Int
    <3> SUFFICES ASSUME NEW p \in T
                 PROVE  /\ item[p] \in entered /\ f[item[p]] = a[p] /\ a[p] \in Int
                        /\ g[item[p]] = b[p] /\ b[p] \in Int
      OBVIOUS
    <3>1. item[p] \in entered
      BY <1>10 DEF Values
    <3>2. item[p].suivi.real = a[p] /\ item[p].line.line_total = b[p]
      <4>1. item[p].suivi = [real |-> a[p], gap |-> a[p] - b[p]]
        BY <1>9
      <4>2. p \in B
        BY <1>2
      <4>3. item[p].line = line[p]
        BY <1>7, <4>2
      <4>4. b[p] = line[p].line_total
        BY <4>2
      <4> HIDE DEF a, b
      <4> QED
        BY <4>1, <4>3, <4>4
    <3>3. a[p] \in Int /\ b[p] \in Int
      BY <1>2, <1>3
    <3> QED
      BY <3>1, <3>2, <3>3
  <2>2. f = [t \in Values(item, T) |-> f[t]] /\ g = [t \in Values(item, T) |-> g[t]]
    BY <1>10
  <2>3. \A p, q \in T : item[p] = item[q] => p = q
    BY <1>2, <1>8
  <2> HIDE DEF f, g, a, b
  <2>4. SumFunction(f) = TotalOf(a, T)
    BY <1>2, <2>1, <2>2, <2>3, SumThrough
  <2>5. SumFunction(g) = TotalOf(b, T)
    BY <1>2, <2>1, <2>2, <2>3, SumThrough
  <2> QED
    BY <2>4, <2>5 DEF f, g
<1>13. packs = TotalOf(w, B)
  <2>. DEFINE f == [x \in list.lines |-> x.line.packs]
  <2>1. \A p \in B : f[item[p]] = w[p] /\ w[p] \in Int
    BY <1>3, <1>7, <1>8 DEF Values
  <2>2. f = [t \in Values(item, B) |-> f[t]]
    BY <1>8
  <2> HIDE DEF f, w
  <2>3. SumFunction(f) = TotalOf(w, B)
    BY <1>1, <1>8, <2>1, <2>2, SumThrough
  <2> QED
    BY <2>3 DEF f
<1>14. \A p \in B : /\ a[p] \in Int /\ b[p] \in Int /\ w[p] \in Nat
                    /\ 2 * (a[p] - b[p]) <= w[p] + 1 /\ 2 * (b[p] - a[p]) <= w[p] + 1
  <2> SUFFICES ASSUME NEW p \in B
               PROVE  /\ a[p] \in Int /\ b[p] \in Int /\ w[p] \in Nat
                      /\ 2 * (a[p] - b[p]) <= w[p] + 1 /\ 2 * (b[p] - a[p]) <= w[p] + 1
    OBVIOUS
  <2>1. PICK price \in Nat : /\ line[p].pack_price = Rounded(price)
                             /\ line[p].line_total = Rounded(price * line[p].packs)
    OBVIOUS
  <2>. DEFINE n == line[p].packs
  <2>2. n \in Nat \ {0}
    BY <1>3
  <2>3. /\ n * Rounded(price) \in Int /\ Rounded(price * n) \in Int
        /\ 2 * (n * Rounded(price) - Rounded(price * n)) <= n + 1
        /\ 2 * (Rounded(price * n) - n * Rounded(price)) <= n + 1
    BY <2>2, RoundingOfPacks
  <2>4. a[p] = n * Rounded(price) /\ b[p] = Rounded(price * n) /\ w[p] = n
    BY <2>1
  <2> QED
    BY <2>2, <2>3, <2>4
<1> HIDE DEF a, b, w, real, planned, packs, entered
<1>15. /\ real \in Int /\ planned \in Int /\ packs \in Int /\ Cardinality(ticked) \in Nat
       /\ 2 * (real - planned) <= packs + Cardinality(ticked)
       /\ 2 * (planned - real) <= packs + Cardinality(ticked)
  <2>1. /\ TotalOf(a, T) \in Int /\ TotalOf(b, T) \in Int
        /\ 2 * (TotalOf(a, T) - TotalOf(b, T)) <= TotalOf(w, T) + Cardinality(T)
        /\ 2 * (TotalOf(b, T) - TotalOf(a, T)) <= TotalOf(w, T) + Cardinality(T)
    <3>1. \A p \in T : /\ a[p] \in Int /\ b[p] \in Int /\ w[p] \in Nat
                       /\ 2 * (a[p] - b[p]) <= w[p] + 1 /\ 2 * (b[p] - a[p]) <= w[p] + 1
      BY <1>2, <1>14
    <3> QED
      BY <1>2, <3>1, TotalsNear
  <2>2. TotalOf(w, T) <= TotalOf(w, B) /\ TotalOf(w, T) \in Int /\ TotalOf(w, B) \in Int
    <3>1. /\ \A p \in B : w[p] \in Nat
          /\ \A p \in B : w[p] \in Int
          /\ \A p \in T : w[p] \in Int
      BY <1>2, <1>14
    <3> QED
      BY <1>1, <1>2, <3>1, TotalOfPart, TotalType
  <2>3. Cardinality(T) \in Nat
    BY <1>2, FS_CardinalityType
  <2> QED
    BY ONLY <1>11, <1>12, <1>13, <2>1, <2>2, <2>3
<1>16. /\ list.actual.entered = Cardinality(entered)
       /\ list.actual.gap = IF entered = {} THEN None ELSE real - planned
  BY <1>8 DEF Actual, entered, real, planned
<1>17. ticked # {} => entered # {}
  BY <1>5, <1>10 DEF Values
<1>18. ticked # {} => 2 * Absolute(list.actual.gap) <= packs + Cardinality(ticked)
  <2> SUFFICES ASSUME ticked # {} PROVE 2 * Absolute(real - planned) <= packs + Cardinality(ticked)
    BY <1>16, <1>17
  <2> QED
    BY <1>15 DEF Absolute
<1>19. list.actual.entered = Cardinality(ticked)
  BY <1>11, <1>16
<1> QED
  BY <1>18, <1>19 DEF CountsWhatIsTicked, packs, list, suivi

-----------------------------------------------------------------------------
(* What is retained *)

\* What a solution is, whichever is retained.
SolutionOK(solution) ==
    LET basket == solution.basket
        tour == solution.tour
    IN  /\ \E offers : OffersOK(offers) /\ basket = Basket(offers)
        /\ solution.material # None => solution.material = Total(basket)
        /\ tour # None => /\ IsOrder(tour.order, Used(basket)) /\ Used(basket) # {}
                          /\ Placed(request.layout, Used(basket))
                          /\ tour = Tour(request.layout, tour.order)

\* A candidate of the search,
LEMMA CandidateIsSolution ==
    ASSUME GivenSearch, FoundOK, NEW c \in candidates PROVE SolutionOK(c)
<1>1. PICK t, n : Fits(t, n) /\ c = Deal(Within(t, n))
  BY CandidateIs
<1>. DEFINE S == Within(t, n)
<1>2. S \subseteq OnRoute /\ OffersOK(S)
  BY RouteIs
<1>3. /\ c.basket = Basket(S) /\ Placed(request.layout, Used(c.basket))
      /\ IsOrder(c.tour.order, Used(c.basket))
      /\ c.tour = Tour(request.layout, c.tour.order)
      /\ c.material = Total(c.basket)
  BY <1>1, <1>2, DealIs
<1>4. Used(c.basket) # {}
  <2>1. RequestOK /\ Complete(Basket(S))
    BY <1>1 DEF GivenSearch, Fits
  <2>2. Whole(Basket(S))
    BY <1>2, <2>1, CompleteIsWhole
  <2> QED
    BY <1>3, <2>1, <2>2, WholeUsed
<1> HIDE DEF S
<1> QED
  BY <1>2, <1>3, <1>4 DEF SolutionOK

\* the national basket,
LEMMA NationalIsSolution ==
    ASSUME GivenSearch PROVE SolutionOK(National(Basket(Eligible)))
<1>1. OffersOK(Eligible)
  BY RouteIs
<1>2. /\ National(Basket(Eligible)).basket = Basket(Eligible)
      /\ National(Basket(Eligible)).tour = None
      /\ National(Basket(Eligible)).material = Total(Basket(Eligible))
  BY DEF National
<1> QED
  BY <1>1, <1>2 DEF SolutionOK

\* and whatever can be retained.
LEMMA RetainableIs ==
    ASSUME GivenSearch, FoundOK, strategies = Reply, options = Offered, NEW solution \in Retainable
    PROVE  SolutionOK(solution)
<1>. DEFINE national == National(Basket(Eligible))
            effort == [basket |-> options[0], tour |-> None, material |-> None]
<1>1. ASSUME NEW k \in DOMAIN Reply, Reply[k] # None
      PROVE  Reply[k] = national \/ Reply[k] \in candidates
  <2>1. CASE ~ Complete(Basket(OnRoute))
    BY <1>1, <2>1 DEF Reply
  <2>2. CASE Complete(Basket(OnRoute)) /\ candidates = {}
    BY <1>1, <2>2 DEF Reply
  <2>3. CASE Complete(Basket(OnRoute)) /\ candidates # {}
    <3>. DEFINE singles == {c \in candidates : Len(c.tour.order) = 1}
                best == Least([c \in candidates |-> <<c.material>> \o CostRank(c)])
    <3>1. Cheapest(candidates) \in candidates
      BY <2>3, CheapestIs
    <3>2. singles # {} => Cheapest(singles) \in candidates
      <4>1. singles \subseteq candidates
        OBVIOUS
      <4> HIDE DEF singles
      <4> QED
        BY <4>1, CheapestIs
    <3>3. best \in candidates
      BY <2>3, LightestIs
    <3>4. MinimumOf(candidates) = national \/ MinimumOf(candidates) = best
      BY DEF MinimumOf
    <3>5. Reply = [single |-> IF singles = {} THEN None ELSE Cheapest(singles),
                   minimum |-> MinimumOf(candidates), compromise |-> Cheapest(candidates)]
      BY <2>3 DEF Reply
    <3> HIDE DEF singles, best, national
    <3>6. k \in {"single", "minimum", "compromise"}
      BY <3>5
    <3> QED
      BY <1>1, <3>1, <3>2, <3>3, <3>4, <3>5, <3>6
  <2> QED
    BY <2>1, <2>2, <2>3
<1>2. \/ \E k \in DOMAIN Reply : Reply[k] # None /\ solution = Reply[k]
      \/ solution = effort
  BY DEF Retainable
<1>3. SolutionOK(effort)
  <2>. DEFINE all == {o \in Comparable : 0 = 0 \/ o.supplier = 0}
  <2>1. options[0] = Basket(all)
    BY DEF Offered
  <2>2. all \subseteq request.offers
    BY DEF Comparable
  <2>3. OffersOK(all)
    BY <2>2, OffersSubset DEF GivenSearch
  <2>4. effort.basket = Basket(all) /\ effort.tour = None /\ effort.material = None
    BY <2>1
  <2> HIDE DEF all, effort
  <2> QED
    BY <2>3, <2>4 DEF SolutionOK
<1>4. SolutionOK(national)
  BY NationalIsSolution
<1>5. \A c \in candidates : SolutionOK(c)
  BY CandidateIsSolution
<1> HIDE DEF effort, national
<1> QED
  BY <1>1, <1>2, <1>3, <1>4, <1>5

\* What is bought in a basket.
LEMMA BasketIsBought ==
    ASSUME RequestOK, NEW basket, \E offers : OffersOK(offers) /\ basket = Basket(offers)
    PROVE  /\ IsFiniteSet(Bought(basket)) /\ Bought(basket) \subseteq Nat \ {0}
           /\ IsFiniteSet(Used(basket)) /\ Used(basket) \subseteq Nat \ {0}
           /\ Used(basket) = {basket[p].offer.agency : p \in Bought(basket)}
           /\ \A p \in Bought(basket) :
                  /\ basket[p].offer.agency \in Nat \ {0} /\ basket[p].offer.agency \in Used(basket)
                  /\ basket[p].offer.price \in Nat /\ basket[p].packs \in Nat \ {0}
<1>1. PICK offers : OffersOK(offers) /\ basket = Basket(offers)
  OBVIOUS
<1>2. /\ IsFiniteSet(Bought(basket)) /\ Bought(basket) \subseteq DOMAIN request.cart
      /\ IsFiniteSet(Used(basket))
  BY <1>1, BoughtFinite, UsedIs
<1>3. Bought(basket) \subseteq Nat \ {0}
  BY <1>2, CartIs
<1>4. Used(basket) = {basket[p].offer.agency : p \in Bought(basket)}
  BY DEF Used
<1>5. ASSUME NEW p \in Bought(basket)
      PROVE  /\ basket[p].offer.agency \in Nat \ {0} /\ basket[p].offer.price \in Nat
             /\ basket[p].packs \in Nat \ {0}
  <2>1. OfferOK(basket[p].offer) /\ basket[p].packs \in Nat \ {0}
    BY <1>1, BoughtIs
  <2> QED
    BY <2>1, OfferIs
<1> QED
  BY <1>2, <1>3, <1>4, <1>5

-----------------------------------------------------------------------------
(* What is kept of a solution *)

\* The agency and the line of each product bought.
HomeOf(basket) == [p \in Bought(basket) |-> basket[p].offer.agency]

LineOf(basket) == [p \in Bought(basket) |-> SelectedLine(basket, p)]

\* The order of a set by keys of one length that tell its elements apart.
LEMMA SortedOnce ==
    ASSUME NEW key, NEW n \in Nat \ {0}, IsFiniteSet(DOMAIN key),
           \A x \in DOMAIN key : key[x] \in Seq(Int) /\ Len(key[x]) = n,
           \A x, y \in DOMAIN key : key[x] = key[y] => x = y
    PROVE  /\ Sorted(key) \in Seq(DOMAIN key)
           /\ \A x \in DOMAIN key : \E i \in 1..Len(Sorted(key)) : Sorted(key)[i] = x
           /\ \A i, j \in 1..Len(Sorted(key)) : Sorted(key)[i] = Sorted(key)[j] => i = j
<1>. DEFINE s == Sorted(key)
<1>1. Ranked(key, n)
  <2>1. n \in 1..n
    OBVIOUS
  <2> QED
    BY <2>1, RankedAlike
<1>2. /\ s \in Seq(DOMAIN key)
      /\ \A x \in DOMAIN key : \E i \in DOMAIN s : s[i] = x
      /\ \A i, j \in DOMAIN s : i < j => Before(key[s[i]], key[s[j]])
  BY <1>1, SortedIs
<1> HIDE DEF s
<1>3. DOMAIN s = 1..Len(s) /\ Len(s) \in Nat /\ \A i \in 1..Len(s) : s[i] \in DOMAIN key
  BY <1>2, LenProperties, ElementOfSeq
<1>4. ASSUME NEW i \in 1..Len(s), NEW j \in 1..Len(s), i < j PROVE s[i] # s[j]
  <2>1. Before(key[s[i]], key[s[j]]) /\ s[i] \in DOMAIN key
    BY <1>2, <1>3, <1>4
  <2>2. ~ Before(key[s[i]], key[s[i]])
    BY <2>1, BeforeIrreflexive
  <2> QED
    BY <2>1, <2>2
<1>5. \A i, j \in 1..Len(s) : s[i] = s[j] => i = j
  <2> SUFFICES ASSUME NEW i \in 1..Len(s), NEW j \in 1..Len(s), s[i] = s[j], i # j PROVE FALSE
    OBVIOUS
  <2>1. i < j \/ j < i
    BY <1>3
  <2> QED
    BY <1>4, <2>1
<1>6. s = Sorted(key)
  BY DEF s
<1> QED
  BY <1>2, <1>3, <1>5, <1>6

\* The stops are the agencies used, each once.
LEMMA StopsAre ==
    ASSUME RequestOK, NEW solution, SolutionOK(solution)
    PROVE  LET stops == Stops(solution)
               used == Used(solution.basket)
           IN  /\ stops \in Seq(used)
               /\ \A a \in used : \E i \in 1..Len(stops) : stops[i] = a
               /\ \A i, j \in 1..Len(stops) : stops[i] = stops[j] => i = j
<1>. DEFINE used == Used(solution.basket)
            key == [a \in used |-> <<Distance([agency |-> a]), a>>]
<1>1. IsFiniteSet(used) /\ used \subseteq Nat \ {0}
  BY BasketIsBought DEF SolutionOK
<1>2. CASE solution.tour # None
  <2>1. Stops(solution) = solution.tour.order /\ IsOrder(solution.tour.order, used)
    BY <1>2 DEF Stops, SolutionOK
  <2> HIDE DEF used
  <2>2. /\ Stops(solution) \in Seq(used)
        /\ \A i, j \in 1..Len(Stops(solution)) : i # j => Stops(solution)[i] # Stops(solution)[j]
    BY <2>1 DEF IsOrder
  <2>3. \A a \in used : \E i \in 1..Len(Stops(solution)) : Stops(solution)[i] = a
    BY <1>1, <2>1, OrdersAre
  <2> QED
    BY <2>2, <2>3 DEF used
<1>3. CASE solution.tour = None
  <2>1. \A a \in used : key[a] \in Seq(Int) /\ Len(key[a]) = 2 /\ key[a][2] = a
    <3> SUFFICES ASSUME NEW a \in used
                 PROVE  key[a] \in Seq(Int) /\ Len(key[a]) = 2 /\ key[a][2] = a
      OBVIOUS
    <3>1. Distance([agency |-> a]) \in Int /\ a \in Int
      BY <1>1, DistanceType
    <3>2. key[a] = <<Distance([agency |-> a]), a>>
      OBVIOUS
    <3> HIDE DEF key
    <3> QED
      BY <3>1, <3>2, PairKey
  <2>2. DOMAIN key = used
    OBVIOUS
  <2>3. Stops(solution) = Sorted(key)
    BY <1>3 DEF Stops
  <2> HIDE DEF key, used
  <2>4. \A x, y \in DOMAIN key : key[x] = key[y] => x = y
    BY <2>1, <2>2
  <2>5. /\ Sorted(key) \in Seq(DOMAIN key)
        /\ \A x \in DOMAIN key : \E i \in 1..Len(Sorted(key)) : Sorted(key)[i] = x
        /\ \A i, j \in 1..Len(Sorted(key)) : Sorted(key)[i] = Sorted(key)[j] => i = j
    <3>1. 2 \in Nat \ {0} /\ \A x \in DOMAIN key : key[x] \in Seq(Int) /\ Len(key[x]) = 2
      BY <2>1, <2>2
    <3>2. IsFiniteSet(DOMAIN key)
      BY <1>1, <2>2 DEF used
    <3> QED
      BY ONLY <2>4, <3>1, <3>2, SortedOnce
  <2> QED
    BY <2>2, <2>3, <2>5 DEF used
<1> QED
  BY <1>2, <1>3

\* The line of a product bought.
LEMMA SelectedLineIs ==
    ASSUME RequestOK, NEW basket, \E offers : OffersOK(offers) /\ basket = Basket(offers),
           NEW p \in Bought(basket)
    PROVE  LET line == SelectedLine(basket, p)
               bought == basket[p]
           IN  /\ line \in SelectedLines /\ line.product = p
               /\ line.agency_key = KeyOf(bought.offer.agency)
               /\ line.agency_id = KeyOf(bought.offer.agency)[2]
               /\ line.packs = bought.packs
               /\ line.pack_price = Rounded(bought.offer.price)
               /\ line.line_total = Rounded(bought.offer.price * bought.packs)
               /\ line.line_total = LineCost(bought.offer, bought.packs)
               /\ bought.offer.price \in Nat
<1>. DEFINE line == SelectedLine(basket, p)
            offer == basket[p].offer
            packs == basket[p].packs
            key == KeyOf(offer.agency)
<1>1. /\ p \in Nat \ {0} /\ offer.agency \in Nat \ {0} /\ offer.price \in Nat
      /\ packs \in Nat \ {0}
  BY BasketIsBought
<1>2. line = [product |-> p, agency_key |-> key, agency_id |-> key[2], packs |-> packs,
              pack_price |-> Rounded(offer.price), line_total |-> LineCost(offer, packs)]
  BY DEF SelectedLine
<1> HIDE DEF offer, packs, line
<1>3. key \in AgencyKeys
  BY <1>1, KeyOfIs
<1>4. key[2] \in Nat \ {0}
  BY <1>3, AgencyKeyIs
<1>5. Rounded(offer.price) \in Nat /\ LineCost(offer, packs) \in Nat
  BY <1>1, RoundedIs, LineCostType
<1>6. LineCost(offer, packs) = Rounded(offer.price * packs)
  BY DEF LineCost
<1> HIDE DEF key
<1>7. line \in SelectedLines
  BY <1>1, <1>2, <1>3, <1>4, <1>5 DEF SelectedLines
<1>8. /\ line.product = p /\ line.agency_key = key /\ line.agency_id = key[2]
      /\ line.packs = packs /\ line.pack_price = Rounded(offer.price)
      /\ line.line_total = LineCost(offer, packs)
  BY <1>2
<1> QED
  BY <1>1, <1>6, <1>7, <1>8 DEF line, offer, packs, key

\* The snapshot says what the solution is.
LEMMA SnapshotIsKept ==
    ASSUME RequestOK, NEW solution, SolutionOK(solution)
    PROVE  /\ Kept(Snapshot(solution), Bought(solution.basket), HomeOf(solution.basket),
                   Stops(solution), LineOf(solution.basket))
           /\ solution.tour # None => LegsTold(Snapshot(solution), request.layout, Stops(solution))
<1>. DEFINE basket == solution.basket
            B == Bought(basket)
            home == HomeOf(basket)
            line == LineOf(basket)
            stops == Stops(solution)
            made == Snapshot(solution)
            key == [p \in B |-> <<p>>]
            bought == Sorted(key)
<1>1. \E offers : OffersOK(offers) /\ basket = Basket(offers)
  BY DEF SolutionOK
<1>2. /\ IsFiniteSet(B) /\ B \subseteq Nat \ {0}
      /\ Used(basket) \subseteq Nat \ {0} /\ Used(basket) = {basket[p].offer.agency : p \in B}
      /\ \A p \in B : /\ basket[p].offer.agency \in Nat \ {0}
                      /\ basket[p].offer.agency \in Used(basket)
  BY <1>1, BasketIsBought
<1>3. /\ stops \in Seq(Used(basket))
      /\ \A a \in Used(basket) : \E i \in 1..Len(stops) : stops[i] = a
      /\ \A i, j \in 1..Len(stops) : stops[i] = stops[j] => i = j
  BY StopsAre
<1>4. /\ stops \in Seq(Nat \ {0}) /\ DOMAIN stops = 1..Len(stops)
      /\ \A i \in 1..Len(stops) : stops[i] \in Used(basket) /\ stops[i] \in Nat \ {0}
  <2>1. DOMAIN stops = 1..Len(stops) /\ \A i \in 1..Len(stops) : stops[i] \in Used(basket)
    BY <1>3, LenProperties, ElementOfSeq
  <2>2. \A i \in 1..Len(stops) : stops[i] \in Nat \ {0}
    BY <1>2, <2>1
  <2>3. stops \in Seq(Nat \ {0})
    <3> HIDE DEF stops
    <3> QED
      BY <1>2, <1>3
  <2> QED
    BY <2>1, <2>2, <2>3
<1>5. \A p \in B : home[p] = basket[p].offer.agency /\ line[p] = SelectedLine(basket, p)
  BY DEF HomeOf, LineOf
<1>6. /\ bought \in Seq(B) /\ \A p \in B : \E i \in 1..Len(bought) : bought[i] = p
  <2>1. DOMAIN key = B
    OBVIOUS
  <2>2. \A p \in B : key[p] \in Seq(Int) /\ Len(key[p]) = 1 /\ key[p][1] = p
    BY <1>2
  <2> HIDE DEF key, B
  <2>3. \A x, y \in DOMAIN key : key[x] = key[y] => x = y
    BY <2>1, <2>2
  <2>4. /\ Sorted(key) \in Seq(DOMAIN key)
        /\ \A x \in DOMAIN key : \E i \in 1..Len(Sorted(key)) : Sorted(key)[i] = x
    <3>1. 1 \in Nat \ {0} /\ \A x \in DOMAIN key : key[x] \in Seq(Int) /\ Len(key[x]) = 1
      BY <2>1, <2>2
    <3> QED
      BY <1>2, <2>1, <2>3, <3>1, SortedOnce
  <2> QED
    BY <2>1, <2>4
<1>7. DOMAIN bought = 1..Len(bought) /\ Len(bought) \in Nat
      /\ \A i \in 1..Len(bought) : bought[i] \in B
  BY <1>6, LenProperties, ElementOfSeq
<1>8. /\ made.lines = [i \in DOMAIN bought |-> SelectedLine(basket, bought[i])]
      /\ made.stops = [i \in DOMAIN stops |-> [agency_key |-> KeyOf(stops[i]),
                                              agency_id |-> KeyOf(stops[i])[2]]]
  BY DEF Snapshot
<1>9. solution.tour # None => LegsTold(made, request.layout, stops)
  BY DEF Snapshot, LegsTold
<1> HIDE DEF basket, B, home, line, stops, made, key, bought
<1>10. \A p \in B : home[p] \in Nat \ {0} /\ \E i \in 1..Len(stops) : stops[i] = home[p]
  BY <1>2, <1>3, <1>5
<1>11. \A i \in 1..Len(stops) : \E p \in B : home[p] = stops[i]
  BY <1>2, <1>4, <1>5
<1>12. \A p \in B : /\ line[p] \in SelectedLines /\ line[p].product = p
                    /\ AgencyKey(line[p]) = KeyOf(home[p]) /\ line[p].agency_id = KeyOf(home[p])[2]
  <2> SUFFICES ASSUME NEW p \in B
               PROVE  /\ line[p] \in SelectedLines /\ line[p].product = p
                      /\ AgencyKey(line[p]) = KeyOf(home[p]) /\ line[p].agency_id = KeyOf(home[p])[2]
    OBVIOUS
  <2>1. /\ line[p] \in SelectedLines /\ line[p].product = p
        /\ line[p].agency_key = KeyOf(home[p]) /\ line[p].agency_id = KeyOf(home[p])[2]
    BY <1>1, <1>5, SelectedLineIs DEF B
  <2>2. KeyOf(home[p]) # None
    BY <1>10, KeyOfIs, KeysGiven
  <2> QED
    BY <2>1, <2>2 DEF AgencyKey
<1>13. \E n \in Nat : DOMAIN made.lines = 1..n
  BY <1>7, <1>8
<1>14. \A i \in DOMAIN made.lines : \E p \in B : made.lines[i] = line[p]
  BY <1>5, <1>7, <1>8
<1>15. \A p \in B : \E i \in DOMAIN made.lines : made.lines[i] = line[p]
  BY <1>5, <1>6, <1>7, <1>8
<1>16. DOMAIN made.stops = 1..Len(stops)
  BY <1>4, <1>8
<1>17. \A i \in 1..Len(stops) : AgencyKey(made.stops[i]) = KeyOf(stops[i])
  <2> SUFFICES ASSUME NEW i \in 1..Len(stops) PROVE AgencyKey(made.stops[i]) = KeyOf(stops[i])
    OBVIOUS
  <2>1. made.stops[i] = [agency_key |-> KeyOf(stops[i]), agency_id |-> KeyOf(stops[i])[2]]
    BY <1>4, <1>8
  <2>2. KeyOf(stops[i]) # None
    BY <1>4, KeyOfIs, KeysGiven
  <2> QED
    BY <2>1, <2>2 DEF AgencyKey
<1>18. Kept(made, B, home, stops, line)
  BY <1>2, <1>3, <1>4, <1>10, <1>11, <1>12, <1>13, <1>14, <1>15, <1>16, <1>17 DEF Kept
<1> QED
  BY <1>9, <1>18 DEF basket, B, home, line, stops, made

-----------------------------------------------------------------------------
(* The list of a snapshot *)

\* The lines of a snapshot of before the live stores.
LineBefore(basket) ==
    [p \in Bought(basket) |-> [SelectedLine(basket, p) EXCEPT !.agency_key = None]]

\* Without the agency_key, the id tells the agencies apart that have a row.
LEMMA WithoutKeysIsKept ==
    ASSUME RequestOK, NEW solution, SolutionOK(solution),
           \A a \in Used(solution.basket) : KeyOf(a)[1] = "db"
    PROVE  LET made == WithoutKeys(Snapshot(solution)) IN
           /\ Kept(made, Bought(solution.basket), HomeOf(solution.basket),
                   Stops(solution), LineBefore(solution.basket))
           /\ solution.tour # None => LegsTold(made, request.layout, Stops(solution))
<1>. DEFINE basket == solution.basket
            B == Bought(basket)
            home == HomeOf(basket)
            line == LineOf(basket)
            before == LineBefore(basket)
            stops == Stops(solution)
            kept == Snapshot(solution)
            made == WithoutKeys(kept)
<1>1. /\ Kept(kept, B, home, stops, line)
      /\ solution.tour # None => LegsTold(kept, request.layout, stops)
  BY SnapshotIsKept
<1>2. /\ made.lines = [i \in DOMAIN kept.lines |-> [kept.lines[i] EXCEPT !.agency_key = None]]
      /\ made.stops = [i \in DOMAIN kept.stops |-> [kept.stops[i] EXCEPT !.agency_key = None]]
      /\ made.legs = kept.legs
  BY DEF WithoutKeys
<1>3. /\ DOMAIN kept.stops = DOMAIN stops
      /\ \A i \in DOMAIN stops : kept.stops[i] = [agency_key |-> KeyOf(stops[i]),
                                                  agency_id |-> KeyOf(stops[i])[2]]
  BY DEF Snapshot
<1>4. \A p \in B : before[p] = [line[p] EXCEPT !.agency_key = None]
  BY DEF LineBefore, LineOf
<1>5. \A p \in B : home[p] \in Used(basket)
  BY DEF HomeOf, Used
<1>6. \A a \in Used(basket) : KeyOf(a)[1] = "db"
  OBVIOUS
<1>7. solution.tour # None => LegsTold(made, request.layout, stops)
  BY <1>1, <1>2 DEF LegsTold
<1> HIDE DEF basket, B, home, line, before, stops, kept, made
<1>8. /\ IsFiniteSet(B) /\ B \subseteq Nat \ {0} /\ stops \in Seq(Nat \ {0})
      /\ \A p \in B : home[p] \in Nat \ {0} /\ \E i \in 1..Len(stops) : stops[i] = home[p]
      /\ \A i \in 1..Len(stops) : \E p \in B : home[p] = stops[i]
      /\ \A i, j \in 1..Len(stops) : stops[i] = stops[j] => i = j
      /\ \A p \in B : /\ line[p] \in SelectedLines /\ line[p].product = p
                      /\ AgencyKey(line[p]) = KeyOf(home[p])
                      /\ line[p].agency_id = KeyOf(home[p])[2]
      /\ \E n \in Nat : DOMAIN kept.lines = 1..n
      /\ \A i \in DOMAIN kept.lines : \E p \in B : kept.lines[i] = line[p]
      /\ \A p \in B : \E i \in DOMAIN kept.lines : kept.lines[i] = line[p]
      /\ DOMAIN kept.stops = 1..Len(stops)
  BY <1>1 DEF Kept
<1>9. \A p \in B : KeyOf(home[p]) = DbKey(KeyOf(home[p])[2])
  <2> SUFFICES ASSUME NEW p \in B PROVE KeyOf(home[p]) = DbKey(KeyOf(home[p])[2])
    OBVIOUS
  <2>1. home[p] \in Nat \ {0} /\ KeyOf(home[p])[1] = "db"
    BY <1>5, <1>6, <1>8
  <2>2. KeyOf(home[p]) = <<"db", KeyOf(home[p])[2]>>
    BY <2>1, KeyOfIs, AgencyKeyIs
  <2> QED
    BY <2>2 DEF DbKey
<1>10. \A p \in B : /\ before[p] \in SelectedLines /\ before[p].product = p
                    /\ AgencyKey(before[p]) = KeyOf(home[p])
                    /\ before[p].agency_id = KeyOf(home[p])[2]
  <2> SUFFICES ASSUME NEW p \in B
               PROVE  /\ before[p] \in SelectedLines /\ before[p].product = p
                      /\ AgencyKey(before[p]) = KeyOf(home[p])
                      /\ before[p].agency_id = KeyOf(home[p])[2]
    OBVIOUS
  <2>1. line[p] \in SelectedLines /\ line[p].product = p /\ line[p].agency_id = KeyOf(home[p])[2]
    BY <1>8
  <2>2. before[p] = [line[p] EXCEPT !.agency_key = None]
    BY <1>4
  <2>3. /\ before[p] \in SelectedLines /\ before[p].product = p /\ before[p].agency_key = None
        /\ before[p].agency_id = KeyOf(home[p])[2]
    BY <2>1, <2>2 DEF SelectedLines
  <2> QED
    BY <1>9, <2>3 DEF AgencyKey
<1>11. /\ DOMAIN made.lines = DOMAIN kept.lines
       /\ \A i \in DOMAIN kept.lines : made.lines[i] = [kept.lines[i] EXCEPT !.agency_key = None]
  BY <1>2
<1>12. /\ \E n \in Nat : DOMAIN made.lines = 1..n
       /\ \A i \in DOMAIN made.lines : \E p \in B : made.lines[i] = before[p]
       /\ \A p \in B : \E i \in DOMAIN made.lines : made.lines[i] = before[p]
  <2>1. ASSUME NEW i \in DOMAIN made.lines PROVE \E p \in B : made.lines[i] = before[p]
    <3>1. PICK p \in B : kept.lines[i] = line[p]
      BY <1>8, <1>11
    <3>2. made.lines[i] = before[p]
      BY <1>4, <1>11, <3>1
    <3> QED
      BY <3>2
  <2>2. ASSUME NEW p \in B PROVE \E i \in DOMAIN made.lines : made.lines[i] = before[p]
    <3>1. PICK i \in DOMAIN kept.lines : kept.lines[i] = line[p]
      BY <1>8
    <3>2. made.lines[i] = before[p]
      BY <1>4, <1>11, <3>1
    <3> QED
      BY <1>11, <3>2
  <2> QED
    BY <1>8, <1>11, <2>1, <2>2
<1>13. DOMAIN made.stops = 1..Len(stops)
  BY <1>2, <1>8
<1>14. \A i \in 1..Len(stops) : AgencyKey(made.stops[i]) = KeyOf(stops[i])
  <2> SUFFICES ASSUME NEW i \in 1..Len(stops) PROVE AgencyKey(made.stops[i]) = KeyOf(stops[i])
    OBVIOUS
  <2>1. PICK p \in B : home[p] = stops[i]
    BY <1>8
  <2>2. KeyOf(stops[i]) = DbKey(KeyOf(stops[i])[2])
    BY <1>9, <2>1
  <2>3. /\ kept.stops[i].agency_id = KeyOf(stops[i])[2]
        /\ DOMAIN kept.stops[i] = {"agency_key", "agency_id"}
    <3>1. i \in DOMAIN stops
      BY <1>3, <1>8
    <3>2. kept.stops[i] = [agency_key |-> KeyOf(stops[i]), agency_id |-> KeyOf(stops[i])[2]]
      BY <1>3, <3>1
    <3> QED
      BY <3>2
  <2>4. made.stops[i] = [kept.stops[i] EXCEPT !.agency_key = None]
    BY <1>2, <1>8
  <2>5. made.stops[i].agency_key = None /\ made.stops[i].agency_id = KeyOf(stops[i])[2]
    BY <2>3, <2>4
  <2> QED
    BY <2>2, <2>5 DEF AgencyKey
<1>15. Kept(made, B, home, stops, before)
  BY <1>8, <1>10, <1>12, <1>13, <1>14 DEF Kept
<1> QED
  BY <1>7, <1>15 DEF basket, B, home, before, stops, kept, made

\* A snapshot that says what the solution is, shows it.
LEMMA KeptIsSolution ==
    ASSUME RequestOK, NEW solution, SolutionOK(solution), NEW made, NEW line,
           Kept(made, Bought(solution.basket), HomeOf(solution.basket), Stops(solution), line),
           solution.tour # None => LegsTold(made, request.layout, Stops(solution)),
           \A p \in Bought(solution.basket) :
               /\ line[p].packs = solution.basket[p].packs
               /\ line[p].pack_price = Rounded(solution.basket[p].offer.price)
               /\ line[p].line_total = LineCost(solution.basket[p].offer, solution.basket[p].packs)
    PROVE  IsTheSolution(BuildShoppingList(made, <<>>), made, solution)
<1>. DEFINE basket == solution.basket
            B == Bought(basket)
            home == HomeOf(basket)
            stops == Stops(solution)
            list == BuildShoppingList(made, <<>>)
            tour == solution.tour
<1>1. \E offers : OffersOK(offers) /\ basket = Basket(offers)
  BY DEF SolutionOK
<1>2. \A p \in B : home[p] = basket[p].offer.agency
  BY DEF HomeOf
<1>3. ShownWhereBought(list, made, basket)
  BY <1>2, ShownIs
<1>4. /\ list.stores = [i \in 1..Len(stops) |-> ListedStore(made, <<>>, KeyOf(stops[i]), i)]
      /\ stops \in Seq(Nat \ {0}) /\ DOMAIN stops = 1..Len(stops)
  <2>1. stops \in Seq(Nat \ {0})
    BY DEF Kept
  <2>2. DOMAIN stops = 1..Len(stops)
    BY <2>1, LenProperties
  <2>3. list.stores = [i \in 1..Len(stops) |-> ListedStore(made, <<>>, KeyOf(stops[i]), i)]
    BY ListIs
  <2> QED
    BY <2>1, <2>2, <2>3
<1>5. \A k, i : /\ ListedStore(made, <<>>, k, i).agency_key = k
                /\ ListedStore(made, <<>>, k, i).minutes = LegMinutes(made, k)
  BY DEF ListedStore
<1>6. InOrderOfTheTour(list, stops, tour)
  <2>. DEFINE keys == [i \in DOMAIN list.stores |-> list.stores[i].agency_key]
              told == [i \in DOMAIN list.stores |-> list.stores[i].minutes]
  <2>1. keys = [i \in DOMAIN stops |-> KeyOf(stops[i])]
    <3> HIDE DEF list, stops
    <3>1. DOMAIN list.stores = 1..Len(stops)
      BY <1>4
    <3>2. \A i \in 1..Len(stops) : list.stores[i].agency_key = KeyOf(stops[i])
      BY <1>4, <1>5
    <3> QED
      BY <1>4, <3>1, <3>2
  <2>2. ASSUME tour # None
        PROVE  SumFunction(told) + Leg(request.layout, Last(tour.order), 0).time = tour.time
    <3>1. /\ stops = tour.order /\ IsOrder(stops, Used(basket)) /\ Used(basket) # {}
          /\ Placed(request.layout, Used(basket)) /\ tour = Tour(request.layout, stops)
      BY <2>2 DEF Stops, SolutionOK
    <3>2. LegsTold(made, request.layout, stops)
      BY <2>2
    <3>3. DOMAIN told = 1..Len(stops)
      BY <1>4
    <3>4. \A i \in 1..Len(stops) : told[i] = LegMinutes(made, KeyOf(stops[i]))
      <4> HIDE DEF list, stops
      <4> QED
        BY <1>4, <1>5
    <3> HIDE DEF told, stops, list
    <3>5. SumFunction(told) + Leg(request.layout, Last(stops), 0).time
              = Tour(request.layout, stops).time
      <4>1. PICK layout, order, S : layout = request.layout /\ order = stops /\ S = Used(basket)
        OBVIOUS
      <4>2. /\ Placed(layout, S) /\ IsOrder(order, S) /\ S # {} /\ LegsTold(made, layout, order)
            /\ DOMAIN told = 1..Len(order)
            /\ \A i \in 1..Len(order) : told[i] = LegMinutes(made, KeyOf(order[i]))
        BY ONLY <3>1, <3>2, <3>3, <3>4, <4>1
      <4>3. SumFunction(told) + Leg(layout, Last(order), 0).time = Tour(layout, order).time
        BY ONLY <4>2, MinutesAre
      <4> QED
        BY ONLY <4>1, <4>3
    <3> QED
      BY ONLY <3>1, <3>5
  <2> QED
    BY <2>1, <2>2 DEF InOrderOfTheTour
<1>7. solution.material # None =>
          SumFunction([i \in DOMAIN list.stores |-> list.stores[i].subtotal]) = solution.material
  <2>1. SumFunction([i \in DOMAIN list.stores |-> list.stores[i].subtotal]) = Total(basket)
    BY SubtotalsAre
  <2> QED
    BY <2>1 DEF SolutionOK
<1>8. ASSUME NEW ticked \in SUBSET {item.line_key : item \in list.lines}
      PROVE  CountsWhatIsTicked(BuildShoppingList(made, Ticked(made, ticked)), ticked)
  <2>1. list.lines = Values(Listed(line, <<>>, B), B)
    BY ListedAre
  <2>2. \A x : ListedLine(x, <<>>).line_key = MakeLineKey(x)
    BY ListedLineIs
  <2>3. \A item \in list.lines : \E p \in B : item.line_key = MakeLineKey(line[p])
    <3> HIDE DEF list, B
    <3> QED
      BY <2>1, <2>2 DEF Values, Listed
  <2>4. ticked \in SUBSET {MakeLineKey(line[p]) : p \in B}
    BY <2>3
  <2>5. \A p \in B : \E price \in Nat : /\ line[p].pack_price = Rounded(price)
                                        /\ line[p].line_total = Rounded(price * line[p].packs)
    <3> SUFFICES ASSUME NEW p \in B
                 PROVE  \E price \in Nat : /\ line[p].pack_price = Rounded(price)
                                           /\ line[p].line_total = Rounded(price * line[p].packs)
      OBVIOUS
    <3>1. basket[p].offer.price \in Nat
      BY <1>1, BasketIsBought
    <3>2. /\ line[p].pack_price = Rounded(basket[p].offer.price)
          /\ line[p].line_total = Rounded(basket[p].offer.price * line[p].packs)
      BY DEF LineCost
    <3> QED
      BY <3>1, <3>2
  <2>6. Kept(made, B, home, stops, line)
    OBVIOUS
  <2> HIDE DEF list, B, home, stops
  <2> QED
    BY <2>4, <2>5, <2>6, TickedIs
<1>9. /\ ShownWhereBought(list, made, solution.basket)
      /\ InOrderOfTheTour(list, Stops(solution), solution.tour)
  BY <1>3, <1>6
<1> QED
  BY <1>7, <1>8, <1>9 DEF IsTheSolution

-----------------------------------------------------------------------------
(* The list of whatever is retained *)

\* What the search answers is listed as found.
LEMMA ListedAsFound ==
    ASSUME RequestTypeOK, SearchOK PROVE ListIsTheSolution
<1> SUFFICES ASSUME pc = "answered", NEW solution \in Retainable
             PROVE  LET made == Snapshot(solution) IN
                    /\ IsTheSolution(BuildShoppingList(made, <<>>), made, solution)
                    /\ (\A a \in Used(solution.basket) : KeyOf(a)[1] = "db") =>
                           IsTheSolution(BuildShoppingList(WithoutKeys(made), <<>>),
                                         WithoutKeys(made), solution)
  BY DEF ListIsTheSolution
<1>1. GivenSearch /\ RequestOK
  BY DEF RequestTypeOK, Asked, GivenOK, GivenSearch, RequestOK
<1>2. FoundOK /\ strategies = Reply /\ options = Offered
  BY DEF SearchOK
<1>3. SolutionOK(solution)
  BY <1>1, <1>2, RetainableIs
<1>. DEFINE made == Snapshot(solution)
            basket == solution.basket
<1>4. \A p \in Bought(basket) :
          /\ LineOf(basket)[p] = SelectedLine(basket, p)
          /\ LineBefore(basket)[p] = [SelectedLine(basket, p) EXCEPT !.agency_key = None]
          /\ SelectedLine(basket, p) \in SelectedLines
          /\ SelectedLine(basket, p).packs = basket[p].packs
          /\ SelectedLine(basket, p).pack_price = Rounded(basket[p].offer.price)
          /\ SelectedLine(basket, p).line_total = LineCost(basket[p].offer, basket[p].packs)
  <2>1. \E offers : OffersOK(offers) /\ basket = Basket(offers)
    BY <1>3 DEF SolutionOK
  <2> SUFFICES ASSUME NEW p \in Bought(basket)
               PROVE  /\ LineOf(basket)[p] = SelectedLine(basket, p)
                      /\ LineBefore(basket)[p] = [SelectedLine(basket, p) EXCEPT !.agency_key = None]
                      /\ SelectedLine(basket, p) \in SelectedLines
                      /\ SelectedLine(basket, p).packs = basket[p].packs
                      /\ SelectedLine(basket, p).pack_price = Rounded(basket[p].offer.price)
                      /\ SelectedLine(basket, p).line_total
                             = LineCost(basket[p].offer, basket[p].packs)
    OBVIOUS
  <2>2. /\ SelectedLine(basket, p) \in SelectedLines
        /\ SelectedLine(basket, p).packs = basket[p].packs
        /\ SelectedLine(basket, p).pack_price = Rounded(basket[p].offer.price)
        /\ SelectedLine(basket, p).line_total = LineCost(basket[p].offer, basket[p].packs)
    <3> HIDE DEF basket
    <3> QED
      BY <1>1, <2>1, SelectedLineIs
  <2>3. /\ LineOf(basket)[p] = SelectedLine(basket, p)
        /\ LineBefore(basket)[p] = [SelectedLine(basket, p) EXCEPT !.agency_key = None]
    BY DEF LineOf, LineBefore
  <2> QED
    BY <2>2, <2>3
<1>5. IsTheSolution(BuildShoppingList(made, <<>>), made, solution)
  <2>1. /\ Kept(made, Bought(basket), HomeOf(basket), Stops(solution), LineOf(basket))
        /\ solution.tour # None => LegsTold(made, request.layout, Stops(solution))
    BY <1>1, <1>3, SnapshotIsKept
  <2>2. \A p \in Bought(basket) :
            /\ LineOf(basket)[p].packs = basket[p].packs
            /\ LineOf(basket)[p].pack_price = Rounded(basket[p].offer.price)
            /\ LineOf(basket)[p].line_total = LineCost(basket[p].offer, basket[p].packs)
    <3> HIDE DEF basket
    <3> QED
      BY <1>4
  <2> HIDE DEF made
  <2> QED
    BY <1>1, <1>3, <2>1, <2>2, KeptIsSolution
<1>6. ASSUME \A a \in Used(basket) : KeyOf(a)[1] = "db"
      PROVE  IsTheSolution(BuildShoppingList(WithoutKeys(made), <<>>), WithoutKeys(made), solution)
  <2>1. /\ Kept(WithoutKeys(made), Bought(basket), HomeOf(basket), Stops(solution),
                LineBefore(basket))
        /\ solution.tour # None => LegsTold(WithoutKeys(made), request.layout, Stops(solution))
    BY <1>1, <1>3, <1>6, WithoutKeysIsKept
  <2>2. \A p \in Bought(basket) :
            /\ LineBefore(basket)[p].packs = basket[p].packs
            /\ LineBefore(basket)[p].pack_price = Rounded(basket[p].offer.price)
            /\ LineBefore(basket)[p].line_total = LineCost(basket[p].offer, basket[p].packs)
    <3> HIDE DEF basket
    <3> QED
      BY <1>4 DEF SelectedLines
  <2> HIDE DEF made
  <2> QED
    BY <1>1, <1>3, <2>1, <2>2, KeptIsSolution
<1> QED
  BY <1>5, <1>6

\* Whatever solution is retained, and from the snapshots of before the live stores too,
\* the list shows each line bought once, in the store it is bought at and under a key
\* that finds it, in the order of the tour and with its minutes; its subtotals make the
\* price of the materials, and what is ticked counts, off by no more than the rounding
\* of the packs (services/shopping_list.py, build_shopping_list).
THEOREM RetainedIsListed == RequestSpec => []ListIsTheSolution
<1>1. RequestInit => RequestTypeOK /\ SearchOK
  BY RequestTypeInit, SearchInit
<1>2. RequestTypeOK /\ SearchOK /\ [RequestNext]_<<vars, requestVars>>
      => (RequestTypeOK /\ SearchOK)'
  BY RequestTypeStep, SearchStep
<1>3. RequestTypeOK /\ SearchOK => ListIsTheSolution
  BY ListedAsFound
<1> QED
  BY <1>1, <1>2, <1>3, PTL DEF RequestSpec
===============================================================================
