--------------------------- MODULE MCCompareRequest ---------------------------
(* The requests CompareRequest is model-checked on, beside the comparisons of
   MCOptimiser.  Suppliers 1 and 2 are the two names of Brico, 3 is Gedimat; agencies
   3 and 4 are those of catalogues, 5 and 6 Gedimat stores, 7 and 8 Brico stores, 9
   the national catalogue. *)
EXTENDS MCOptimiser, CompareRequest, ShoppingList

File(price) == Article(price, 1, 9, 0, "stock")

Hit(price, stock, sold) == [price |-> price, stock |-> stock, sold |-> sold]

Feature(place, commune, score) == [place |-> place, commune |-> commune, score |-> score]

At(x, y) == <<x, y>>

Origin(type) == [type |-> type, place |-> At(1, 1), address |-> None]

Address(text) == [type |-> "site", place |-> None, address |-> text]

Store(own, ecommerce, place) == [own |-> own, ecommerce |-> ecommerce, place |-> place]

Page(ecommerce, place, page) == [ecommerce |-> ecommerce, place |-> place, page |-> page]

NoCache == [list |-> <<>>, fresh |-> FALSE]

\* Gedimat by its catalogue or by its stores, near, configured or unknown.
GedimatCase ==
    [cart |-> (1 :> 2), limit |-> 3,
     suppliers |-> {(3 :> g @@ 4 :> TRUE) : g \in {TRUE, FALSE, None}},
     opened |-> {{3, 4}, {3}},
     shelf |-> (<<1, 3, 3, 1>> :> File(120) @@ <<1, 4, 4, 1>> :> File(130)),
     places |-> (3 :> At(0, 2) @@ 4 :> At(2, 2)),
     mapped |-> <<[supplier |-> 3, product |-> 1, ref |-> 1, pack |-> 1]>>,
     live |-> {"gedimat"}, configured |-> 6, geocoder |-> "fake",
     directory |-> (5 :> Store(50, TRUE, At(1, 0)) @@ 6 :> None),
     listings |-> {(5 :> Page(TRUE, At(1, 0), None) @@
                    6 :> Page(TRUE, At(1, 2), [shop |-> 60, ecommerce |-> TRUE])),
                   (5 :> Page(FALSE, At(1, 0), [shop |-> 1, ecommerce |-> FALSE]) @@
                    6 :> Page(FALSE, None, None))},
     locator |-> NoCache, retailers |-> {},
     rows |-> (<<"gedimat", 50, 1>> :> Hit(95, 1, "available")
                @@ <<"gedimat", 6, 1>> :> Hit(None, 0, "unavailable")),
     hits |-> [gedimat |-> {Hit(100, 3, "available"), Hit(100, 0, "available"),
                            Hit(100, 0, "delayed"), Hit(90, 9, "order_only"),
                            Hit(None, 3, "unavailable"), Hit(None, 2, "available")}],
     origins |-> {Origin("none"), Origin("company"), Address("known"), Address("other")},
     answers |-> {<<>>}]

\* Brico by its catalogue or by the stores of the commune.
BricoCase ==
    [GedimatCase EXCEPT
        !.suppliers = {(1 :> a @@ 2 :> b @@ 4 :> TRUE) : a \in {TRUE, FALSE, None},
                                                         b \in {TRUE, FALSE}},
        !.opened = {{1, 2, 4}},
        !.shelf = (<<1, 2, 9, 1>> :> File(120) @@ <<1, 4, 4, 1>> :> File(130)),
        !.mapped = <<[supplier |-> 1, product |-> 1, ref |-> 1, pack |-> 2],
                     [supplier |-> 2, product |-> 1, ref |-> 1, pack |-> 1]>>,
        !.live = {"brico"}, !.geocoder = "geopf",
        !.directory = <<>>, !.listings = {},
        !.locator = [list |-> <<[id |-> 7, place |-> At(0, 1), distance |-> 1]>>,
                     fresh |-> FALSE],
        !.retailers = {<<>>, <<[id |-> 8, place |-> None, distance |-> None],
                               [id |-> 7, place |-> At(0, 1), distance |-> 1]>>},
        !.rows = (<<"brico", 7, 1>> :> Hit(95, 1, TRUE)),
        !.hits = [brico |-> {Hit(100, 3, TRUE), Hit(100, 3, FALSE), Hit(100, None, None),
                             Hit(None, 0, FALSE), Hit(None, 1, TRUE)}],
        !.origins = {Origin("coordinates"), Address("other")},
        !.answers = {<<>>, <<Feature(At(1, 0), None, 9), Feature(None, 1, 8),
                             Feature(At(0, 0), 1, 5), Feature(At(1, 1), 2, 5)>>}]

\* Both brands and a merchant, for two products.
BothCase ==
    [GedimatCase EXCEPT
        !.cart = (1 :> 1 @@ 2 :> 2),
        !.suppliers = {(2 :> TRUE @@ 3 :> TRUE @@ 4 :> TRUE)},
        !.opened = {{2, 3, 4}},
        !.shelf = (<<1, 2, 9, 1>> :> File(120) @@ <<2, 3, 3, 1>> :> File(80)
                      @@ <<1, 4, 4, 1>> :> File(130) @@ <<2, 4, 4, 2>> :> File(110)),
        !.mapped = <<[supplier |-> 3, product |-> 2, ref |-> 1, pack |-> 1],
                     [supplier |-> 2, product |-> 1, ref |-> 1, pack |-> 1]>>,
        !.live = {"brico", "gedimat"}, !.geocoder = "geopf",
        !.locator = [list |-> <<[id |-> 7, place |-> At(0, 1), distance |-> 1]>>,
                     fresh |-> TRUE],
        !.rows = (<<"gedimat", 50, 1>> :> Hit(85, 1, "available")),
        !.hits = [brico |-> {Hit(100, 3, TRUE)}, gedimat |-> {Hit(100, 3, "available")}],
        !.origins = {Origin("coordinates")},
        !.answers = {<<Feature(At(0, 0), 1, 5)>>}]

\* The names without a row; the cached answers all fresh or all stale.
Completed(asked) ==
    [asked EXCEPT
        !.suppliers = {s @@ [n \in 1..4 |-> None] : s \in @},
        !.rows = {[slot \in DOMAIN asked.rows |->
                      [price |-> asked.rows[slot].price, stock |-> asked.rows[slot].stock,
                       sold |-> asked.rows[slot].sold, fresh |-> fresh]] : fresh \in BOOLEAN}]

\* Stores of Gedimat and of Brico have the ids of the agencies of the catalogues.
MCLiveKey ==
    (5 :> <<"gedimat", 3>> @@ 6 :> <<"gedimat", 4>> @@ 60 :> <<"gedimat", 60>>
        @@ 7 :> <<"bricodepot", 3>> @@ 8 :> <<"bricodepot", 4>>)

MCCases == <<Completed(GedimatCase), Completed(BricoCase), Completed(BothCase)>>
===============================================================================
