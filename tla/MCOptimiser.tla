------------------------------ MODULE MCOptimiser ------------------------------
(* The comparisons Optimiser is model-checked on.  Supplier 1 has agencies 1 and 4
   and the national catalogue, agency 9; supplier 2 has agencies 2 and 3. *)
EXTENDS Optimiser

Article(price, pack, stock, prep, fulfillment) ==
    [price |-> price, pack |-> pack, stock |-> stock, prep |-> prep,
     fulfillment |-> fulfillment, comparable |-> TRUE]

CheapAndSlow == Article(104, 1, 9, 6, "stock")
ReadyByTwo == Article(235, 2, 2, 0, "stock")
TooFew == Article(90, 1, 1, 0, "stock")
Delayed == Article(95, 1, 9, 0, "delayed")
WithoutRate == [Article(77, 1, 9, 0, "stock") EXCEPT !.comparable = FALSE]
Uncertain == Article(150, 2, 0, 0, "available")
Gone == Article(90, 1, 0, 0, "unavailable")

\* Two products, two shops, one of them with two references, and the national
\* catalogue: packs, stocks, thresholds and fulfilments.
Stocks ==
    [cart |-> (1 :> 3 @@ 2 :> 1), limits |-> {3},
     layouts |-> {(1 :> <<0, 1>> @@ 2 :> <<2, 0>>), (1 :> <<2, 1>> @@ 2 :> <<0, 0>>)},
     shelves |->
        {first @@ second @@ third :
            first \in [{<<1, 1, 1, 1>>, <<1, 1, 1, 2>>} ->
                           {CheapAndSlow, ReadyByTwo, TooFew, Delayed, None}],
            second \in [{<<1, 2, 2, 1>>, <<2, 2, 2, 1>>} ->
                            {CheapAndSlow, ReadyByTwo, WithoutRate, None}],
            third \in [{<<1, 1, 9, 1>>, <<2, 1, 1, 1>>} -> {CheapAndSlow, Uncertain, Gone}]}]

\* Four shops to visit, wherever they are.
Tours ==
    [cart |-> [p \in 1..4 |-> 1], limits |-> {4},
     layouts |-> [1..4 -> {0, 2, 3} \X {0, 1}],
     shelves |-> [{<<1, 1, 1, 1>>, <<2, 2, 2, 1>>, <<3, 2, 3, 1>>, <<4, 1, 4, 1>>} ->
                      {Article(100, 1, 1, 0, "stock")}]]

\* Two products at three shops, near or far, for one price or the other.
Prices ==
    [cart |-> (1 :> 1 @@ 2 :> 1), limits |-> {2, 3},
     layouts |-> [1..3 -> {<<0, 1>>, <<1, 1>>, <<0, 4>>}],
     shelves |-> [{<<1, 1, 1, 1>>, <<1, 2, 2, 1>>, <<1, 2, 3, 1>>,
                   <<2, 1, 1, 1>>, <<2, 2, 2, 1>>, <<2, 2, 3, 1>>} ->
                      {Article(100, 1, 1, 0, "stock"), Article(155, 1, 1, 0, "stock")}]]

MCFamilies == <<Stocks, Tours, Prices>>
===============================================================================
