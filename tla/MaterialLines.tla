--------------------------- MODULE MaterialLines ---------------------------
(***************************************************************************)
(* The list of materials of the comparator (app/static/materials.js): the  *)
(* search of a product, typed and answered by the server some time later,  *)
(* from before the first page of the catalogue has come, and the lines of  *)
(* the cart, a product and the quantity typed for it.                      *)
(*                                                                         *)
(* Over Comparator, whose carts are here functions from products to what   *)
(* their quantity field holds, in thousandths: 0 for a field left blank,   *)
(* Cap + 1 for anything above the maximum. The order of the lines is left  *)
(* out, as the fingerprint of a cart does.                                 *)
(***************************************************************************)
EXTENDS Comparator

CONSTANTS
    Products,
    FirstPage,      \* those of the first page of the catalogue
    Example,        \* the cart of the button « exemple »
    Texts, Blank,   \* what is typed, nothing among it
    Named,          \* by text, the products filterProducts keeps
    Found,          \* by text, those /api/products answers
    Cap,            \* the largest quantity
    MaxSearches     \* bound on the searches

ASSUME LinesAssumption ==
    /\ FirstPage \subseteq Products
    /\ Blank \in Texts
    /\ Named \in [Texts -> SUBSET Products] /\ Named[Blank] = Products
    /\ Found \in [Texts -> SUBSET Products]
    /\ Cap \in Nat \ {0} /\ MaxSearches \in Nat
    /\ Empty = [p \in {} |-> 0]
    /\ \A S \in SUBSET Products : [S -> 0 .. Cap + 1] \subseteq Carts
    /\ \A c \in Carts : DOMAIN c \subseteq Products /\ c \in [DOMAIN c -> 0 .. Cap + 1]
    /\ Example \in Carts

VARIABLES
    catalogue,    \* the first page, awaited by init: "shown" when it came
    known,        \* products: those the page has met
    typed,        \* the search field
    choices,      \* the options of the select, none while « Recherche… »
    timer,        \* the text of the search the debounce delays
    generation,   \* searchGeneration
    searches,     \* the searches whose answer is awaited, aborted ones included
    rows          \* the products of the lines that the table shows, as rendered last

searching == <<catalogue, known, typed, choices, timer, generation, searches>>
listing == <<searching, rows>>

Quantities == 0 .. Cap + 1

\* parseQuantity
Valid(q) == q \in 1 .. Cap

\* reportQuantityFields, on the lines that are shown.
AllValid == \A p \in rows : Valid(cart[p])

LinesTypeOK ==
    /\ catalogue \in {"awaited", "shown", "failed"}
    /\ rows \subseteq DOMAIN cart
    /\ known \subseteq Products /\ choices \subseteq Products
    /\ typed \in Texts /\ timer \in Texts \cup {None}
    /\ generation \in Nat
    /\ searches \subseteq [generation : Nat, text : Texts]

LinesInit ==
    /\ catalogue = "awaited"
    /\ known = {} /\ choices = {} /\ rows = {}
    /\ typed = Blank /\ timer = None
    /\ generation = 0 /\ searches = {}

-----------------------------------------------------------------------------
(* Search *)

\* rememberProducts
Remembered(found) == known \cup found

\* filterProducts
Filtered(k, t) == k \cap Named[t]

\* renderProducts with the text t and the products k known: the default page, or
\* what is known of the text until the server answers. A page of 100 holds them.
Render(t, k) ==
    \/ /\ t = Blank
       /\ generation < MaxSearches
       /\ generation' = generation + 1
       /\ timer' = None
       /\ choices' = k
    \/ /\ t # Blank
       /\ timer' = t
       /\ choices' = Filtered(k, t)
       /\ UNCHANGED generation

\* renderLines with the lines c and the products k known: a line of a product that
\* the page does not know is left out.
RenderLines(c, k) == rows' = DOMAIN c \cap k

\* Mutant: the options stay those of before the first page.
FirstPageUnrendered ==
    /\ catalogue = "awaited"
    /\ catalogue' = "shown"
    /\ known' = FirstPage
    /\ RenderLines(cart, FirstPage)
    /\ UNCHANGED <<vars, typed, choices, timer, generation, searches>>

\* init after its await: the first page replaces the products, among which those
\* that a search has brought meanwhile. What was typed meanwhile is searched again.
FirstPageComes ==
    /\ catalogue = "awaited"
    /\ catalogue' = "shown"
    /\ known' = FirstPage
    /\ Render(typed, FirstPage)
    /\ RenderLines(cart, FirstPage)
    /\ UNCHANGED <<vars, typed, searches>>

\* « Catalogue indisponible »: searches go on, the example and the chantier do not.
FirstPageFails ==
    /\ catalogue = "awaited"
    /\ catalogue' = "failed"
    /\ choices' = {}
    /\ UNCHANGED <<vars, known, typed, timer, generation, searches, rows>>

\* The search field is edited.
Type(t) ==
    /\ t # typed
    /\ typed' = t
    /\ Render(t, known)
    /\ UNCHANGED <<vars, catalogue, known, searches, rows>>

\* searchOnServer up to its await, when the debounce ends.
SearchOnServer ==
    /\ timer # None
    /\ generation < MaxSearches
    /\ generation' = generation + 1
    /\ searches' = searches \cup {[generation |-> generation + 1, text |-> timer]}
    /\ timer' = None
    /\ UNCHANGED <<vars, catalogue, known, typed, choices, rows>>

\* Mutant: the text is not compared with the one searched.
ExpectedWhateverTyped(s) == s.generation = generation

\* The answer is still that of the text on the screen.
Expected(s) == s.generation = generation /\ s.text = typed

SearchAnswers(s) ==
    /\ searches' = searches \ {s}
    /\ IF Expected(s)
          THEN known' = Remembered(Found[s.text]) /\ choices' = Found[s.text]
          ELSE UNCHANGED <<known, choices>>
    /\ UNCHANGED <<vars, catalogue, typed, timer, generation, rows>>

\* An error answer, an abort: at most a status line.
SearchFails(s) ==
    /\ searches' = searches \ {s}
    /\ UNCHANGED <<vars, catalogue, known, typed, choices, timer, generation, rows>>

-----------------------------------------------------------------------------
(* Lines *)

\* The lines change and are rendered again.
SetLines(c) == EditCart(c) /\ RenderLines(c, known) /\ UNCHANGED searching

\* The form: the product p of the select, the quantity q. It adds to the line of p,
\* unless the sum goes over the maximum.
AddLine(p, q) ==
    LET sum == IF p \in DOMAIN cart THEN cart[p] + q ELSE q
    IN /\ p \in choices
       /\ Valid(q)
       /\ sum <= Cap
       /\ SetLines([x \in DOMAIN cart \cup {p} |-> IF x = p THEN sum ELSE cart[x]])

\* The quantity field of a line.
SetQuantity(p, q) ==
    /\ p \in rows
    /\ EditCart([cart EXCEPT ![p] = q])
    /\ UNCHANGED listing

RemoveLine(p) ==
    /\ p \in rows
    /\ SetLines([x \in DOMAIN cart \ {p} |-> cart[x]])

ShowExample ==
    /\ catalogue = "shown" /\ DOMAIN Example \subseteq FirstPage
    /\ SetLines(Example)

-----------------------------------------------------------------------------
(* Properties *)

\* What the select offers answers the text that is in the field and is known to
\* the page, so that a line made of it is shown: whatever answers come late, that
\* of the first page included, which replaces the products under a newer text.
ChoicesAreOfTheText ==
    /\ choices \subseteq Named[typed] \cup Found[typed]
    /\ choices \subseteq known
=============================================================================
