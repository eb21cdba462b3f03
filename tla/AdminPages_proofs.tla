-------------------------- MODULE AdminPages_proofs -------------------------
(***************************************************************************)
(* Proofs about the pages of the administrators: what is on its way is as  *)
(* it was asked, and the page on screen is the one that is counted from.   *)
(* They hold for any references, products, files, catalogues and queries,  *)
(* any page size, and any number of clicks and of requests on their way.   *)
(***************************************************************************)
EXTENDS AdminPages, FiniteSetTheorems, TLAPS

-----------------------------------------------------------------------------
(* The bag of messages *)

LEMMA WithIs ==
    ASSUME NEW w, IsABag(w), NEW m
    PROVE  /\ IsABag(With(w, m)) /\ DOMAIN With(w, m) = DOMAIN w \cup {m}
           /\ \A x \in DOMAIN w : w[x] <= With(w, m)[x]
<1>. DEFINE one == [e \in {m} |-> 1]
            sum == [e \in DOMAIN w \cup {m} |->
                      (IF e \in DOMAIN w THEN w[e] ELSE 0) + (IF e \in {m} THEN one[e] ELSE 0)]
<1>1. With(w, m) = sum
  BY DEF With, SetToBag, (+)
<1>2. \A e \in DOMAIN w : w[e] \in Nat /\ w[e] > 0
  BY DEF IsABag
<1>3. \A e \in DOMAIN w \cup {m} : sum[e] \in Nat /\ sum[e] > 0
  BY <1>2
<1>4. \A e \in DOMAIN w : w[e] <= sum[e]
  BY <1>2
<1> QED
  BY <1>1, <1>3, <1>4 DEF IsABag

LEMMA WithoutIs ==
    ASSUME NEW w, IsABag(w), NEW m
    PROVE  /\ IsABag(w (-) SetToBag({m})) /\ DOMAIN (w (-) SetToBag({m})) \subseteq DOMAIN w
           /\ \A x \in DOMAIN w \ {m} : /\ x \in DOMAIN (w (-) SetToBag({m}))
                                        /\ (w (-) SetToBag({m}))[x] = w[x]
<1>. DEFINE less == [e \in DOMAIN w |-> IF e \in {m} THEN w[e] - 1 ELSE w[e]]
            rest == [e \in {d \in DOMAIN less : less[d] > 0} |-> less[e]]
<1>1. w (-) SetToBag({m}) = rest
  BY DEF SetToBag, (-)
<1>2. \A e \in DOMAIN w : w[e] \in Nat /\ w[e] > 0
  BY DEF IsABag
<1>3. \A e \in DOMAIN less : less[e] \in Nat
  BY <1>2
<1>4. \A x \in DOMAIN w \ {m} : x \in DOMAIN rest /\ rest[x] = w[x]
  BY <1>2
<1>5. IsABag(rest) /\ DOMAIN rest \subseteq DOMAIN w
  BY <1>3 DEF IsABag
<1> QED
  BY <1>1, <1>4, <1>5

LEMMA OfThisPageIs ==
    ASSUME NEW w, IsABag(w)
    PROVE  IsABag(OfThisPage(w)) /\ DOMAIN OfThisPage(w) \subseteq DOMAIN w
BY DEF OfThisPage, IsABag

LEMMA TwiceIs ==
    ASSUME NEW w, IsABag(w), NEW S
    PROVE  /\ IsABag(w (+) [m \in S |-> 2])
           /\ DOMAIN (w (+) [m \in S |-> 2]) = DOMAIN w \cup S
<1>. DEFINE two == [m \in S |-> 2]
            sum == [e \in DOMAIN w \cup S |->
                      (IF e \in DOMAIN w THEN w[e] ELSE 0) + (IF e \in S THEN two[e] ELSE 0)]
<1>1. w (+) two = sum
  BY DEF (+)
<1>2. \A e \in DOMAIN w : w[e] \in Nat /\ w[e] > 0
  BY DEF IsABag
<1>3. \A e \in DOMAIN w \cup S : sum[e] \in Nat /\ sum[e] > 0
  BY <1>2
<1> QED
  BY <1>1, <1>3 DEF IsABag

-----------------------------------------------------------------------------
(* What is where *)

Shows == UNION {[R -> Row] : R \in SUBSET Refs}

\* The messages of each kind.
Numbered(d) == d.pages \in Nat \ {0} /\ d.page \in 1..d.pages
PreviewOK(m) == m.what \in Files /\ (m.status = "ok" => m.data \in Choices)
CommitOK(m) == m.what.file \in Files /\ m.what.choices \in Choices
LoadOK(m) ==
  /\ m.what.asked \in Asks
  /\ m.status \in {"counted", "ok"} => Numbered(m.data)
  /\ m.status = "ok" => m.data.rows \in Shows
Senders == {"pick", "bulk", "attach", "detach", "retarget"}
PutOK(m) ==
  /\ m.what.ref \in Refs /\ m.what.product \in Products \cup {None}
  /\ m.what.by \in Senders /\ (m.what.by \notin {"pick", "bulk"} => m.what.about \in Products)
  /\ m.what.by = "bulk" => m.status \in {"sent", "counted"}
BulkOK(m) == m.what.refs \subseteq Refs /\ (m.status = "ok" => m.data \in Products)
CorrectOK(m) == m.what.ref \in Refs /\ m.what.source \in {"manual", "none"}
ViewOK(v) ==
  /\ v.state \in {"none", "loading", "error", "shown"}
  /\ v.state # "none" => v.product \in Products
  /\ v.refs \subseteq Refs
DetailOK(m) == m.what \in Products /\ (m.status = "ok" => ViewOK(m.data))
SearchOK(m) == m.status \in {"sent", "ok"} /\ (m.status = "ok" => DOMAIN m.data \subseteq Refs)
UnitOK(m) == m.what.product \in Products /\ m.what.unit \in Units

Statuses == {"sent", "counted", "ok", "failed", "invalid"}
Kinds == {"preview", "commit", "load", "put", "bulk", "correct", "detail", "search", "unit"}
MessageOK(m) ==
  /\ m.kind \in Kinds /\ m.status \in Statuses
  /\ m.kind = "preview" => PreviewOK(m)
  /\ m.kind = "commit" => CommitOK(m)
  /\ m.kind = "load" => LoadOK(m)
  /\ m.kind = "put" => PutOK(m)
  /\ m.kind = "bulk" => BulkOK(m)
  /\ m.kind = "correct" => CorrectOK(m)
  /\ m.kind = "detail" => DetailOK(m)
  /\ m.kind = "search" => SearchOK(m)
  /\ m.kind = "unit" => UnitOK(m)
WireOK(w) == IsABag(w) /\ \A m \in DOMAIN w : MessageOK(m)

Pages ==
  [file : Files \cup {NoFile}, ok : BOOLEAN, armed : BOOLEAN, choices : Choices,
   previewed : SUBSET Refs, mode : {"preview", "catalog"}, asked : Asks,
   timer : {"off", NoQuery} \cup Queries, panel : Panels]
OnScreen(pg) ==
  pg.panel.state = "shown" =>
    pg.asked.page = pg.panel.page /\ pg.asked.page \in 1..pg.panel.pages
PageOK(pg) == pg \in Pages /\ OnScreen(pg)
ProductPageOK(d) ==
  /\ d = [view |-> d.view, results |-> d.results]
  /\ ViewOK(d.view) /\ DOMAIN d.results \subseteq Refs
ServerOK(rs, u, us) ==
  /\ rs \in [Refs -> Row] /\ u \in [Products -> Units] /\ us \subseteq Products

\* The inductive invariant.
Inv ==
  /\ ServerOK(rows, unit, used)
  /\ PageOK(page) /\ ProductPageOK(detail) /\ WireOK(wire)

-----------------------------------------------------------------------------
(* What is on its way *)

LEMMA WireWith ==
    ASSUME NEW w, WireOK(w), NEW m, MessageOK(m)
    PROVE  WireOK(With(w, m))
<1>1. IsABag(w) /\ \A x \in DOMAIN w : MessageOK(x)
  BY DEF WireOK
<1>2. IsABag(With(w, m)) /\ DOMAIN With(w, m) = DOMAIN w \cup {m}
  BY <1>1, WithIs
<1> QED
  BY <1>1, <1>2 DEF WireOK

LEMMA WireWithout ==
    ASSUME NEW w, WireOK(w), NEW m
    PROVE  WireOK(w (-) SetToBag({m}))
<1>1. IsABag(w)
  BY DEF WireOK
<1>2. IsABag(w (-) SetToBag({m})) /\ DOMAIN (w (-) SetToBag({m})) \subseteq DOMAIN w
  BY <1>1, WithoutIs
<1> QED
  BY <1>2 DEF WireOK

LEMMA WireOfThisPage ==
    ASSUME NEW w, WireOK(w)
    PROVE  WireOK(OfThisPage(w))
BY OfThisPageIs DEF WireOK

\* Steps that leave the server as it is.
LEMMA InvByParts ==
    ASSUME Inv, UNCHANGED server, PageOK(page'), ProductPageOK(detail'), WireOK(wire')
    PROVE  Inv'
BY DEF Inv, server

-----------------------------------------------------------------------------
(* Small facts *)

LEMMA NoChoiceIs == NoChoice \in Choices
<1>1. NoChoice \in [{} -> Products \cup {None}]
  BY DEF NoChoice
<1> QED
  BY <1>1 DEF Choices

LEMMA NothingIs ==
    ASSUME NEW state \in {"none", "loading", "error"}
    PROVE  /\ Nothing(state) \in Panels /\ Nothing(state).state # "shown"
<1>. DEFINE empty == [r \in {} |-> None]
<1>1. empty \in [{} -> Row] /\ DOMAIN empty = {}
  OBVIOUS
<1>2. empty \in UNION {[R -> Row] : R \in SUBSET Refs}
  BY <1>1
<1>. HIDE DEF empty
<1>3. Nothing(state) = [state |-> state, page |-> 0, pages |-> 0, rows |-> empty]
  BY DEF Nothing, Panel, empty
<1>4. Nothing(state) \in Panels
  BY <1>2, <1>3 DEF Panels
<1>5. Nothing(state).state = state /\ Nothing(state).rows = empty
  BY <1>3
<1> QED
  BY <1>1, <1>2, <1>4, <1>5

LEMMA PanelIs ==
    ASSUME NEW n \in Nat, NEW pages \in Nat, NEW f \in Shows
    PROVE  Panel("shown", n, pages, f) \in Panels
BY DEF Panel, Panels, Shows

LEMMA OverIs ==
    ASSUME NEW f \in Choices, NEW g \in Choices
    PROVE  Over(f, g) \in Choices
<1>1. /\ DOMAIN f \subseteq Refs /\ \A r \in DOMAIN f : f[r] \in Products \cup {None}
      /\ DOMAIN g \subseteq Refs /\ \A r \in DOMAIN g : g[r] \in Products \cup {None}
  BY DEF Choices
<1>2. Over(f, g) \in [DOMAIN f \cup DOMAIN g -> Products \cup {None}]
  BY <1>1 DEF Over
<1> QED
  BY <1>1, <1>2 DEF Choices

LEMMA OneChoice ==
    ASSUME NEW R, R \subseteq Refs, NEW p \in Products \cup {None}
    PROVE  [r \in R |-> p] \in Choices
<1>1. [r \in R |-> p] \in [R -> Products \cup {None}]
  OBVIOUS
<1> QED
  BY <1>1 DEF Choices

LEMMA LoadIs ==
    ASSUME NEW asked \in Asks, NEW reset
    PROVE  MessageOK(Load(asked, reset))
BY DEF Load, Msg, Message, MessageOK, LoadOK, Statuses, Kinds

LEMMA PutIs ==
    ASSUME NEW r \in Refs, NEW p \in Products \cup {None},
           NEW confirm, NEW by \in Senders, NEW about, NEW saw,
           by \notin {"pick", "bulk"} => about \in Products
    PROVE  MessageOK(Put(r, p, confirm, by, about, saw))
<1>. DEFINE m == Put(r, p, confirm, by, about, saw)
<1>1. /\ m.kind = "put" /\ m.status = "sent" /\ m.what.ref = r /\ m.what.product = p
      /\ m.what.by = by /\ m.what.about = about
  BY DEF Put, Msg, Message
<1>. HIDE DEF m
<1>2. PutOK(m)
  BY <1>1 DEF PutOK
<1>3. MessageOK(m)
  BY <1>1, <1>2 DEF MessageOK, Statuses, Kinds
<1> QED
  BY <1>3 DEF m

LEMMA PageAsks == ASSUME Inv PROVE page.asked \in Asks /\ page \in Pages
BY DEF Inv, PageOK, Pages

LEMMA InitInv == ASSUME Init PROVE Inv
<1>1. rows \in [Refs -> Row]
  BY DataAssumption DEF Init, Row
<1>4. ServerOK(rows, unit, used)
  BY <1>1, DataAssumption DEF Init, ServerOK
<1>5. /\ page.choices = NoChoice /\ page.panel = Nothing("none")
      /\ page.asked = Asked(NoCatalog, 1, "all", NoQuery)
      /\ page = [file |-> NoFile, ok |-> FALSE, armed |-> FALSE, choices |-> NoChoice,
             previewed |-> {}, mode |-> "preview", asked |-> page.asked,
             timer |-> "off", panel |-> page.panel]
  BY DEF Init
<1>6. page.asked \in Asks
  BY <1>5 DEF Asked, Asks
<1>7. PageOK(page)
  <2>1. page.choices \in Choices
    BY <1>5, NoChoiceIs
  <2>2. page.panel \in Panels /\ page.panel.state # "shown"
    BY <1>5, NothingIs
  <2>3. page \in Pages
    <3>1. ASSUME NEW asked \in Asks, NEW choices \in Choices, NEW panel \in Panels
          PROVE  [file |-> NoFile, ok |-> FALSE, armed |-> FALSE, choices |-> choices,
                  previewed |-> {}, mode |-> "preview", asked |-> asked,
                  timer |-> "off", panel |-> panel] \in Pages
      BY DEF Pages
    <3> QED
      BY <1>5, <1>6, <2>1, <2>2, <3>1
  <2> QED
    BY <2>1, <2>2, <2>3 DEF PageOK, OnScreen
<1>8. ProductPageOK(detail)
  BY DEF Init, ProductPageOK, ViewOK, View, NoChoice
<1>9. WireOK(wire)
  BY DEF Init, WireOK, EmptyBag, SetToBag, IsABag
<1> QED
  BY <1>4, <1>7, <1>8, <1>9 DEF Inv

-----------------------------------------------------------------------------
(* The suppliers page *)

\* A page that waits for another one.
LEMMA LoadingPage ==
    ASSUME NEW pg, PageOK(pg), NEW asked \in Asks
    PROVE  PageOK([pg EXCEPT !.asked = asked, !.panel = Nothing("loading")])
<1>. DEFINE new == [pg EXCEPT !.asked = asked, !.panel = Nothing("loading")]
<1>1. PICK panel \in Panels : panel = Nothing("loading") /\ panel.state # "shown"
  BY NothingIs
<1>2. pg \in Pages
  BY DEF PageOK
<1>3. /\ new \in Pages /\ new.choices = pg.choices /\ new.panel = panel
  BY <1>1, <1>2 DEF Pages
<1> QED
  BY <1>1, <1>2, <1>3 DEF PageOK, OnScreen

\* A page whose panel and asked page stay.
LEMMA SamePanel ==
    ASSUME NEW pg, PageOK(pg), NEW new \in Pages,
           new.panel = pg.panel, new.asked = pg.asked
    PROVE  PageOK(new)
BY DEF PageOK, OnScreen

\* What is chosen on the page, while it waits or not.
LEMMA ChoosingPage ==
    ASSUME NEW pg, PageOK(pg), NEW choices \in Choices
    PROVE  /\ PageOK([pg EXCEPT !.choices = choices])
           /\ PageOK([[pg EXCEPT !.choices = choices] EXCEPT !.panel = Nothing("loading")])
<1>0. pg \in Pages
  BY DEF PageOK
<1>1. PageOK([pg EXCEPT !.choices = choices])
  <2>1. [pg EXCEPT !.choices = choices] \in Pages
    BY <1>0 DEF Pages
  <2>2. /\ [pg EXCEPT !.choices = choices].choices = choices
        /\ [pg EXCEPT !.choices = choices].panel = pg.panel
        /\ [pg EXCEPT !.choices = choices].asked = pg.asked
    BY <1>0 DEF Pages
  <2> QED
    BY <2>1, <2>2, SamePanel
<1>2. PICK new : new = [pg EXCEPT !.choices = choices]
  OBVIOUS
<1>3. PageOK(new) /\ new.asked \in Asks
  BY <1>0, <1>1, <1>2 DEF Pages
<1>4. PageOK([new EXCEPT !.asked = new.asked, !.panel = Nothing("loading")])
  BY <1>3, LoadingPage
<1>5. [new EXCEPT !.asked = new.asked, !.panel = Nothing("loading")]
        = [[pg EXCEPT !.choices = choices] EXCEPT !.panel = Nothing("loading")]
  BY <1>0, <1>2 DEF Pages
<1> QED
  BY <1>1, <1>4, <1>5

LEMMA ChooseFileInv == ASSUME Inv, NEW f \in Files, ChooseFile(f) PROVE Inv'
<1>1. UNCHANGED <<server, detail, wire>>
  BY DEF ChooseFile
<1>2. page' = [page EXCEPT !.file = f, !.ok = FALSE, !.armed = FALSE, !.choices = NoChoice]
  BY DEF ChooseFile
<1>3. NoChoice \in Choices /\ NoChoice \in Choices
  BY NoChoiceIs
<1>4. page' \in Pages /\ page'.choices = NoChoice /\ page'.panel = page.panel /\ page'.asked = page.asked
  BY <1>2, <1>3, PageAsks DEF Pages
<1>5. PageOK(page')
  BY <1>3, <1>4, SamePanel DEF Inv
<1> QED
  BY <1>1, <1>5, InvByParts DEF Inv

LEMMA RunPreviewInv == ASSUME Inv, RunPreview PROVE Inv'
<1>1. UNCHANGED <<server, detail>> /\ wire' = With(wire, Msg("preview", page.file))
  BY DEF RunPreview, Send
<1>2. page' = [page EXCEPT !.previewed = {}] /\ page.file \in Files
  BY PageAsks DEF RunPreview, Pages
<1>3. /\ page' \in Pages /\ page'.choices = page.choices /\ page'.panel = page.panel
      /\ page'.asked = page.asked
  BY <1>2, PageAsks DEF Pages
<1>4. PageOK(page')
  BY <1>3, SamePanel DEF Inv, PageOK
<1>5. MessageOK(Msg("preview", page.file))
  BY <1>2 DEF Msg, Message, MessageOK, PreviewOK, Statuses, Kinds
<1>6. WireOK(wire')
  BY <1>1, <1>5, WireWith DEF Inv
<1> QED
  BY <1>1, <1>4, <1>6, InvByParts DEF Inv

LEMMA RunCommitInv == ASSUME Inv, RunCommit PROVE Inv'
<1>. DEFINE what == [file |-> page.file, choices |-> page.choices]
<1>1. UNCHANGED <<server, detail>> /\ wire' = With(wire, Msg("commit", what))
  BY DEF RunCommit, Send
<1>2. page' = [page EXCEPT !.armed = FALSE, !.previewed = {}] /\ page.file \in Files
  BY PageAsks DEF RunCommit, Pages
<1>3. /\ page' \in Pages /\ page'.choices = page.choices /\ page'.panel = page.panel
      /\ page'.asked = page.asked
  BY <1>2, PageAsks DEF Pages
<1>4. PageOK(page')
  BY <1>3, SamePanel DEF Inv, PageOK
<1>5. MessageOK(Msg("commit", what))
  <2>1. page.choices \in Choices
    BY PageAsks DEF Pages
  <2> QED
    BY <1>2, <2>1 DEF Msg, Message, MessageOK, CommitOK, Statuses, Kinds
<1>6. WireOK(wire')
  BY <1>1, <1>5, WireWith DEF Inv
<1> QED
  BY <1>1, <1>4, <1>6, InvByParts DEF Inv

\* A catalogue, a filter, a word, a page: the panel waits for what is asked.
LEMMA LoadPageInv ==
    ASSUME Inv, NEW asked \in Asks, LoadPage(asked), UNCHANGED <<server, detail>>
    PROVE  Inv'
<1>1. /\ page' = [page EXCEPT !.asked = asked, !.panel = Nothing("loading")]
      /\ wire' = With(wire, Load(asked, FALSE))
  BY DEF LoadPage, Send
<1>2. PageOK(page')
  BY <1>1, LoadingPage DEF Inv
<1>3. WireOK(wire')
  BY <1>1, LoadIs, WireWith DEF Inv
<1> QED
  BY <1>2, <1>3, InvByParts DEF Inv

LEMMA OpenCatalogInv == ASSUME Inv, NEW c \in Catalogs, OpenCatalog(c) PROVE Inv'
<1>. DEFINE asked == Asked(c, 1, "all", NoQuery)
<1>1. UNCHANGED <<server, detail>> /\ wire' = With(wire, Load(asked, TRUE))
  BY DEF OpenCatalog, Send
<1>2. page' = [page EXCEPT !.mode = "catalog", !.asked = asked, !.panel = Nothing("loading")]
  BY DEF OpenCatalog
<1>3. asked \in Asks
  BY DEF Asked, Asks
<1>. HIDE DEF asked
<1>4. PICK pg : pg = [page EXCEPT !.asked = asked, !.panel = Nothing("loading")]
  OBVIOUS
<1>5. PageOK(pg) /\ pg \in Pages
  BY <1>3, <1>4, LoadingPage DEF Inv, PageOK
<1>6. page' = [pg EXCEPT !.mode = "catalog"]
  BY <1>2, <1>4, PageAsks DEF Pages
<1>7. page' \in Pages /\ page'.choices = pg.choices /\ page'.panel = pg.panel /\ page'.asked = pg.asked
  BY <1>5, <1>6 DEF Pages
<1>8. PageOK(page')
  BY <1>5, <1>7, SamePanel DEF PageOK
<1>9. WireOK(wire')
  BY <1>1, <1>3, LoadIs, WireWith DEF Inv
<1> QED
  BY <1>1, <1>8, <1>9, InvByParts DEF Inv

LEMMA FirstPage ==
    ASSUME NEW a \in Asks
    PROVE  /\ \A f \in {"all", "mapped", "unmapped"} : [a EXCEPT !.filter = f, !.page = 1] \in Asks
           /\ \A q \in Queries \cup {NoQuery} : [a EXCEPT !.q = q, !.page = 1] \in Asks
<1>1. 1 \in Nat \ {0}
  OBVIOUS
<1>2. ASSUME NEW n \in Nat \ {0}
      PROVE  /\ \A f \in {"all", "mapped", "unmapped"} : [a EXCEPT !.filter = f, !.page = n] \in Asks
             /\ \A q \in Queries \cup {NoQuery} : [a EXCEPT !.q = q, !.page = n] \in Asks
  BY DEF Asks
<1> QED
  BY <1>1, <1>2

LEMMA ChipInv == ASSUME Inv, NEW f \in {"all", "mapped", "unmapped"}, Chip(f) PROVE Inv'
<1>1. LoadPage([page.asked EXCEPT !.filter = f, !.page = 1]) /\ UNCHANGED <<server, detail>>
  BY DEF Chip
<1>2. [page.asked EXCEPT !.filter = f, !.page = 1] \in Asks
  BY PageAsks, FirstPage
<1> QED
  BY <1>1, <1>2, LoadPageInv

LEMMA TurnInv == ASSUME Inv, NEW n, Turn(n) PROVE Inv'
<1>1. LoadPage([page.asked EXCEPT !.page = n]) /\ UNCHANGED <<server, detail>>
  BY DEF Turn
<1>2. n \in Nat \ {0}
  <2>1. n \in 1..page.panel.pages /\ page.panel.pages \in Nat
    BY PageAsks DEF Turn, Pages, Panels
  <2> QED
    BY <2>1
<1>3. [page.asked EXCEPT !.page = n] \in Asks
  BY <1>2, PageAsks DEF Asks
<1> QED
  BY <1>1, <1>3, LoadPageInv

LEMMA TypeInv == ASSUME Inv, NEW q \in Queries \cup {NoQuery}, Type(q) PROVE Inv'
<1>1. UNCHANGED <<server, detail, wire>> /\ page' = [page EXCEPT !.timer = q]
  BY DEF Type
<1>2. /\ page' \in Pages /\ page'.choices = page.choices /\ page'.panel = page.panel
      /\ page'.asked = page.asked
  BY <1>1, PageAsks DEF Pages
<1>3. PageOK(page')
  BY <1>2, SamePanel DEF Inv, PageOK
<1> QED
  BY <1>1, <1>3, InvByParts DEF Inv

LEMMA FireInv == ASSUME Inv, Fire PROVE Inv'
<1>. DEFINE asked == [page.asked EXCEPT !.q = page.timer, !.page = 1]
<1>1. UNCHANGED <<server, detail>> /\ wire' = With(wire, Load(asked, FALSE))
  BY DEF Fire, Send
<1>2. page' = [page EXCEPT !.asked = asked, !.panel = Nothing("loading"), !.timer = "off"]
  BY DEF Fire
<1>3. asked \in Asks
  <2>1. page.timer \in Queries \cup {NoQuery}
    BY PageAsks DEF Fire, Pages
  <2> QED
    BY <2>1, PageAsks, FirstPage
<1>. HIDE DEF asked
<1>4. PICK pg : pg = [page EXCEPT !.asked = asked, !.panel = Nothing("loading")]
  OBVIOUS
<1>5. PageOK(pg) /\ pg \in Pages
  BY <1>3, <1>4, LoadingPage DEF Inv, PageOK
<1>6. page' = [pg EXCEPT !.timer = "off"]
  BY <1>2, <1>4, PageAsks DEF Pages
<1>7. page' \in Pages /\ page'.choices = pg.choices /\ page'.panel = pg.panel /\ page'.asked = pg.asked
  BY <1>5, <1>6 DEF Pages
<1>8. PageOK(page')
  BY <1>5, <1>7, SamePanel DEF PageOK
<1>9. WireOK(wire')
  BY <1>1, <1>3, LoadIs, WireWith DEF Inv
<1> QED
  BY <1>1, <1>8, <1>9, InvByParts DEF Inv

\* What is picked for references, in a file or in a catalogue.
LEMMA WithChoiceIs ==
    ASSUME Inv, NEW R, R \subseteq Refs, NEW p \in Products \cup {None}
    PROVE  WithChoice(R, p) \in Choices
<1>1. PICK new : new = [r \in R |-> p]
  OBVIOUS
<1>2. new \in Choices /\ page.choices \in Choices
  BY <1>1, OneChoice, PageAsks DEF Pages
<1> QED
  BY <1>1, <1>2, OverIs DEF WithChoice

LEMMA ShownAre == ASSUME Inv PROVE Shown \subseteq Refs
BY PageAsks DEF Shown, Pages, Panels

LEMMA PicksInv ==
    ASSUME Inv, NEW r \in Refs, NEW p \in Products \cup {None}, PickPreviewed(r, p) \/ Pick(r, p)
    PROVE  Inv'
<1>1. /\ UNCHANGED <<server, detail>>
      /\ page' = [page EXCEPT !.choices = WithChoice({r}, p)]
      /\ wire' = wire \/ wire' = With(wire, Picked(r, p))
  BY DEF PickPreviewed, Pick, Send
<1>2. WithChoice({r}, p) \in Choices
  BY WithChoiceIs
<1>3. PageOK(page) /\ WireOK(wire)
  BY DEF Inv
<1>4. PageOK(page')
  BY <1>1, <1>2, <1>3, ChoosingPage
<1>5. MessageOK(Picked(r, p))
  BY PutIs DEF Picked, Senders
<1>6. WireOK(wire')
  BY <1>1, <1>3, <1>5, WireWith
<1> QED
  BY <1>1, <1>4, <1>6, InvByParts DEF Inv

LEMMA BulkInv == ASSUME Inv, NEW R \in SUBSET Refs, NEW there, Bulk(R, there) PROVE Inv'
<1>. DEFINE m == Msg("bulk", [refs |-> R, there |-> there])
<1>1. UNCHANGED <<server, page, detail>> /\ wire' = With(wire, m)
  BY DEF Bulk, Send
<1>2. MessageOK(m)
  BY DEF Msg, Message, MessageOK, BulkOK, Statuses, Kinds
<1>. HIDE DEF m
<1>3. WireOK(wire')
  BY <1>1, <1>2, WireWith DEF Inv
<1> QED
  BY <1>1, <1>3, InvByParts DEF Inv

LEMMA CorrectInv ==
    ASSUME Inv, NEW r \in Refs, NEW source \in {"manual", "none"}, Correct(r, source)
    PROVE  Inv'
<1>1. /\ UNCHANGED <<server, page, detail>>
      /\ wire' = With(wire, Msg("correct", [ref |-> r, source |-> source]))
  BY DEF Correct, Send
<1>2. MessageOK(Msg("correct", [ref |-> r, source |-> source]))
  BY DEF Msg, Message, MessageOK, CorrectOK, Statuses, Kinds
<1>3. WireOK(wire')
  BY <1>1, <1>2, WireWith DEF Inv
<1> QED
  BY <1>1, <1>3, InvByParts DEF Inv

LEMMA SuppliersPageInv == ASSUME Inv, SuppliersPage PROVE Inv'
BY ChooseFileInv, RunPreviewInv, RunCommitInv, OpenCatalogInv, ChipInv, TypeInv, FireInv, TurnInv,
   PicksInv, BulkInv, CorrectInv DEF SuppliersPage

-----------------------------------------------------------------------------
(* The page of a product *)

LEMMA ViewIs ==
    ASSUME NEW state \in {"none", "loading", "error"}, NEW p \in Products
    PROVE  ViewOK(View(state, p))
BY DEF View, ViewOK

LEMMA OpeningInv ==
    ASSUME Inv, NEW p \in Products, NEW w, WireOK(w), Opening(p, w),
           UNCHANGED <<server, page>>
    PROVE  Inv'
<1>1. /\ detail' = [view |-> View("loading", p), results |-> NoChoice]
      /\ wire' = With(OfThisPage(w), Msg("detail", p))
  BY DEF Opening
<1>2. ProductPageOK(detail')
  <2>1. PICK v : v = View("loading", p) /\ ViewOK(v)
    BY ViewIs
  <2>2. DOMAIN NoChoice = {}
    BY DEF NoChoice
  <2> QED
    BY <1>1, <2>1, <2>2 DEF ProductPageOK
<1>3. MessageOK(Msg("detail", p))
  BY DEF Msg, Message, MessageOK, DetailOK, Statuses, Kinds
<1>4. WireOK(wire')
  BY <1>1, <1>3, WireWith, WireOfThisPage
<1> QED
  BY <1>2, <1>4, InvByParts DEF Inv

LEMMA OpenInv == ASSUME Inv, NEW p \in Products, Open(p) PROVE Inv'
BY OpeningInv DEF Open, Inv

\* A message that the page of the product sends.
LEMMA SendInv ==
    ASSUME Inv, NEW m, MessageOK(m), wire' = With(wire, m), UNCHANGED <<server, page, detail>>
    PROVE  Inv'
<1>1. WireOK(wire')
  BY WireWith DEF Inv
<1> QED
  BY <1>1, InvByParts DEF Inv

LEMMA SearchInv == ASSUME Inv, NEW q, Search(q) PROVE Inv'
<1>1. wire' = With(wire, Msg("search", q)) /\ UNCHANGED <<server, page, detail>>
  BY DEF Search, Send
<1>2. MessageOK(Msg("search", q))
  BY DEF Msg, Message, MessageOK, SearchOK, Statuses, Kinds
<1> QED
  BY <1>1, <1>2, SendInv

LEMMA ThereIs ==
    ASSUME Inv, There
    PROVE  detail.view.product \in Products /\ detail.view.refs \subseteq Refs /\ DOMAIN detail.results \subseteq Refs
BY DEF Inv, There, ProductPageOK, ViewOK

LEMMA AttachInv == ASSUME Inv, NEW r \in Refs, Attach(r) PROVE Inv'
<1>. DEFINE saw == detail.results[r]
            p == detail.view.product
            m == Put(r, p, Confirms(saw), "attach", p, saw)
<1>1. wire' = With(wire, m) /\ UNCHANGED <<server, page, detail>> /\ p \in Products
  BY ThereIs DEF Attach, Send
<1>. HIDE DEF p, saw
<1>2. MessageOK(m)
  BY <1>1, PutIs DEF Senders
<1>. HIDE DEF m
<1> QED
  BY <1>1, <1>2, SendInv

LEMMA DetachInv == ASSUME Inv, NEW r \in Refs, Detach(r) PROVE Inv'
<1>. DEFINE p == detail.view.product
            m == Put(r, None, FALSE, "detach", p, p)
<1>1. wire' = With(wire, m) /\ UNCHANGED <<server, page, detail>> /\ p \in Products
  BY ThereIs DEF Detach, Send
<1>. HIDE DEF p
<1>2. MessageOK(m)
  BY <1>1, PutIs DEF Senders
<1>. HIDE DEF m
<1> QED
  BY <1>1, <1>2, SendInv

LEMMA RetargetInv == ASSUME Inv, NEW r \in Refs, NEW p \in Products, Retarget(r, p) PROVE Inv'
<1>. DEFINE about == detail.view.product
            m == Put(r, p, TRUE, "retarget", about, about)
<1>1. wire' = With(wire, m) /\ UNCHANGED <<server, page, detail>> /\ about \in Products
  BY ThereIs DEF Retarget, Send
<1>. HIDE DEF about
<1>2. MessageOK(m)
  BY <1>1, PutIs DEF Senders
<1>. HIDE DEF m
<1> QED
  BY <1>1, <1>2, SendInv

LEMMA EditUnitInv == ASSUME Inv, NEW u \in Units, EditUnit(u) PROVE Inv'
<1>. DEFINE what == [product |-> detail.view.product, unit |-> u]
<1>1. /\ wire' = With(wire, Msg("unit", what)) /\ UNCHANGED <<server, page, detail>>
      /\ detail.view.product \in Products
  BY ThereIs DEF EditUnit, Send
<1>2. MessageOK(Msg("unit", what))
  BY <1>1 DEF Msg, Message, MessageOK, UnitOK, Statuses, Kinds
<1>. HIDE DEF what
<1> QED
  BY <1>1, <1>2, SendInv

LEMMA CataloguePageInv == ASSUME Inv, CataloguePage PROVE Inv'
BY OpenInv, SearchInv, AttachInv, DetachInv, RetargetInv, EditUnitInv DEF CataloguePage

-----------------------------------------------------------------------------
(* Answers that arrive *)

LEMMA OnWireIs == ASSUME Inv, NEW m \in OnWire PROVE MessageOK(m) /\ WireOK(Without(m))
BY WireWithout DEF Inv, WireOK, OnWire, BagToSet, Without

LEMMA OnPreviewInv ==
    ASSUME Inv, NEW m \in OnWire, m.kind = "preview", OnPreview(m)
    PROVE  PageOK(page')
<1>1. PageOK(page) /\ page \in Pages
  BY DEF Inv, PageOK
<1>2. CASE m.status = "ok"
  <2>1. m.data \in Choices
    BY <1>2, OnWireIs DEF MessageOK, PreviewOK
  <2>2. page' = [page EXCEPT !.mode = "preview", !.choices = m.data, !.ok = TRUE,
                             !.armed = TRUE, !.previewed = DOMAIN m.data]
    BY <1>2 DEF OnPreview
  <2>3. m.data \in Choices /\ DOMAIN m.data \subseteq Refs
    BY <2>1 DEF Choices
  <2>4. /\ page' \in Pages /\ page'.choices = m.data
        /\ page'.panel = page.panel /\ page'.asked = page.asked
    BY <1>1, <2>2, <2>3 DEF Pages
  <2> QED
    BY <1>1, <2>1, <2>4, SamePanel
<1>3. CASE m.status # "ok"
  <2>1. \/ page' = [page EXCEPT !.mode = "preview", !.ok = FALSE, !.armed = FALSE]
        \/ page' = [page EXCEPT !.ok = FALSE, !.armed = FALSE]
    BY <1>3 DEF OnPreview
  <2>2. /\ page' \in Pages /\ page'.choices = page.choices
        /\ page'.panel = page.panel /\ page'.asked = page.asked
    BY <1>1, <2>1 DEF Pages
  <2> QED
    BY <1>1, <2>2, SamePanel DEF PageOK
<1> QED
  BY <1>2, <1>3

LEMMA OnCommitInv == ASSUME Inv, NEW m, OnCommit(m) PROVE PageOK(page')
<1>1. PageOK(page) /\ page \in Pages
  BY DEF Inv, PageOK
<1>2. page' = page \/ page' = [page EXCEPT !.armed = TRUE]
  BY DEF OnCommit
<1>3. /\ page' \in Pages /\ page'.choices = page.choices
      /\ page'.panel = page.panel /\ page'.asked = page.asked
  BY <1>1, <1>2 DEF Pages
<1> QED
  BY <1>1, <1>3, SamePanel DEF PageOK

LEMMA OnLoadInv ==
    ASSUME Inv, NEW m \in OnWire, m.kind = "load", NEW rest, WireOK(rest), OnLoad(m, rest)
    PROVE  PageOK(page') /\ WireOK(wire')
<1>1. PageOK(page) /\ page \in Pages /\ page.asked \in Asks
  BY DEF Inv, PageOK, Pages
<1>2. LoadOK(m)
  BY OnWireIs DEF MessageOK
<1>3. CASE m.status = "ok" /\ EmptyPage(m)
  <2>. DEFINE asked == [page.asked EXCEPT !.page = StepBack(m.data.pages)]
  <2>1. /\ page' = [page EXCEPT !.asked = asked, !.panel = Nothing("loading")]
        /\ wire' = With(rest, Load(asked, m.what.reset))
    BY <1>3 DEF OnLoad
  <2>2. StepBack(m.data.pages) \in Nat \ {0}
    <3>1. page.asked.page \in Nat /\ page.asked.page > 1 /\ m.data.pages \in Nat \ {0}
      BY <1>1, <1>2, <1>3 DEF EmptyPage, LoadOK, Numbered, Asks
    <3> QED
      BY <3>1 DEF StepBack
  <2>3. asked \in Asks
    BY <1>1, <2>2 DEF Asks
  <2>. HIDE DEF asked
  <2>4. PageOK(page')
    BY <1>1, <2>1, <2>3, LoadingPage
  <2>5. WireOK(wire')
    BY <2>1, <2>3, LoadIs, WireWith
  <2> QED
    BY <2>4, <2>5
<1>4. CASE m.status # "ok"
  <2>1. wire' = rest /\ page' = [page EXCEPT !.panel = Nothing("error")]
    BY <1>4 DEF OnLoad
  <2>2. PICK panel \in Panels : panel = Nothing("error") /\ panel.state # "shown"
    BY NothingIs
  <2>3. page' \in Pages /\ page'.choices = page.choices /\ page'.panel = panel
    BY <1>1, <2>1, <2>2 DEF Pages
  <2>4. PageOK(page')
    BY <1>1, <2>2, <2>3 DEF PageOK, OnScreen
  <2> QED
    BY <2>1, <2>4
<1>5. CASE m.status = "ok" /\ ~EmptyPage(m)
  <2>1. wire' = rest
        /\ page' = [page EXCEPT !.panel = Panel("shown", m.data.page, m.data.pages, m.data.rows),
                                !.choices = Filled(m), !.asked = Arrived(m)]
    BY <1>5 DEF OnLoad
  <2>2. /\ m.data.pages \in Nat \ {0} /\ m.data.page \in 1..m.data.pages
        /\ m.data.rows \in Shows
    BY <1>2, <1>5 DEF LoadOK, Numbered
  <2>3. Arrived(m) \in Asks /\ Arrived(m).page = m.data.page
    <3>1. m.data.page \in Nat \ {0}
      BY <2>2
    <3> QED
      BY <1>1, <3>1 DEF Arrived, Asks
  <2>4. Filled(m) \in Choices
    <3>. DEFINE shown == [r \in DOMAIN m.data.rows |-> m.data.rows[r].product]
                kept == IF m.what.reset THEN NoChoice ELSE page.choices
    <3>1. kept \in Choices
      BY <1>1, NoChoiceIs DEF Pages
    <3>2. shown \in Choices
      <4>1. DOMAIN m.data.rows \subseteq Refs /\ \A r \in DOMAIN m.data.rows : m.data.rows[r] \in Row
        BY <2>2 DEF Shows
      <4>2. \A r \in DOMAIN m.data.rows : m.data.rows[r].product \in Products \cup {None}
        BY <4>1 DEF Row
      <4>3. shown \in [DOMAIN m.data.rows -> Products \cup {None}]
        BY <4>2
      <4> QED
        BY <4>1, <4>3 DEF Choices
    <3>3. Filled(m) = Over(kept, shown)
      BY DEF Filled
    <3>. HIDE DEF kept, shown
    <3> QED
      BY <3>1, <3>2, <3>3, OverIs
  <2>5. PICK panel \in Panels : panel = Panel("shown", m.data.page, m.data.pages, m.data.rows)
    <3>1. m.data.page \in Nat /\ m.data.pages \in Nat
      BY <2>2
    <3> QED
      BY <2>2, <3>1, PanelIs
  <2>6. /\ panel.state = "shown" /\ panel.page = m.data.page /\ panel.pages = m.data.pages
        /\ panel.rows = m.data.rows
    BY <2>5 DEF Panel
  <2>7. PICK choices \in Choices : choices = Filled(m)
    BY <2>4
  <2>8. PICK asked \in Asks : asked = Arrived(m)
    BY <2>3
  <2>9. page' \in Pages /\ page'.choices = choices /\ page'.panel = panel /\ page'.asked = asked
    BY <1>1, <2>1, <2>5, <2>7, <2>8 DEF Pages
  <2>10. OnScreen(page')
    BY <2>2, <2>3, <2>6, <2>8, <2>9 DEF OnScreen
  <2>11. PageOK(page')
    BY <2>2, <2>4, <2>6, <2>7, <2>9, <2>10 DEF PageOK
  <2> QED
    BY <2>1, <2>11
<1> QED
  BY <1>3, <1>4, <1>5

LEMMA ReloadedInv ==
    ASSUME Inv, NEW rest, WireOK(rest), Reloaded(rest)
    PROVE  PageOK(page') /\ WireOK(wire')
<1>1. PageOK(page) /\ page \in Pages /\ page.asked \in Asks
  BY DEF Inv, PageOK, Pages
<1>2. CASE page' = page /\ wire' = rest
  BY <1>1, <1>2
<1>3. CASE /\ page' = [page EXCEPT !.panel = Nothing("loading")]
           /\ wire' = With(rest, Load(page.asked, FALSE))
  <2>1. [page EXCEPT !.asked = page.asked, !.panel = Nothing("loading")]
          = [page EXCEPT !.panel = Nothing("loading")]
    BY <1>1 DEF Pages
  <2>2. PageOK([page EXCEPT !.asked = page.asked, !.panel = Nothing("loading")])
    BY <1>1, LoadingPage
  <2>3. WireOK(wire')
    BY <1>1, <1>3, LoadIs, WireWith
  <2> QED
    BY <1>3, <2>1, <2>2, <2>3
<1> QED
  BY <1>2, <1>3 DEF Reloaded

LEMMA OnBulkInv ==
    ASSUME Inv, NEW m \in OnWire, m.kind = "bulk", NEW rest, WireOK(rest), OnBulk(m, rest)
    PROVE  PageOK(page') /\ WireOK(wire')
<1>. DEFINE R == m.what.refs
            p == m.data
            asks == {Put(r, p, TRUE, "bulk", None, None) : r \in R}
            asked == IF m.what.there = "catalog" THEN rest (+) [x \in asks |-> 2] ELSE rest
<1>1. BulkOK(m) /\ R \subseteq Refs /\ PageOK(page) /\ page.asked \in Asks
  BY OnWireIs, PageAsks DEF MessageOK, BulkOK, Inv
<1>2. CASE m.status # "ok"
  BY <1>1, <1>2 DEF OnBulk
<1>3. CASE m.status = "ok"
  <2>1. p \in Products
    BY <1>1, <1>3 DEF BulkOK
  <2>2. PICK choices \in Choices : choices = WithChoice(R, p)
    BY <1>1, <2>1, WithChoiceIs
  <2>3. \A x \in asks : MessageOK(x)
    BY <1>1, <2>1, PutIs DEF Senders
  <2>4. \/ /\ wire' = With(asked, Load(page.asked, FALSE))
           /\ page' = [[page EXCEPT !.choices = choices] EXCEPT !.panel = Nothing("loading")]
        \/ wire' = rest /\ page' = [page EXCEPT !.choices = choices]
    BY <1>3, <2>2 DEF OnBulk, Puts
  <2>5. WireOK(asked)
    <3>. HIDE DEF asks
    <3>1. /\ IsABag(rest (+) [x \in asks |-> 2])
          /\ DOMAIN (rest (+) [x \in asks |-> 2]) = DOMAIN rest \cup asks
      BY TwiceIs DEF WireOK
    <3> QED
      BY <2>3, <3>1 DEF WireOK
  <2>. HIDE DEF asked
  <2>6. CASE wire' = rest /\ page' = [page EXCEPT !.choices = choices]
    BY <1>1, <2>6, ChoosingPage
  <2>7. CASE /\ wire' = With(asked, Load(page.asked, FALSE))
             /\ page' = [[page EXCEPT !.choices = choices] EXCEPT !.panel = Nothing("loading")]
    <3>1. WireOK(wire')
      BY ONLY <1>1, <2>5, <2>7, LoadIs, WireWith
    <3>2. PageOK(page')
      BY ONLY <1>1, <2>2, <2>7, ChoosingPage
    <3> QED
      BY <3>1, <3>2
  <2> QED
    BY <2>4, <2>6, <2>7
<1> QED
  BY <1>2, <1>3

LEMMA DeliverInv == ASSUME Inv, NEW m \in OnWire, Deliver(m) PROVE Inv'
<1>. DEFINE rest == Without(m)
<1>1. MessageOK(m) /\ WireOK(rest)
  BY OnWireIs
<1>2. UNCHANGED <<server>>
  BY DEF Deliver
<1>3. PageOK(page) /\ ProductPageOK(detail)
  BY DEF Inv
<1>. HIDE DEF rest
<1>4. ASSUME PageOK(page'), WireOK(wire'), UNCHANGED detail PROVE Inv'
  BY <1>2, <1>3, <1>4, InvByParts
<1>5. CASE m.kind = "preview"
  <2>1. OnPreview(m) /\ wire' = rest /\ UNCHANGED detail
    BY <1>5 DEF Deliver, rest
  <2> QED
    BY <1>1, <1>4, <1>5, <2>1, OnPreviewInv
<1>6. CASE m.kind = "commit"
  <2>1. OnCommit(m) /\ wire' = rest /\ UNCHANGED detail
    BY <1>6 DEF Deliver, rest
  <2> QED
    BY <1>1, <1>4, <2>1, OnCommitInv
<1>7. CASE m.kind = "load"
  <2>1. OnLoad(m, rest) /\ UNCHANGED detail
    BY <1>7 DEF Deliver, rest
  <2> QED
    BY <1>1, <1>4, <1>7, <2>1, OnLoadInv
<1>8. CASE m.kind = "put"
  <2>1. OnPut(m, rest)
    BY <1>8 DEF Deliver, rest
  <2>2. CASE wire' = rest /\ UNCHANGED <<page, detail>>
    BY <1>1, <1>3, <1>4, <2>2
  <2>3. CASE Reloaded(rest) /\ UNCHANGED detail
    BY <1>1, <1>4, <2>3, ReloadedInv
  <2>5. m.what.by # "bulk"
    BY <1>1, <1>8 DEF Deliver, MessageOK, PutOK
  <2>4. CASE m.what.by # "pick" /\ Opening(m.what.about, rest) /\ UNCHANGED page
    <3>1. m.what.about \in Products
      BY <1>1, <1>8, <2>4, <2>5 DEF MessageOK, PutOK
    <3> QED
      BY <1>1, <1>2, <2>4, <3>1, OpeningInv
  <2> QED
    BY <2>1, <2>2, <2>3, <2>4 DEF OnPut
<1>13. CASE m.kind = "bulk"
  <2>1. OnBulk(m, rest) /\ UNCHANGED detail
    BY <1>13 DEF Deliver, rest
  <2> QED
    BY <1>1, <1>4, <1>13, <2>1, OnBulkInv
<1>9. CASE m.kind = "correct"
  <2>1. UNCHANGED detail /\ (Reloaded(rest) \/ (page' = page /\ wire' = rest))
    BY <1>9 DEF Deliver, rest
  <2> QED
    BY <1>1, <1>3, <1>4, <2>1, ReloadedInv
<1>10. CASE m.kind = "detail"
  <2>1. OnDetail(m, rest) /\ UNCHANGED page
    BY <1>10 DEF Deliver, rest
  <2>2. DetailOK(m)
    BY <1>1, <1>10 DEF MessageOK
  <2>3. PICK v : /\ v = (IF m.status = "ok" THEN m.data ELSE View("error", m.what))
                 /\ ViewOK(v)
    <3>1. m.status = "ok" => ViewOK(m.data)
      BY <2>2 DEF DetailOK
    <3>2. ViewOK(View("error", m.what))
      BY <2>2, ViewIs DEF DetailOK
    <3> QED
      BY <3>1, <3>2
  <2>4. ProductPageOK(detail')
    <3>1. detail' = [view |-> v, results |-> NoChoice]
      BY <2>1, <2>3 DEF OnDetail
    <3>2. DOMAIN NoChoice = {}
      BY DEF NoChoice
    <3> QED
      BY <2>3, <3>1, <3>2 DEF ProductPageOK
  <2>5. WireOK(wire')
    BY <1>1, <2>1, WireOfThisPage DEF OnDetail
  <2> QED
    BY <1>2, <1>3, <2>1, <2>4, <2>5, InvByParts
<1>11. CASE m.kind = "search"
  <2>1. wire' = rest /\ UNCHANGED page /\ detail' = [detail EXCEPT !.results = m.data]
    BY <1>11 DEF Deliver, rest
  <2>2. DOMAIN m.data \subseteq Refs
    <3>1. m.status \in {"ok", "failed", "invalid"}
      BY DEF Deliver
    <3> QED
      BY <1>1, <1>11, <3>1 DEF MessageOK, SearchOK
  <2>3. ProductPageOK(detail')
    BY <1>3, <2>1, <2>2 DEF ProductPageOK
  <2> QED
    BY <1>1, <1>2, <1>3, <2>1, <2>3, InvByParts
<1>12. CASE m.kind = "unit"
  <2>1. UNCHANGED page /\ (Opening(m.what.product, rest) \/ (wire' = rest /\ UNCHANGED detail))
    BY <1>12 DEF Deliver, rest
  <2>2. m.what.product \in Products
    BY <1>1, <1>12 DEF MessageOK, UnitOK
  <2> QED
    BY <1>1, <1>2, <1>3, <1>4, <2>1, <2>2, OpeningInv
<1> QED
  BY <1>1, <1>5, <1>6, <1>7, <1>8, <1>9, <1>10, <1>11, <1>12, <1>13 DEF MessageOK, Kinds

-----------------------------------------------------------------------------
(* The server *)

\* What an answer has to hold, by what was asked.
LEMMA AnswerIs ==
    ASSUME Inv, NEW m \in OnWire, NEW status \in Statuses, NEW data,
           m.kind = "preview" /\ status = "ok" => data \in Choices,
           m.kind = "load" /\ status \in {"counted", "ok"} => Numbered(data),
           m.kind = "load" /\ status = "ok" => data.rows \in Shows,
           m.kind = "put" /\ m.what.by = "bulk" => status = "counted",
           m.kind = "bulk" /\ status = "ok" => data \in Products,
           m.kind = "detail" /\ status = "ok" => ViewOK(data),
           m.kind = "search" => status = "ok" /\ DOMAIN data \subseteq Refs,
           Answered(m, status, data)
    PROVE  WireOK(wire')
<1>1. MessageOK(m) /\ WireOK(Without(m))
  BY OnWireIs
<1>2. PICK a : a = Message(m.kind, status, m.what, data)
  OBVIOUS
<1>3. a.kind = m.kind /\ a.status = status /\ a.what = m.what /\ a.data = data
  BY <1>2 DEF Message
<1>4. MessageOK(a)
  <2>1. m.kind = "preview" => PreviewOK(a)
    BY <1>1, <1>3 DEF MessageOK, PreviewOK
  <2>2. m.kind = "commit" => CommitOK(a)
    BY <1>1, <1>3 DEF MessageOK, CommitOK
  <2>3. m.kind = "load" => LoadOK(a)
    BY <1>1, <1>3 DEF MessageOK, LoadOK
  <2>4. m.kind = "put" => PutOK(a)
    BY <1>1, <1>3 DEF MessageOK, PutOK
  <2>10. m.kind = "bulk" => BulkOK(a)
    BY <1>1, <1>3 DEF MessageOK, BulkOK
  <2>5. m.kind = "correct" => CorrectOK(a)
    BY <1>1, <1>3 DEF MessageOK, CorrectOK
  <2>6. m.kind = "detail" => DetailOK(a)
    BY <1>1, <1>3 DEF MessageOK, DetailOK
  <2>7. m.kind = "search" => SearchOK(a)
    BY <1>3 DEF SearchOK
  <2>8. m.kind = "unit" => UnitOK(a)
    BY <1>1, <1>3 DEF MessageOK, UnitOK
  <2>9. a.kind \in Kinds /\ a.status \in Statuses
    BY <1>1, <1>3 DEF MessageOK
  <2> QED
    BY <1>3, <2>1, <2>2, <2>3, <2>4, <2>5, <2>6, <2>7, <2>8, <2>9, <2>10 DEF MessageOK
<1> QED
  BY <1>1, <1>2, <1>4, WireWith DEF Answered

LEMMA FailedIs ==
    ASSUME Inv, NEW m \in OnWire, m.kind \notin {"search", "put"},
           NEW status \in {"failed", "invalid"}, Answered(m, status, None)
    PROVE  WireOK(wire')
BY AnswerIs DEF Statuses

\* An answer that holds nothing.
LEMMA DoneIs ==
    ASSUME Inv, NEW m \in OnWire, m.kind \in {"commit", "put", "correct", "unit"},
           m.kind = "put" => m.what.by # "bulk",
           NEW status \in Statuses, Answered(m, status, None)
    PROVE  WireOK(wire')
BY AnswerIs

LEMMA ServedInv ==
    ASSUME Inv, UNCHANGED <<page, detail>>, WireOK(wire'),
           ServerOK(rows', unit', used')
    PROVE  Inv'
BY DEF Inv

LEMMA ServerSame == ASSUME Inv, UNCHANGED server PROVE ServerOK(rows', unit', used')
BY DEF Inv, server

LEMMA RowsAre ==
    ASSUME Inv, NEW r \in Refs
    PROVE  rows[r] \in Row /\ rows[r].product \in Products \cup {None}
BY DEF Inv, ServerOK, Row

LEMMA ResolvedIs ==
    ASSUME Inv, NEW f \in Files, NEW r \in Refs
    PROVE  Resolved(f, r) \in Products \cup {None}
<1>1. Code[f][r] \in Products \cup {None}
  BY DataAssumption
<1> QED
  BY <1>1, RowsAre DEF Resolved

LEMMA ServePreviewInv ==
    ASSUME Inv, NEW m \in OnWire, m.kind = "preview", ServePreview(m)
    PROVE  ServerOK(rows', unit', used') /\ WireOK(wire')
<1>1. m.what \in Files
  BY OnWireIs DEF MessageOK, PreviewOK
<1>. DEFINE data == [r \in Content[m.what] |-> Resolved(m.what, r)]
<1>2. Content[m.what] \subseteq Refs
  BY <1>1, DataAssumption
<1>3. data \in Choices
  <2>1. \A r \in Content[m.what] : Resolved(m.what, r) \in Products \cup {None}
    BY <1>1, <1>2, ResolvedIs
  <2>2. data \in [Content[m.what] -> Products \cup {None}]
    BY <2>1
  <2> QED
    BY <1>2, <2>1, <2>2 DEF Choices
<1>. HIDE DEF data
<1>4. UNCHANGED server
  BY DEF ServePreview, Replied
<1>5. CASE Answered(m, "ok", data)
  BY <1>3, <1>4, <1>5, AnswerIs, ServerSame DEF Statuses
<1>6. CASE \E status \in {"failed", "invalid"} : Answered(m, status, None)
  BY <1>4, <1>6, FailedIs, ServerSame
<1> QED
  BY <1>5, <1>6 DEF ServePreview, Replied, data

LEMMA ImportedIs ==
    ASSUME Inv, NEW f \in Files, NEW choices \in Choices, NEW r \in Refs
    PROVE  Imported(f, choices, r) \in Row
<1>. DEFINE explicit == r \in DOMAIN choices
            resolved == IF explicit THEN choices[r] ELSE Resolved(f, r)
            p == IF explicit \/ resolved # None THEN resolved ELSE rows[r].product
<1>1. resolved \in Products \cup {None}
  BY ResolvedIs DEF Choices
<1>2. p \in Products \cup {None}
  BY <1>1, RowsAre
<1>3. Imported(f, choices, r) = IF rows[r].source = "manual" THEN rows[r]
                                ELSE [product |-> p, source |-> "import"]
  BY DEF Imported
<1>. HIDE DEF p
<1>4. [product |-> p, source |-> "import"] \in Row
  BY <1>2 DEF Row
<1> QED
  BY <1>2, <1>3, <1>4, RowsAre

LEMMA ServeCommitInv ==
    ASSUME Inv, NEW m \in OnWire, m.kind = "commit", ServeCommit(m)
    PROVE  ServerOK(rows', unit', used') /\ WireOK(wire')
<1>1. m.what.file \in Files /\ m.what.choices \in Choices
  BY OnWireIs DEF MessageOK, CommitOK
<1>2. CASE Answered(m, "failed", None) /\ UNCHANGED server
  BY <1>2, FailedIs, ServerSame
<1>3. CASE /\ rows' = [r \in Refs |-> IF r \in Content[m.what.file]
                                      THEN Imported(m.what.file, m.what.choices, r)
                                      ELSE rows[r]]
           /\ Answered(m, "ok", None) /\ UNCHANGED <<unit, used>>
  <2>1. \A r \in Refs : rows'[r] \in Row
    BY <1>1, <1>3, ImportedIs, RowsAre
  <2>2. rows' \in [Refs -> Row]
    BY <1>3, <2>1
  <2>3. WireOK(wire')
    BY <1>3, DoneIs DEF Statuses
  <2> QED
    BY <1>3, <2>1, <2>2, <2>3 DEF Inv, ServerOK
<1> QED
  BY <1>2, <1>3 DEF ServeCommit

LEMMA Divided == \A a \in Nat, b \in Nat \ {0} : a \div b \in Nat
BY Z3

LEMMA PagesAre == ASSUME NEW asked PROVE PagesOf(asked) \in Nat \ {0}
<1>. DEFINE many == Cardinality(Filtered(asked))
            n == (many + PageSize - 1) \div PageSize
<1>1. PageSize \in Nat \ {0}
  BY DataAssumption
<1>2. many \in Nat
  <2>1. DOMAIN Order = 1..Len(Order) /\ Len(Order) \in Nat
    BY DataAssumption
  <2>2. IsFiniteSet(1..Len(Order))
    BY <2>1, FS_Interval
  <2>3. IsFiniteSet(Filtered(asked))
    BY <2>1, <2>2, FS_Subset DEF Filtered
  <2> QED
    BY <2>3, FS_CardinalityType
<1>3. PagesOf(asked) = IF n = 0 THEN 1 ELSE n
  BY DEF PagesOf
<1>. HIDE DEF many
<1>4. many + PageSize - 1 \in Nat
  BY <1>1, <1>2
<1>5. n \in Nat
  BY <1>1, <1>4, Divided
<1> QED
  BY <1>3, <1>5

LEMMA ReadIs == ASSUME Inv, NEW asked, NEW n PROVE ReadPage(asked, n) \in Shows
<1>1. PICK there : there \subseteq DOMAIN Order /\ ReadPage(asked, n) = [r \in {Order[k] : k \in there} |-> rows[r]]
  <2>. DEFINE rank(k) == Cardinality({j \in Filtered(asked) : j <= k})
              here == {k \in Filtered(asked) : rank(k) \in ((n - 1) * PageSize + 1)..(n * PageSize)}
  <2>1. ReadPage(asked, n) = [r \in {Order[k] : k \in here} |-> rows[r]]
    BY DEF ReadPage
  <2>2. here \subseteq DOMAIN Order
    BY DEF Filtered
  <2>. HIDE DEF here
  <2> QED
    BY <2>1, <2>2
<1>2. PICK read : read = {Order[k] : k \in there}
  OBVIOUS
<1>3. read \subseteq Refs
  BY <1>1, <1>2 DEF Refs, Range
<1>4. ReadPage(asked, n) = [r \in read |-> rows[r]]
  BY <1>1, <1>2
<1>5. [r \in read |-> rows[r]] \in [read -> Row]
  BY <1>3, RowsAre
<1> QED
  BY <1>3, <1>4, <1>5 DEF Shows

LEMMA ServeLoadInv ==
    ASSUME Inv, NEW m \in OnWire, m.kind = "load", ServeLoad(m)
    PROVE  ServerOK(rows', unit', used') /\ WireOK(wire')
<1>. DEFINE asked == m.what.asked
            count == [pages |-> PagesOf(asked), page |-> Clamped(asked.page, PagesOf(asked))]
            read == [pages |-> m.data.pages, page |-> m.data.page, rows |-> ReadPage(asked, m.data.page)]
<1>1. LoadOK(m) /\ asked \in Asks
  BY OnWireIs DEF MessageOK, LoadOK
<1>2. UNCHANGED server
  BY DEF ServeLoad
<1>3. Numbered(count)
  <2>1. asked.page \in Nat \ {0} /\ PagesOf(asked) \in Nat \ {0}
    BY <1>1, PagesAre DEF Asks
  <2>2. Clamped(asked.page, PagesOf(asked)) \in 1..PagesOf(asked)
    BY <2>1 DEF Clamped
  <2> QED
    BY <2>1, <2>2 DEF Numbered
<1>4. CASE Answered(m, "counted", count)
  BY <1>2, <1>3, <1>4, AnswerIs, ServerSame DEF Statuses
<1>5. CASE m.status = "counted" /\ Answered(m, "ok", read)
  <2>1. Numbered(read)
    BY <1>1, <1>5 DEF LoadOK, Numbered
  <2>2. read.rows \in Shows
    BY ReadIs
  <2>. HIDE DEF read
  <2> QED
    BY <1>2, <1>5, <2>1, <2>2, AnswerIs, ServerSame DEF Statuses
<1>6. CASE Answered(m, "failed", None)
  BY <1>2, <1>6, FailedIs, ServerSame
<1> QED
  BY <1>4, <1>5, <1>6 DEF ServeLoad

\* A reference that changes alone.
LEMMA OneRow ==
    ASSUME Inv, NEW r \in Refs, NEW row \in Row, rows' = [rows EXCEPT ![r] = row],
           UNCHANGED <<unit, used>>
    PROVE  ServerOK(rows', unit', used')
BY DEF Inv, ServerOK

LEMMA ServePutInv ==
    ASSUME Inv, NEW m \in OnWire, m.kind = "put", ServePut(m)
    PROVE  ServerOK(rows', unit', used') /\ WireOK(wire')
<1>. DEFINE r == m.what.ref
            product == IF m.data.product THEN m.what.product ELSE rows[r].product
            source == IF m.data.source THEN "manual" ELSE rows[r].source
            row == [product |-> product, source |-> source]
<1>1. PutOK(m) /\ r \in Refs
  BY OnWireIs DEF MessageOK, PutOK
<1>. DEFINE Done(status) ==
              IF m.what.by = "bulk" THEN wire' = Without(m) ELSE Answered(m, status, None)
<1>2. ASSUME NEW status \in Statuses, Done(status) PROVE WireOK(wire')
  BY <1>2, DoneIs, OnWireIs
<1>3. \/ /\ UNCHANGED server
         /\ (\E data : Answered(m, "counted", data)) \/ Done("failed")
      \/ /\ rows' = [rows EXCEPT ![r] = row] /\ UNCHANGED <<unit, used>>
         /\ Done("ok")
  BY DEF ServePut
<1>4. ASSUME NEW data, Answered(m, "counted", data) PROVE WireOK(wire')
  BY <1>4, AnswerIs DEF Statuses
<1>5. row \in Row
  <2>1. rows[r].product \in Products \cup {None} /\ rows[r].source \in {"import", "manual", "none"}
    BY <1>1, RowsAre DEF Row
  <2>2. product \in Products \cup {None} /\ source \in {"import", "manual", "none"}
    BY <1>1, <2>1 DEF PutOK
  <2>. HIDE DEF product, source
  <2> QED
    BY <2>2 DEF Row
<1>. HIDE DEF row, r, Done
<1>6. CASE UNCHANGED server
  BY <1>2, <1>3, <1>4, <1>6, ServerSame DEF Statuses
<1>7. CASE /\ rows' = [rows EXCEPT ![r] = row] /\ UNCHANGED <<unit, used>>
           /\ Done("ok")
  <2>1. ServerOK(rows', unit', used')
    BY <1>1, <1>5, <1>7, OneRow
  <2> QED
    BY <1>2, <1>7, <2>1 DEF Statuses
<1> QED
  BY <1>3, <1>6, <1>7

LEMMA ServeBulkInv ==
    ASSUME Inv, NEW m \in OnWire, m.kind = "bulk", ServeBulk(m)
    PROVE  ServerOK(rows', unit', used') /\ WireOK(wire')
<1>1. UNCHANGED server
  BY DEF ServeBulk, Replied
<1>2. CASE \E p \in Products : Answered(m, "ok", p)
  BY <1>1, <1>2, AnswerIs, ServerSame DEF Statuses
<1>3. CASE Answered(m, "failed", None)
  BY <1>1, <1>3, FailedIs, ServerSame
<1> QED
  BY <1>2, <1>3 DEF ServeBulk, Replied

LEMMA ServeCorrectInv ==
    ASSUME Inv, NEW m \in OnWire, m.kind = "correct", ServeCorrect(m)
    PROVE  ServerOK(rows', unit', used') /\ WireOK(wire')
<1>1. CorrectOK(m)
  BY OnWireIs DEF MessageOK
<1>2. CASE Answered(m, "failed", None) /\ UNCHANGED server
  BY <1>2, FailedIs, ServerSame
<1>3. CASE /\ rows' = [rows EXCEPT ![m.what.ref].source = m.what.source]
           /\ Answered(m, "ok", None) /\ UNCHANGED <<unit, used>>
  <2>. DEFINE row == [rows[m.what.ref] EXCEPT !.source = m.what.source]
  <2>1. m.what.ref \in Refs /\ m.what.source \in {"manual", "none"}
    BY <1>1 DEF CorrectOK
  <2>2. row \in Row /\ row.product = rows[m.what.ref].product
    BY <2>1, RowsAre DEF Row
  <2>3. rows' = [rows EXCEPT ![m.what.ref] = row]
    BY <1>3, <2>1 DEF Inv, ServerOK
  <2>. HIDE DEF row
  <2>5. ServerOK(rows', unit', used')
    BY <1>3, <2>1, <2>2, <2>3, OneRow
  <2>6. WireOK(wire')
    BY <1>3, DoneIs DEF Statuses
  <2> QED
    BY <2>5, <2>6
<1> QED
  BY <1>2, <1>3 DEF ServeCorrect

LEMMA ServeDetailInv ==
    ASSUME Inv, NEW m \in OnWire, m.kind = "detail", ServeDetail(m)
    PROVE  ServerOK(rows', unit', used') /\ WireOK(wire')
<1>1. m.what \in Products
  BY OnWireIs DEF MessageOK, DetailOK
<1>. DEFINE p == m.what
            data == [state |-> "shown", product |-> p, unit |-> unit[p], editable |-> p \notin used,
                     refs |-> {r \in Refs : rows[r].product = p}]
<1>2. ViewOK(data)
  BY <1>1 DEF ViewOK
<1>. HIDE DEF data
<1>3. UNCHANGED server
  BY DEF ServeDetail, Replied
<1>4. CASE Answered(m, "ok", data)
  BY <1>2, <1>3, <1>4, AnswerIs, ServerSame DEF Statuses
<1>5. CASE Answered(m, "failed", None)
  BY <1>3, <1>5, FailedIs, ServerSame
<1> QED
  BY <1>4, <1>5 DEF ServeDetail, Replied, data

LEMMA ServeSearchInv ==
    ASSUME Inv, NEW m \in OnWire, m.kind = "search", ServeSearch(m)
    PROVE  ServerOK(rows', unit', used') /\ WireOK(wire')
<1>1. PICK data : Answered(m, "ok", data) /\ DOMAIN data \subseteq Refs
  BY DEF ServeSearch, Replied
<1>2. UNCHANGED server
  BY DEF ServeSearch, Replied
<1> QED
  BY <1>1, <1>2, AnswerIs, ServerSame DEF Statuses

LEMMA ServeUnitInv ==
    ASSUME Inv, NEW m \in OnWire, m.kind = "unit", ServeUnit(m)
    PROVE  ServerOK(rows', unit', used') /\ WireOK(wire')
<1>1. UnitOK(m)
  BY OnWireIs DEF MessageOK
<1>2. PICK status \in {"failed", "counted", "ok"} : Answered(m, status, None)
  BY DEF ServeUnit
<1>3. WireOK(wire')
  BY <1>2, DoneIs DEF Statuses
<1>4. CASE UNCHANGED server
  BY <1>3, <1>4, ServerSame
<1>5. CASE unit' = [unit EXCEPT ![m.what.product] = m.what.unit] /\ UNCHANGED <<rows, used>>
  BY <1>1, <1>3, <1>5 DEF Inv, ServerOK, UnitOK
<1> QED
  BY <1>4, <1>5 DEF ServeUnit

LEMMA ServeInv == ASSUME Inv, NEW m \in OnWire, Serve(m) PROVE Inv'
<1>1. m.kind \in Kinds
  BY OnWireIs DEF MessageOK
<1>2. UNCHANGED <<page, detail>>
  BY DEF Serve
<1>3. ServerOK(rows', unit', used') /\ WireOK(wire')
  <2>1. CASE m.kind = "preview"
    BY <2>1, ServePreviewInv DEF Serve
  <2>2. CASE m.kind = "commit"
    BY <2>2, ServeCommitInv DEF Serve
  <2>3. CASE m.kind = "load"
    BY <2>3, ServeLoadInv DEF Serve
  <2>4. CASE m.kind = "put"
    BY <2>4, ServePutInv DEF Serve
  <2>9. CASE m.kind = "bulk"
    BY <2>9, ServeBulkInv DEF Serve
  <2>5. CASE m.kind = "correct"
    BY <2>5, ServeCorrectInv DEF Serve
  <2>6. CASE m.kind = "detail"
    BY <2>6, ServeDetailInv DEF Serve
  <2>7. CASE m.kind = "search"
    BY <2>7, ServeSearchInv DEF Serve
  <2>8. CASE m.kind = "unit"
    BY <2>8, ServeUnitInv DEF Serve
  <2> QED
    BY <1>1, <2>1, <2>2, <2>3, <2>4, <2>5, <2>6, <2>7, <2>8, <2>9 DEF Kinds
<1> QED
  BY <1>2, <1>3, ServedInv

\* What others attach, and the chantiers.
LEMMA OthersInv == ASSUME Inv, Others PROVE Inv'
<1>1. UNCHANGED <<page, detail, wire>>
  BY DEF Others
<1>2. CASE \E p \in Building : /\ used' = IF p \in used THEN used \ {p} ELSE used \cup {p}
                               /\ UNCHANGED <<rows, unit>>
  <2>1. used' \subseteq Products /\ UNCHANGED <<rows, unit>>
    BY <1>2, DataAssumption DEF Inv, ServerOK
  <2> QED
    BY <1>1, <2>1 DEF Inv, ServerOK
<1>3. ASSUME NEW r \in Refs, NEW p \in Products, NEW now \in {p, None},
             rows' = [rows EXCEPT ![r] = [product |-> now, source |-> "manual"]],
             UNCHANGED <<unit, used>>
      PROVE  Inv'
  <2>1. PICK row \in Row : row = [product |-> now, source |-> "manual"]
    <3>1. [product |-> now, source |-> "manual"] \in Row
      BY DEF Row
    <3> QED
      BY <3>1
  <2>2. ServerOK(rows', unit', used')
    BY <1>3, <2>1, OneRow
  <2> QED
    BY <1>1, <2>2 DEF Inv
<1> QED
  BY <1>2, <1>3 DEF Others

LEMMA InvNext == ASSUME Inv, [Next]_vars PROVE Inv'
<1>1. CASE UNCHANGED vars
  BY <1>1 DEF Inv, vars
<1>2. CASE Answers
  BY <1>2, ServeInv, DeliverInv DEF Answers
<1> QED
  BY <1>1, <1>2, SuppliersPageInv, CataloguePageInv, OthersInv DEF Next

-----------------------------------------------------------------------------
(* The theorems *)

\* What is on the server, on the pages and on its way stays what was asked.
THEOREM PagesInvariant == Spec => []Inv
<1>1. Init => Inv
  BY InitInv
<1>2. Inv /\ [Next]_vars => Inv'
  BY InvNext
<1> QED
  BY <1>1, <1>2, PTL DEF Spec

\* Rows, pages and messages keep their shape.
THEOREM TypeCorrect == Spec => []TypeOK
<1>1. Inv => TypeOK
  <2>. SUFFICES ASSUME Inv PROVE TypeOK
    OBVIOUS
  <2>1. rows \in [Refs -> Row] /\ unit \in [Products -> Units] /\ used \subseteq Products
    BY DEF Inv, ServerOK
  <2>2. page \in Pages
    BY PageAsks
  <2>3. \A m \in OnWire : m.status \in Statuses
    BY OnWireIs DEF MessageOK
  <2>4. IsABag(wire)
    BY DEF Inv, WireOK
  <2>5. /\ detail.view.state \in {"none", "loading", "error", "shown"}
        /\ detail.view.state # "none" => detail.view.product \in Products
        /\ detail.view.refs \subseteq Refs /\ DOMAIN detail.results \subseteq Refs
    BY DEF Inv, ProductPageOK, ViewOK
  <2> QED
    BY <2>1, <2>2, <2>3, <2>4, <2>5 DEF TypeOK, Pages, Statuses
<1> QED
  BY <1>1, PagesInvariant, PTL

\* The page number that the next click counts from is the one on screen.
THEOREM PageOnScreenAgrees == Spec => []PageAgrees
<1>1. Inv => PageAgrees
  BY DEF Inv, PageOK, OnScreen, PageAgrees
<1> QED
  BY <1>1, PagesInvariant, PTL
=============================================================================
