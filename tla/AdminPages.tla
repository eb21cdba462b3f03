----------------------------- MODULE AdminPages -----------------------------
(***************************************************************************)
(* The two pages of the administrators: the suppliers page, where a file   *)
(* is previewed and imported and the references of a catalogue are mapped  *)
(* (src/app/static/admin_suppliers.js), and the page of one product        *)
(* (src/app/static/admin_catalogue.js). A handler that awaits an answer    *)
(* goes on when it arrives, in whatever order answers come and whatever    *)
(* was clicked meanwhile. The server serves a request in one step, or two *)
(* where it reads twice, or writes after it has read and checked; what     *)
(* transactions do to each other within a step is in SupplierCatalogue.    *)
(* Connections are not lost: the code has nothing for that, and a page     *)
(* would say "Chargement..." for ever.                                     *)
(***************************************************************************)
EXTENDS Integers, FiniteSets, Sequences, Bags, Functions

CONSTANTS Order,      \* the references, by supplier and reference
          Products,
          None,       \* no product
          Files,
          NoFile,
          Content,    \* the references of a file
          Code,       \* the product whose code a file gives to a reference
          Catalogs,
          NoCatalog,
          Member,     \* the references of a catalogue
          Queries,
          NoQuery,
          Matches,    \* the references that a query finds
          PageSize,
          Units,
          Elsewhere,  \* <<reference, product>>: what other people attach
          Mapped,     \* what references are attached to at the start
          Building,   \* products that a chantier may begin or cease to use
          UnitOf,     \* the units at the start
          MaxClicks,  \* bound on clicks
          MaxWire     \* bound on requests on their way

Refs == Range(Order)
Choices == UNION {[R -> Products \cup {None}] : R \in SUBSET Refs}
ASSUME DataAssumption ==
  /\ Order \in Seq(Refs) /\ None \notin Products /\ PageSize \in Nat \ {0}
  /\ Content \in [Files -> SUBSET Refs] /\ Code \in [Files -> [Refs -> Products \cup {None}]]
  /\ NoFile \notin Files /\ NoCatalog \notin Catalogs /\ NoQuery \notin Queries
  /\ Mapped \in [Refs -> Products \cup {None}] /\ UnitOf \in [Products -> Units]
  /\ Elsewhere \subseteq Refs \X Products /\ Building \subseteq Products

VARIABLES rows,    \* the references: product and source of the last correction
          unit,    \* the unit of each product
          used,    \* the products that a chantier uses
          page,    \* the suppliers page
          detail,  \* the page of a product
          wire,    \* the bag of requests and answers on their way
          clicks
vars == <<rows, unit, used, page, detail, wire, clicks>>
server == <<rows, unit, used>>

NoChoice == [r \in {} |-> None]
\* What is in the first function, and what is in the second only.
Over(f, g) == [x \in DOMAIN f \cup DOMAIN g |-> IF x \in DOMAIN f THEN f[x] ELSE g[x]]
Asked(c, n, f, q) == [catalog |-> c, page |-> n, filter |-> f, q |-> q]
Panel(state, n, pages, shown) == [state |-> state, page |-> n, pages |-> pages, rows |-> shown]
Nothing(state) == Panel(state, 0, 0, [r \in {} |-> None])
View(state, p) == [state |-> state, product |-> p, refs |-> {}, unit |-> None, editable |-> FALSE]

\* A request: what it asks, how far it is, what the answer holds.
Message(kind, status, what, data) ==
  [kind |-> kind, status |-> status, what |-> what, data |-> data]
Msg(kind, what) == Message(kind, "sent", what, None)
OnWire == BagToSet(wire)
Sent(kind) == \E m \in OnWire : m.kind = kind
With(w, m) == w (+) SetToBag({m})
Without(m) == wire (-) SetToBag({m})
Room(n) == BagCardinality(wire) + n <= MaxWire
Send(m) == Room(1) /\ wire' = With(wire, m)

Click == clicks < MaxClicks /\ clicks' = clicks + 1

Init ==
  /\ rows = [r \in Refs |-> [product |-> Mapped[r], source |-> "import"]]
  /\ unit = UnitOf
  /\ used = {}
  /\ page = [file |-> NoFile, ok |-> FALSE, armed |-> FALSE, choices |-> NoChoice,
             previewed |-> {}, mode |-> "preview", asked |-> Asked(NoCatalog, 1, "all", NoQuery),
             timer |-> "off", panel |-> Nothing("none")]
  /\ detail = [view |-> View("none", None), results |-> NoChoice]
  /\ wire = EmptyBag
  /\ clicks = 0

-----------------------------------------------------------------------------
\* The suppliers page: file, preview, import.
ChooseFile(f) ==
  /\ Click
  /\ page' = [page EXCEPT !.file = f, !.ok = FALSE, !.armed = FALSE, !.choices = NoChoice]
  /\ UNCHANGED <<server, detail, wire>>

RunPreview ==
  /\ Click /\ page.file # NoFile /\ ~Sent("preview")
  /\ Send(Msg("preview", page.file))
  /\ page' = [page EXCEPT !.previewed = {}]
  /\ UNCHANGED <<server, detail>>

\* The file may have been changed since: the button is armed all the same.
OnPreview(m) ==
  page' = CASE m.status = "ok" -> [page EXCEPT !.mode = "preview", !.choices = m.data, !.ok = TRUE,
                                               !.armed = TRUE, !.previewed = DOMAIN m.data]
            [] m.status = "invalid" -> [page EXCEPT !.mode = "preview", !.ok = FALSE, !.armed = FALSE]
            [] OTHER -> [page EXCEPT !.ok = FALSE, !.armed = FALSE]

RunCommit ==
  /\ Click /\ page.ok /\ page.armed /\ page.file # NoFile
  /\ Send(Msg("commit", [file |-> page.file, choices |-> page.choices]))
  /\ page' = [page EXCEPT !.armed = FALSE, !.previewed = {}]
  /\ UNCHANGED <<server, detail>>

OnCommit(m) == page' = IF m.status = "ok" THEN page ELSE [page EXCEPT !.armed = TRUE]

-----------------------------------------------------------------------------
\* The suppliers page: the references of a catalogue, page by page.
Load(asked, reset) == Msg("load", [asked |-> asked, reset |-> reset])
LoadPage(asked) ==
  /\ page' = [page EXCEPT !.asked = asked, !.panel = Nothing("loading")]
  /\ Send(Load(asked, FALSE))

OpenCatalog(c) ==
  /\ Click
  /\ LET asked == Asked(c, 1, "all", NoQuery)
     IN /\ page' = [page EXCEPT !.mode = "catalog", !.asked = asked, !.panel = Nothing("loading")]
        /\ Send(Load(asked, TRUE))
  /\ UNCHANGED <<server, detail>>

\* The filters of both workspaces, the previewed file's and the catalogue's,
\* look at the mode of the page.
Filters == page.mode = "catalog" /\ (page.panel.state = "shown" \/ page.previewed # {})
Chip(f) ==
  /\ Click /\ Filters
  /\ LoadPage([page.asked EXCEPT !.filter = f, !.page = 1])
  /\ UNCHANGED <<server, detail>>
Type(q) ==
  /\ Click /\ Filters
  /\ page' = [page EXCEPT !.timer = q]
  /\ UNCHANGED <<server, detail, wire>>
Fire ==
  /\ page.timer # "off" /\ Room(1)
  /\ LET asked == [page.asked EXCEPT !.q = page.timer, !.page = 1]
     IN /\ page' = [page EXCEPT !.asked = asked, !.panel = Nothing("loading"), !.timer = "off"]
        /\ Send(Load(asked, FALSE))
  /\ UNCHANGED <<server, detail, clicks>>
Turn(n) ==
  /\ Click /\ page.mode = "catalog" /\ page.panel.state = "shown"
  /\ n \in 1..page.panel.pages \ {page.asked.page}
  /\ LoadPage([page.asked EXCEPT !.page = n])
  /\ UNCHANGED <<server, detail>>

\* The page above, when a page of unmapped references comes back empty.
\* A mutant of StepBack: the same page again.
StepBackNowhere(pages) == page.asked.page
StepBack(pages) ==
  IF page.asked.page - 1 < pages THEN page.asked.page - 1 ELSE pages
EmptyPage(m) == /\ page.asked.filter = "unmapped" /\ page.asked.page > 1
                /\ DOMAIN m.data.rows = {}

\* What was chosen here before goes before what the server says.
Filled(m) ==
  LET kept == IF m.what.reset THEN NoChoice ELSE page.choices
  IN Over(kept, [r \in DOMAIN m.data.rows |-> m.data.rows[r].product])

\* A mutant of Arrived: the page number that was asked is kept.
ArrivedAsAsked(m) == page.asked
Arrived(m) == [page.asked EXCEPT !.page = m.data.page]
OnLoad(m, rest) ==
  IF m.status = "ok" /\ EmptyPage(m)
  THEN LET asked == [page.asked EXCEPT !.page = StepBack(m.data.pages)]
       IN /\ page' = [page EXCEPT !.asked = asked, !.panel = Nothing("loading")]
          /\ wire' = With(rest, Load(asked, m.what.reset))
  ELSE /\ wire' = rest
       /\ page' = IF m.status # "ok" THEN [page EXCEPT !.panel = Nothing("error")]
                  ELSE [page EXCEPT !.panel = Panel("shown", m.data.page, m.data.pages, m.data.rows),
                                    !.choices = Filled(m), !.asked = Arrived(m)]

\* A request for one reference. The page that sent it, and, for the catalogue
\* page, the product it was about and what it showed of the reference.
Put(r, p, confirm, by, about, saw) ==
  Msg("put", [ref |-> r, product |-> p, confirm |-> confirm, by |-> by,
              about |-> about, saw |-> saw])
Picked(r, p) == Put(r, p, TRUE, "pick", None, None)
WithChoice(refs, p) == Over([r \in refs |-> p], page.choices)

\* A product picked, or removed, for a reference. In the previewed file the
\* choice waits for the import. In the catalogue it is saved at once, unless a
\* preview has changed the mode of the page meanwhile.
PickPreviewed(r, p) ==
  /\ Click /\ r \in page.previewed
  /\ page' = [page EXCEPT !.choices = WithChoice({r}, p)]
  /\ UNCHANGED <<server, detail, wire>>
Shown == IF page.panel.state = "shown" THEN DOMAIN page.panel.rows ELSE {}
Pick(r, p) ==
  /\ Click /\ r \in Shown
  /\ page' = [page EXCEPT !.choices = WithChoice({r}, p)]
  /\ IF page.mode = "catalog" THEN Send(Picked(r, p)) ELSE UNCHANGED wire
  /\ UNCHANGED <<server, detail>>

\* Ticked references of the previewed file or of the catalogue, and one code for
\* all, which is looked for. The answer goes on with what was ticked, whatever is
\* shown by then, and with the mode that the page has by then. The row and the
\* card of a reference of the catalogue both ask, those of the file have no id to
\* ask with; nobody waits for the answers, and the page is loaded at once.
Workspaces == {"preview", "catalog"}
Bulk(refs, there) ==
  /\ Click /\ refs # {}
  /\ refs \subseteq IF there = "catalog" THEN Shown ELSE page.previewed
  /\ Send(Msg("bulk", [refs |-> refs, there |-> there]))
  /\ UNCHANGED <<server, page, detail>>
Puts(refs, p) == [m \in {Put(r, p, TRUE, "bulk", None, None) : r \in refs} |-> 2]
OnBulk(m, rest) ==
  LET filled == [page EXCEPT !.choices = WithChoice(m.what.refs, m.data)]
      asked == IF m.what.there = "catalog" THEN rest (+) Puts(m.what.refs, m.data) ELSE rest
  IN IF m.status # "ok" THEN wire' = rest /\ page' = page
     ELSE IF page.mode = "catalog"
     THEN /\ wire' = With(asked, Load(page.asked, FALSE))
          /\ page' = [filled EXCEPT !.panel = Nothing("loading")]
     ELSE wire' = rest /\ page' = filled

\* The conditioning dialog: a correction by hand, or its removal.
Correct(r, source) ==
  /\ Click /\ r \in Shown
  /\ source = "none" => page.panel.rows[r].source = "manual"
  /\ Send(Msg("correct", [ref |-> r, source |-> source]))
  /\ UNCHANGED <<server, page, detail>>

\* After a save, the page as it is asked now.
Reloaded(rest) ==
  IF page.asked.catalog # NoCatalog
  THEN page' = [page EXCEPT !.panel = Nothing("loading")] /\ wire' = With(rest, Load(page.asked, FALSE))
  ELSE page' = page /\ wire' = rest

-----------------------------------------------------------------------------
\* The page of a product.
\* Searches of a page that is replaced write nowhere.
OfThisPage(w) == [m \in {x \in DOMAIN w : x.kind # "search"} |-> w[m]]
Opening(p, w) ==
  /\ detail' = [view |-> View("loading", p), results |-> NoChoice]
  /\ wire' = With(OfThisPage(w), Msg("detail", p))

Open(p) ==
  /\ Click /\ Room(1)
  /\ Opening(p, wire)
  /\ UNCHANGED <<server, page>>

OnDetail(m, rest) ==
  /\ detail' = [view |-> IF m.status = "ok" THEN m.data ELSE View("error", m.what), results |-> NoChoice]
  /\ wire' = OfThisPage(rest)

There == detail.view.state = "shown"
Search(q) ==
  /\ Click /\ There /\ Send(Msg("search", q))
  /\ UNCHANGED <<server, page, detail>>

\* A reference shown free is asked for without confirmation; the others after
\* a question that names the product they were on.
Confirms(saw) == saw # None
Attach(r) ==
  /\ Click /\ There /\ r \in DOMAIN detail.results
  /\ LET saw == detail.results[r]
         p == detail.view.product
     IN /\ saw # p
        /\ Send(Put(r, p, Confirms(saw), "attach", p, saw))
  /\ UNCHANGED <<server, page, detail>>
Detach(r) ==
  /\ Click /\ There /\ r \in detail.view.refs
  /\ Send(Put(r, None, FALSE, "detach", detail.view.product, detail.view.product))
  /\ UNCHANGED <<server, page, detail>>
Retarget(r, p) ==
  /\ Click /\ There /\ r \in detail.view.refs /\ p # detail.view.product
  /\ Send(Put(r, p, TRUE, "retarget", detail.view.product, detail.view.product))
  /\ UNCHANGED <<server, page, detail>>
EditUnit(u) ==
  /\ Click /\ There /\ detail.view.editable /\ u # detail.view.unit
  /\ Send(Msg("unit", [product |-> detail.view.product, unit |-> u]))
  /\ UNCHANGED <<server, page, detail>>

\* An answer: the page that asked goes on, whatever it shows now.
OnPut(m, rest) ==
  CASE m.status # "ok" -> wire' = rest /\ UNCHANGED <<page, detail>>
    [] m.what.by = "pick" -> Reloaded(rest) /\ UNCHANGED detail
    [] OTHER -> Opening(m.what.about, rest) /\ UNCHANGED page
Deliver(m) ==
  LET rest == Without(m)
  IN /\ m.status \in {"ok", "failed", "invalid"}
     /\ CASE m.kind = "preview" -> OnPreview(m) /\ wire' = rest /\ UNCHANGED detail
          [] m.kind = "commit" -> OnCommit(m) /\ wire' = rest /\ UNCHANGED detail
          [] m.kind = "load" -> OnLoad(m, rest) /\ UNCHANGED detail
          [] m.kind = "put" -> OnPut(m, rest)
          [] m.kind = "bulk" -> OnBulk(m, rest) /\ UNCHANGED detail
          [] m.kind = "correct" ->
               /\ UNCHANGED detail
               /\ IF m.status = "ok" /\ page.mode = "catalog" THEN Reloaded(rest)
                  ELSE page' = page /\ wire' = rest
          [] m.kind = "detail" -> OnDetail(m, rest) /\ UNCHANGED page
          [] m.kind = "search" -> /\ wire' = rest /\ UNCHANGED page
                                  /\ detail' = [detail EXCEPT !.results = m.data]
          [] m.kind = "unit" ->
               /\ UNCHANGED page
               /\ IF m.status = "ok" THEN Opening(m.what.product, rest)
                  ELSE wire' = rest /\ UNCHANGED detail
     /\ UNCHANGED <<server, clicks>>

-----------------------------------------------------------------------------
\* The server.
Answered(m, status, data) ==
  wire' = With(Without(m), Message(m.kind, status, m.what, data))
Replied(m, data) == Answered(m, "ok", data) /\ UNCHANGED server

\* _resolve_mappings: the code of the file, or what the reference has already.
Resolved(f, r) == IF Code[f][r] # None THEN Code[f][r] ELSE rows[r].product
ServePreview(m) ==
  \/ Replied(m, [r \in Content[m.what] |-> Resolved(m.what, r)])
  \/ \E status \in {"failed", "invalid"} : Answered(m, status, None) /\ UNCHANGED server

\* The import of a file with the choices sent with it. What a hand or a rule
\* has corrected is not touched.
Imported(f, choices, r) ==
  LET explicit == r \in DOMAIN choices
      resolved == IF explicit THEN choices[r] ELSE Resolved(f, r)
  IN IF rows[r].source = "manual" THEN rows[r]
     ELSE [product |-> IF explicit \/ resolved # None THEN resolved ELSE rows[r].product,
           source |-> "import"]
ServeCommit(m) ==
  \/ /\ rows' = [r \in Refs |-> IF r \in Content[m.what.file]
                                THEN Imported(m.what.file, m.what.choices, r)
                                ELSE rows[r]]
     /\ Answered(m, "ok", None) /\ UNCHANGED <<unit, used>>
  \/ Answered(m, "failed", None) /\ UNCHANGED server

\* list_catalog_mappings: the references are counted, then read.
Filtered(asked) ==
  {k \in DOMAIN Order :
     /\ Order[k] \in Member[asked.catalog]
     /\ asked.q # NoQuery => Order[k] \in Matches[asked.q]
     /\ asked.filter = "mapped" => rows[Order[k]].product # None
     /\ asked.filter = "unmapped" => rows[Order[k]].product = None}
PagesOf(asked) ==
  LET n == (Cardinality(Filtered(asked)) + PageSize - 1) \div PageSize IN IF n = 0 THEN 1 ELSE n
Clamped(n, pages) == IF n > pages THEN pages ELSE n
ReadPage(asked, n) ==
  LET rank(k) == Cardinality({j \in Filtered(asked) : j <= k})
      there == {k \in Filtered(asked) : rank(k) \in ((n - 1) * PageSize + 1)..(n * PageSize)}
  IN [r \in {Order[k] : k \in there} |-> rows[r]]
ServeLoad(m) ==
  LET asked == m.what.asked
  IN /\ UNCHANGED server
     /\ \/ /\ m.status = "sent"
           /\ Answered(m, "counted", [pages |-> PagesOf(asked),
                                      page |-> Clamped(asked.page, PagesOf(asked))])
        \/ /\ m.status = "counted"
           /\ Answered(m, "ok", [pages |-> m.data.pages, page |-> m.data.page,
                                 rows |-> ReadPage(asked, m.data.page)])
        \/ Answered(m, "failed", None)

\* search of the products, for a code: the exact one, else the first found.
ServeBulk(m) ==
  \/ \E p \in Products : Replied(m, p)
  \/ Answered(m, "failed", None) /\ UNCHANGED server

\* set_supplier_product_mapping: the row is read and what was read is checked;
\* then what differs from what is asked is written. Nothing is locked between.
\* Nobody waits for the answers to the requests of a bulk.
ServePut(m) ==
  LET put == m.what
      now == rows[put.ref]
      done(status) == IF put.by = "bulk" THEN wire' = Without(m) ELSE Answered(m, status, None)
  IN \/ /\ m.status = "sent" /\ UNCHANGED server
        /\ put.product = None \/ now.product \in {None, put.product} \/ put.confirm
        /\ Answered(m, "counted", [product |-> now.product # put.product,
                                   source |-> now.source # "manual"])
     \/ /\ m.status = "counted"
        /\ rows' = [rows EXCEPT ![put.ref] =
                     [product |-> IF m.data.product THEN put.product ELSE now.product,
                      source |-> IF m.data.source THEN "manual" ELSE now.source]]
        /\ done("ok") /\ UNCHANGED <<unit, used>>
     \/ done("failed") /\ UNCHANGED server

ServeCorrect(m) ==
  \/ /\ rows' = [rows EXCEPT ![m.what.ref].source = m.what.source]
     /\ Answered(m, "ok", None) /\ UNCHANGED <<unit, used>>
  \/ Answered(m, "failed", None) /\ UNCHANGED server

ServeDetail(m) ==
  LET p == m.what
  IN \/ Replied(m, [state |-> "shown", product |-> p, unit |-> unit[p], editable |-> p \notin used,
                    refs |-> {r \in Refs : rows[r].product = p}])
     \/ Answered(m, "failed", None) /\ UNCHANGED server
ServeSearch(m) ==
  Replied(m, [r \in {x \in Refs : IF m.what = NoQuery THEN rows[x].product = None
                                  ELSE x \in Matches[m.what]} |-> rows[r].product])

\* patch_product_reference_unit: refused when a chantier uses the product,
\* counted before it is written.
ServeUnit(m) ==
  LET p == m.what.product
  IN \/ /\ m.status = "sent" /\ UNCHANGED server
        /\ Answered(m, IF p \in used THEN "failed" ELSE "counted", None)
     \/ /\ m.status = "counted"
        /\ unit' = [unit EXCEPT ![p] = m.what.unit]
        /\ Answered(m, "ok", None) /\ UNCHANGED <<rows, used>>

Serve(m) ==
  /\ m.status \in {"sent", "counted"}
  /\ CASE m.kind = "preview" -> ServePreview(m)
       [] m.kind = "commit" -> ServeCommit(m)
       [] m.kind = "load" -> ServeLoad(m)
       [] m.kind = "put" -> ServePut(m)
       [] m.kind = "bulk" -> ServeBulk(m)
       [] m.kind = "correct" -> ServeCorrect(m)
       [] m.kind = "detail" -> ServeDetail(m)
       [] m.kind = "search" -> ServeSearch(m)
       [] m.kind = "unit" -> ServeUnit(m)
  /\ UNCHANGED <<page, detail, clicks>>

\* What others do: references attached and detached, chantiers that use a
\* product or stop using it.
Others ==
  /\ \/ \E r \in Refs, p \in Products : \E now \in {p, None} :
          /\ <<r, p>> \in Elsewhere
          /\ rows' = [rows EXCEPT ![r] = [product |-> now, source |-> "manual"]]
          /\ UNCHANGED <<unit, used>>
     \/ \E p \in Building : /\ used' = IF p \in used THEN used \ {p} ELSE used \cup {p}
                            /\ UNCHANGED <<rows, unit>>
  /\ UNCHANGED <<page, detail, wire, clicks>>

-----------------------------------------------------------------------------
SuppliersPage ==
  \/ \E f \in Files : ChooseFile(f)
  \/ RunPreview \/ RunCommit
  \/ \E c \in Catalogs : OpenCatalog(c)
  \/ \E f \in {"all", "mapped", "unmapped"} : Chip(f)
  \/ \E q \in Queries \cup {NoQuery} : Type(q)
  \/ Fire
  \/ \E n \in 1..Len(Order) : Turn(n)
  \/ \E r \in Refs, p \in Products \cup {None} : PickPreviewed(r, p) \/ Pick(r, p)
  \/ \E refs \in SUBSET Refs, there \in Workspaces : Bulk(refs, there)
  \/ \E r \in Refs, source \in {"manual", "none"} : Correct(r, source)
CataloguePage ==
  \/ \E p \in Products : Open(p)
  \/ \E q \in Queries \cup {NoQuery} : Search(q)
  \/ \E r \in Refs : Attach(r) \/ Detach(r)
  \/ \E r \in Refs, p \in Products : Retarget(r, p)
  \/ \E u \in Units : EditUnit(u)
Answers == \E m \in OnWire : Serve(m) \/ Deliver(m)

Next == SuppliersPage \/ CataloguePage \/ Answers \/ Others
Spec == Init /\ [][Next]_vars
\* Requests are served and their answers handled; nobody has to click.
FairSpec == Spec /\ WF_vars(Answers)

-----------------------------------------------------------------------------
Asks ==
  [catalog : Catalogs \cup {NoCatalog}, page : Nat \ {0}, filter : {"all", "mapped", "unmapped"},
   q : Queries \cup {NoQuery}]
Row == [product : Products \cup {None}, source : {"import", "manual", "none"}]
Panels ==
  [state : {"none", "loading", "error", "shown"}, page : Nat, pages : Nat,
   rows : UNION {[R -> Row] : R \in SUBSET Refs}]
TypeOK ==
  /\ rows \in [Refs -> Row] /\ unit \in [Products -> Units] /\ used \subseteq Products
  /\ page \in [file : Files \cup {NoFile}, ok : BOOLEAN, armed : BOOLEAN, choices : Choices,
               previewed : SUBSET Refs, mode : {"preview", "catalog"}, asked : Asks,
               timer : {"off", NoQuery} \cup Queries, panel : Panels]
  /\ detail.view.state \in {"none", "loading", "error", "shown"}
  /\ detail.view.state # "none" => detail.view.product \in Products
  /\ detail.view.refs \subseteq Refs /\ DOMAIN detail.results \subseteq Refs
  /\ IsABag(wire)
  /\ \A m \in OnWire : m.status \in {"sent", "counted", "ok", "failed", "invalid"}

\* The page number that the next click will count from is the one on screen,
\* whatever answers came late and whatever is awaited still.
PageAgrees ==
  page.panel.state = "shown" =>
    page.asked.page = page.panel.page /\ page.asked.page \in 1..page.panel.pages

\* The panel does not load for ever, even when others attach and detach the
\* references it is reading.
LoadEnds == page.panel.state = "loading" ~> page.panel.state # "loading"
=============================================================================
