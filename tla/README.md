# ProMatConnect: the verification project

ProMatConnect compares, for a list of building materials, what the agencies of
several suppliers offer, proposes where to buy what, keeps the solution a
craftsman retains for a building site ("chantier") and tracks its purchase.  It
is a FastAPI application on PostgreSQL with a few pages of plain JavaScript,
and command-line tools that import, synchronise and map supplier catalogues.

This directory models the parts of it in which several actors meet (processes,
sessions, pages, late answers), the search for the best purchase, and the
algorithms that map references to products and group them; it checks them with
TLC and proves their main invariants with TLAPS.

    tlc -workers 2 -config chantier.cfg MCChantier.tla
    tlapm ChantierPages_proofs.tla

## 1. The system

| Part | Code | State | Operations | Talks to |
|---|---|---|---|---|
| Catalogue synchronisation | `services/bricodepot_catalog_sync.py`, `tools/bricodepot_catalog_sync.py` | a job row (status, lease, checkpoint, counters), an item row per SKU | create, run, resume, retry errors, SIGINT | PostgreSQL, supplier site; one process per command |
| Chantiers | `services/chantiers.py`, `routes/chantiers.py`, `static/chantiers.js` | chantier row with `updated_at` as token, its needs | create, read, update, delete | comparator page, shopping list |
| Retained solution | `services/approvisionnement.py` | one row per chantier: fingerprint of the needs, snapshot, `chosen_at` | read, upsert, delete | chantier row (token) |
| Purchase tracking | `services/shopping_list.py`, `static/shopping_list.js` | a row per line of a solution, its own `updated_at` | list, save a line | retained solution (snapshot token) |
| Comparator page | `static/app.js`, `static/materials.js` | cart, search field, origin, tax basis, revision, results, pending choice | load a chantier, search, edit, locate, compare, toggle basis, choose, confirm, save as | `/api/compare`, catalogue and chantier routes |
| Live-offer cache | `services/supplier_live_cache.py` | a row per store and reference: price, stock, their expiry, a refresh lease; a row per store lookup | plan, lease, store, release | live connectors |
| Live connectors | `connectors/bricodepot/connector.py`, `connectors/gedimat/connector.py` | none beyond the session | `get_offers` | cache, supplier clients |
| Connector registry | `connectors/registry.py`, `repositories/offers.py` | none | which connectors and catalogues answer | suppliers, catalogues |
| Comparison and optimisation | `services/comparison.py`, `optimization.py`, `routing.py`, `procurement_cost.py`, `tax.py`, `units.py`, `conditioning.py` | none | offers per line, agencies, route, cost, strategies | connectors, repositories |
| Supplier import, catalogues | `services/supplier_import.py`, `connectors/file_csv.py`, `services/admin_catalogue.py` | imports, supplier references, offers, mapping | preview, import, (de)activate, delete, map, correct conditioning | comparison (active catalogues) |
| Batch imports, Gedimat stores | `services/bricodepot_catalog_import.py`, `gedimat_catalog_import.py`, `gedimat_mapping.py`, `gedimat_stores.py` | the same tables | one transaction per command | supplier sites |
| Product mapping | `services/product_mapping/`, `tools/product_mapping.py` | products, references, proposals | seed, apply, specific products, twins; discover, consolidate | references, products |
| Origin, geocoding | `services/origin.py`, `geocoding.py` | none | resolve an address or a position | external service |
| Administration pages | `static/admin_suppliers.js`, `static/admin_catalogue.js` | page state, choices not yet sent | preview, import, pick, bulk, search, attach, detach | administration API |
| Start-up | `schema_ensure.py`, `scripts/seed.py`, `main.py` | the schema | additive migrations, seeding | PostgreSQL |
| Probes, one-off tools | `tools/*_probe.py`, `scripts/` | none | printing | supplier sites |

What is hard in it, and what makes each part correct:

* *Synchronisation.* A process dies at any point, is interrupted, or outlives
  its lease on a slow supplier; another resumes its job.  The ORM writes back
  only the columns a session has changed, over whatever the row has become.
  Correct: nothing below the checkpoint is forgotten, one process at a time
  runs a job, counters and items agree, a job closes once and with nothing left
  to do, and a run ends.
* *Chantiers.* Pages opened on the same chantier write in turn, answers get
  lost, the clock that makes tokens may stand still or go back, a read is
  several statements, the fingerprint is compared before the row is locked.
  Correct: nobody overwrites what the page has not shown, and a solution is
  retained for the needs of the moment.
* *Comparator.* Every `await` lets other handlers run: the first page of the catalogue,
  an answer to a search, a position, a chantier or a comparison comes after the user
  went on.  Correct: what is shown, offered and sent belongs to the text, the cart and
  the origin of the page; and the button comes back.
* *Cache.* Comparisons refresh the same rows in transactions that stay open
  across the supplier's answer.  Correct: one question at a time about a
  reference, no older answer over a newer one, leases given back, and no
  comparison waits for ever.
* *Comparison.* The connectors, the catalogues and the directory of stores are
  read one after the other while administrators switch them, and suppliers fail
  at any point.  The search never looks at all the assignments of lines to
  agencies: it takes the cheapest line of each product within each subset of
  agencies and each threshold of preparation, skips baskets already seen, and
  orders the stops by one of two algorithms.  Correct: a brand answers once and
  whole, what is bought is sold, and nothing is lost on the way to the best of
  what each strategy is the name of.
* *Catalogues.* Imports, feeds, passes, edits and deletions are transactions that
  read without a lock and write later.  Correct: an import is whole, no offer
  outlives its catalogue, and what was decided by hand stands.
* *Mapping.* A campaign seeds products, attaches references to them, and must
  then find nothing left to do; codes collide, products are retired or made by
  hand between two campaigns.  Correct: only the one product that fits is
  attached, and nothing committed is moved.
* *Reports.* References move between seeds, groups, children and what is left,
  and the base changes between two readings.  Correct: everything is counted
  once, nothing is lost between two reports, and a report issued is of now.
* *Administration pages.* Choices outlive the panel they were made in, and answers
  replace each other in any order.  Correct: the number of the page is that of the rows
  on the screen, and a page that is loading ends loading.

The hazards, each at its line, are in `PROJECT.json`.

## 2. The modules

| Module | Role |
|---|---|
| `CatalogSync`, `SyncLedger` | the synchronisation engine and its command line; what it promises of a job, whoever runs it |
| `Chantier` | a chantier, its retained solution, its tracking, the pages |
| `Comparator` | the comparator page: cart, origin, comparisons, choices |
| `MaterialLines`, `ComparatorPage` | the search and the lines; the origin, the chantier loaded and the whole page, which implements `Comparator` |
| `OfferCache` | the cache of live offers under `get_offers` of both connectors |
| `TourOrder`, `Optimiser` | the legs of a tour and the order of its stops; a comparison, its baskets and its strategies |
| `CompareRequest` | the request around `Optimiser`: origin, connectors, offers |
| `ShoppingList` | a solution `Optimiser` found, as a snapshot and as a list of purchases by store |
| `SupplierCatalogue` | references, mappings and offers under every transaction that writes them |
| `Matching`, `MappingCampaign` | a reference against the products of a family; the campaigns over families |
| `Clustering`, `Discovery` | references grouped into families by words; the four reports |
| `AdminPages` | the suppliers page and the product page |
| `MC*` | instances for TLC: values, tables, symmetry |
| `Catalogues_proofs` | theorems about `CatalogSync` and `SupplierCatalogue` |
| `ChantierPages_proofs` | theorems about `Chantier` and `ComparatorPage` |
| `*_proofs` | theorems about the module of that name, and their proofs |

### CatalogSync

`job` and `items` are the rows; `snap`, `seenItems`, `batch`, `last` and
`tries` are what a process holds in its ORM session and in `_run_batches`; `pc` names the
transaction it is in.  A commit of the ORM is `WriteBack`: an UPDATE of the
columns whose value in the session differs from the one loaded, so that two
sessions that overlap mix their columns as PostgreSQL would let them.  An
expired session is `Unloaded`.  `RowSeen` is the detail that matters most in
`_acquire_lease`: a SELECT FOR UPDATE does not refresh a row the session has
loaded already, and the creating process has loaded it to print it.

The actions follow `main()` and `run_job`: `Launch`, `CreateJob`,
`AnnounceJob`, `Acquire`/`AcquireRefused`, then `Reload`, `Select`, `EnrichRetry` or
`EnrichFailed` or `CommitBatch`, and `RefreshJob`, `Leave`.  `Sigint`, `Crash`
and `LeaseExpires` come from outside.  A flush that fails inside a batch leaves
the session unusable and the process leaves with nothing written, which is
`Crash`.  The enrichment of an item is its outcome; the discovery of the sitemap
is the creation of the rows, and happens once.

`SyncLedger` is the abstract specification: items are taken in order, at most a
batch at a time, none that was imported or skipped is touched again, and the job
is closed once, when everything is settled.  `CatalogSync!Ledger` maps the
statuses of the items to `verdict` and the status "completed" to `closed`.

### Chantier

One chantier.  A list of needs is one value, which stands for its fingerprint as
well.  `chantier.token` is `updated_at`, and `NewToken` is the code's
`max(utc_now(), expected + 1 µs)` with `Clock` for what `utc_now()` may
answer, in any order.  A page has a `view` (the token and the needs it has,
read by two statements: `LoadRow`, `LoadMaterials`) and at most one request in
flight.  `Update`, `Delete`, `RetainSwap` and `Clear` are the transactions
decided by one `UPDATE ... WHERE updated_at = expected` (`Accepts`); a read
before it that cannot change the outcome is merged with it.  The upsert keeps
its two steps, since the fingerprint is checked before the row is locked.
`Answered` either reaches the page or is lost.  After an accepted clear the page
reads the chantier again and takes only its token (`TakeToken`).

The tracking is that of one line, whose key is in every solution.
`snapshot_token` (`id:strategy:chosen_at`) is `stamp`, the token of the upsert
that chose the solution; two choices with the same `chosen_at` are left out.
`TrackRead` is `update_line` up to its conditions, `TrackInsert` and
`TrackUpdate` its statement and commit, `TrackFails` the foreign key, the
uniqueness or the row count that make it a 503, and `TrackAnswer` the refresh
after the commit.

### Comparator, MaterialLines, ComparatorPage

One handler runs at a time; an action is a handler, or what is left of one
after an `await`.  In `Comparator`, `inflight` holds the comparisons asked with
the revision they were asked at and what they were asked for, `opening` the
`openChoiceConfirm` that await their GET, `put` the PUT in flight.  A solution is
the comparison it was computed in and its strategy.  A cart and an origin change
in one step there, with a new revision.

`MaterialLines` makes a cart of lines: a function from products to the quantity
typed, in thousandths, 0 for a blank field.  The first page of the catalogue is awaited
from the start, with the search field live: `FirstPageComes` replaces the products of
the page whatever was typed, found or added meanwhile, `FirstPageFails` leaves them.
`rows` are the lines the table shows, as it was rendered last.  A text typed is answered
by what is known, by what is remembered, or by the server some time later
(`SearchOnServer`, `SearchAnswers`, `SearchFails`); an answer is dropped when another
search was begun.  `ComparatorPage` adds how an origin is entered (four
kinds, an address for two of them, the coordinates of a chantier, the position
the browser gives later), the chantier the page is opened on, asked for
after the first page came (`Opened`) and loaded while the user may already edit
(`LoadFound`, `LoadMissing`, `LoadFails`), and the panel
that saves the cart as a new chantier.  Coordinates stand for the address they
are of.  `PageSpec` implements the specification of `Comparator` with the origin
the page shows as its origin (`PageImplementsComparator`), so that what is proved
of the one holds of the other.

### OfferCache

`row` holds the committed rows, `pending` what each session has flushed,
`lock` the sessions that hold them: READ COMMITTED, as PostgreSQL has it, where
a statement that meets a locked row waits and then works on the committed
values (`Seen`, `TakeRow`).  A price and a stock are stood for by the number of
the question that brought them, 0 for NULL, and expire when their number enters
`lapsed`; this is enough to say fresh, stale and older.  A comparison visits the
stores of its `route`: `Plan`, the lease of each stale reference (`ReadLease`,
then `UpdateLease` or `InsertLease`, or the `IntegrityError` of
`InsertLeaseFails`), `Query`, `Store` with an answer per reference, and
`NextStore` or `Finish`.  Leases are flushed, never committed on their own; what
the code does with an exception it expects, or does not, and what the rest of
the request then does with the session, are `Aborted`, `Unexpected` and `End`.
References are taken in any order, because Gedimat selects them without one.
The chunks of ten references Brico Dépôt asks together are one question,
`force_refresh`, which nothing in the application passes, is left out, and the
table of the store locator, with the same lease protocol, is not modelled apart.

### TourOrder, Optimiser, CompareRequest and ShoppingList

A search is sequential; what varies is what it is asked, so the initial states are
comparisons: a cart, the offers that answer it, the places of the agencies and the limit
of agencies.  `Line` is `_option` for one product: the best of the first of its four
pools (`Pool`: enough in stock, some in stock, delayed, on order) that has any, by
`LineRank`; `Basket` is the option.  The actions are the loop of `optimize`: `Start`,
`NextSubset` in the order of `combinations`, `TryThreshold` in increasing order with
`seen` (`seen_allocations`) and `routes` (`route_cache`), `Answer`; or `NoTour` and
`Refuse`, its early ends.  `candidates` is the list as a set, since `min` with these
ranks does not depend on its order.  `Path` is the table of Held and Karp, a function on
the sets of stops, whose rows the code fills in the order of their masks.  `tour = None`
is a strategy of materials alone.

Amounts are integers in a unit below the cent, and each part of a cost is
rounded half up by itself, as the code does (`Cent`).  A tax conversion is a
price already in the basis compared in, and `comparable` says whether there is
one.  The grid of `FakeRoutingService` is kept without its scaling by the
latitude and the rounding of its legs, and distances as the crow flies are
squared, which orders them alike.

`FamiliesAssumption` and `CaseOK` say what a comparison may be: a cart as
`CompareRequest` validates it, packs that hold something, an agency of one
supplier only.  `KeysApart` says that agencies of catalogues and live stores have
different numbers, which is what the namespace of `agency_key` is for
(`db:`, `gedimat:`, `bricodepot:`).  `Million` is the most a line may ask and what
an offer without a count is taken to have.  `None` is no value of anything else.

`CompareRequest` is the request up to that search: `Resolve` the origin and
`ReverseGeocode` its commune, `BuildLive` and `BuildCatalogues` in two readings
(`LiveConnectors`, `Replaced`), then one connector after the other, live ones
store by store (`AskBrico`, `AskGedimat`, `Locate`, `AskStore`), with the answers
a supplier may give.  `SetSupplierActive`, `SetCatalogActive` and `SyncStores`
come in between.  The cache under a live connector is that of `OfferCache`; here
a store asked gives any answer or none.

`ShoppingList` begins where a search has answered: `Retainable` are the
solutions it proposes, with the effort shown for an incomplete cart, `Snapshot`
what is stored of one, `BuildShoppingList` what the list shows of it,
`MakeLineKey` and `SnapshotLine` the key of a line and the line it finds again,
and `Ticked` the rows left by lines ticked on the page.  These are operators on
the state of `Optimiser`, with no variable of their own: the list is computed
at each request, and when its rows are written is in `Chantier`.
`LiveKey` is the namespace and identifier of each agency of a live store; the others
have the number of their row (`KeyOf`, `db_agency_key`), and `KeysAssumption` says that
no two live stores have one key and that none is of the namespace of rows.
`WithoutKeys` is a snapshot from before `agency_key`, which the code still reads.
The lines of a store are a set, since no property is about their order in it.

### SupplierCatalogue

`refs`, `offers` and `catalogs` are what is committed, `rowDraft` and `offerDraft`
what each session has flushed, and so locked, `seen` the references it loaded,
`plan` the products an import resolved beforehand.  A request is a transaction of
several statements: `Resolve` the lines of a file then write
them, `ReadRow` and `WriteRow` of an edit, a feed or a pass, `SelectOrphans`,
`DeleteOffers`, `SelectOffers` of a deletion, and `Commit` or `Fails` at any
point.  A statement that meets a locked row waits; a SELECT sees what is
committed; an UPDATE writes, by primary key, the columns that changed in the
session.  `BricoRow`, `GedimatRow`, `ImportedRow`, `PassedRows` and
`ReconciledRows` are what each writer makes of a row it loaded, with the
protections each has (`Protected`).  A price is the import it came from; prices
and taxes themselves, and rows by agency, are left out.

### Matching and MappingCampaign

`Matching` is `generic_matcher`: what a rule extracted from a reference against
the attributes of a product, on the identity keys, then on dimensions or on the
hierarchy; `BestMatch` over the candidates, `Conclude` its status.  What a rule
extracts from a designation is a constant function, so that the extractors may
be anything.  `MappingCampaign` goes through the families in order: `Seed` the products that the
references call for (by code, or by code and identity), `Apply` the exact matches if the
audit of them agrees, both again, then `Commit` or `Crash`.  A product has a family,
which is what the selectors of the matcher catch, and a category, which is what the seeds
look at, and a product made by hand may have one without the other.  `Candidates` are the
products of the matcher, completed by the rule (`Enrich`); `OnShelf` are those of a seed,
with their attributes as they are written; the audit reads them completed, or as written
for the profiles (`AsAudited`, `bare`).  Other commands attach Gedimat's references by
EAN, by rules, then to specific products, and `Reconcile` them with what Brico Dépôt's
references carry.  `Speaks` is what such a reference says of its product: the product's
own value where it has the key of the identity, and what was extracted of the reference
where the product holds it by another name (`Renamed`: the nominal length of a profile).
`Rounded` says where a nominal length differs from the one measured, which the matcher
then does not confirm.  Between two campaigns references are imported and
products are retired, made or attached by hand.

### Clustering and Discovery

The four passes of the clustering are one scheme with other terms and thresholds,
`Gathered`: each reference joins a seed in order, groups too small dissolve, what is
left goes on.  `Discovery` is the four reports: a first `Read`, `Analyse`, a `Check`
that gives up when a reference or its product changed (`Snapshot`: the references there
are, and their products), and, for `batch-consolidate`, its own reading around that of
`batch-discover` (`ReadOuter`, `CheckOuter`) with `Consolidated` between.  The figures
of a consolidated family are worked out of the rows of the outer reading (`Audited`),
its members and the total out of the inner one.  A designation is a sequence of words;
`Idf` is a table, as logarithms are.

### AdminPages

`wire` is the bag of the requests sent, each served in one step, or two where the server
reads twice (`ServeLoad`) or reads, checks and then writes without a lock (`ServePut`,
`ServeUnit`), and answered in any order; a request sent twice is there twice.  `Others`
attach and detach the same references.  A click is one action, up to the first `await`:
the bulk association reads the ticks of the file previewed or of the catalogue and asks
for the product of the code (`Bulk`), and goes on when the answer comes (`OnBulk`), in
the mode that the page has by then.  `PageAgrees` holds while an answer is awaited too,
since whoever asks for another page shows none until it comes.

## 3. The runs

| Run | Bounds | What it shows |
|---|---|---|
| `sync_overrun` | 2 processes, 3 items, batches of 2, every command line | with leases that run out under a working process and a job resumed before its creator took it, the checkpoint never passes a pending item |
| `sync_resume` | 3 processes, create and resume | without those two, one process at a time runs the job, counters and items agree, the job implements `SyncLedger`, and who runs it leaves it |
| `sync_retry_completes` | 2 processes | *violated*: `CompletedMeansSettled` |
| `chantier` | 2 pages, 2 lists, clock {1, 2}, tokens to 4 | no blind overwrite, a solution for the needs of the moment |
| `chantier_clear_race` | 2 pages | *violated*: `NoBlindOverwrite` |
| `comparator` | 2 products, 2 addresses, 2 chantiers, 3 searches, 3 revisions, 2 comparisons | results and what is sent are those of the cart and the origin on the screen; choices are of the text, before and after the first page comes; the button comes back |
| `optimiser` | up to 4 agencies, 4 products, 2 thresholds; 3 whole requests with 2 edits | a brand answers once and whole, what is bought is sold, each strategy is the best of all assignments on the best of all tours, and the shopping list of any solution retained is that solution, line by line |
| `cache` | 2 comparisons, 2 stores, 3 references, every route | one question at a time, no older answer over a newer one, leases given back, comparisons end |
| `catalogue` | 2 references, 2 products, 2 imports, a feed; 2 sessions, 4 requests of 12 | no offer outlives its catalogue, an import is whole, no file detaches, what was decided by hand stands |
| `mapping` | 3 references, 3 families, 10 sets of extractions, 2 campaigns, 2 edits | only the one fit is attached, a seed keeps the fit it can see, a second turn is idle, what is committed stands, a twin is carried |
| `admin` | 2 references, 2 products, pages of 1, 3 clicks, 4 requests in flight | the page number is that of the rows on the screen, and loading ends, while references move, pages empty and answers overtake each other |
| `discovery` | every table of 5 references over 7 designations, 2 changes | everything counted once, nothing lost between reports, a report issued is of now |

The bounds are constants.  `N`, `BatchSize`: three items make a full batch, a
short one and an empty one.  `MaxRetry`: one retry and the failure after it (one
attempt in `sync_overrun`).  `MaxAttempts` bounds how often an item fails,
which also hides that `--retry-errors` can select a failing item for ever.
`MaxToken`: four successive writes, with a clock that can repeat or go back
between any two.  `MaxVersion`: one insert and one update of a tracking row.
`MaxRevision` and `MaxAsked`: edits and two comparisons are what a late answer
and an answer out of order take; `MaxSearches` is three for the same reason, and
`Cap` makes a quantity blank, right or too large.  `MCComparatorPage` splits the
user in three, by `scope`: one that chooses solutions, on a page that is loaded; one that
enters origins while the first page and the chantier load; one that searches before
and after the first page and the chantier come; the last two edit within `FewRevisions`.
The three share no state beyond the revision and the cart, and each is given all that the
others do to those two.  `MaxBegun` in `cache`: a second comparison meets the
rows the first has left; in `catalogue`: two requests beside two that came
before.  `MaxEdits`, `MaxChanges`, `MaxClicks` bound what users do, `MaxWire`
what is sent and not answered, `PageSize` 1 makes two references two pages.
`Requested` and `Modes` name the requests and the command lines used.

`optimiser` has three families of comparisons (`MCOptimiser`).  `Stocks`: two
products, packs of one or two for a need of three, stocks that suffice or not,
delayed, uncertain and sold-out offers, offers without a rate, a national
catalogue, two thresholds of preparation and two references in one shop: what
the pools, the signatures and the thresholds must tell apart.  `Tours`: four
shops that are all visited, on every layout of a grid of three by two, which is
where Held and Karp's algorithm takes over from the permutations.  `Prices`:
three shops, near or far, with one price or the other for each product, and a
limit of two or three: one stop, two or three, or a refusal.  The reference
definitions go through every assignment of lines to agencies and every order of
the stops.  Beside them, `MCCompareRequest` has three whole requests: Gedimat
by its catalogue or its stores, Brico Dépôt, and both.  Two Gedimat stores with
one identifier are not among them.  `LiveKey` gives the stores of Gedimat and of
Brico Dépôt the numbers of agencies of the catalogues, under other namespaces,
so that a key by number alone would take one line for another.

`mapping` has a panel (seeded by codes, with flags that contradict), a bar (seeded by
identities, whose kind the rule completes and whose length has another name in the
products) and a family matched by a hierarchy of keys, with references of one identity,
of colliding codes, of one designation, and without what the rule asks for; one campaign
is strict, the other audits what is written.  `discovery` takes thresholds of two and
three where the code has five to forty, so that five references make seeds, pairs,
children and remainders; they are constants, and only their order matters.

What the properties leave out on purpose, with what the code does there:

* `OverrunAllowed` and `EarlyResume` (a lease that runs out during a batch; a job
  resumed before its creator took it: both let two processes run one job) are
  off in `sync_resume`; `ClearRaces` is on in `chantier_clear_race` alone.
* `BoughtAsSold` leaves out Brico Dépôt stores without coordinates, where a stock
  of zero counts as unlimited, and the references of two Gedimat stores that share
  one catalogue (`AnsweredOnce`): asked twice, it may answer twice, and a comparison
  then holds an offer of each answer where the cache keeps the second.
* A row loaded before it was leased, which `EarlyResume` makes, and a lease outlived
  are exercised in `sync_overrun` alone.
* `SeedKeepsTheFit` is about a fit the seed can see: in its category, with its identity
  written out.  `TwinIsCarried` does not ask a product for a key it holds by another name.
* `HandStands` speaks of a transaction that read the decision, and `ImportIsWhole`
  of the lines an import wrote: section 4 says what happens beside.

Deadlock is not checked: bounded runs stop, and an idle system waits for its
users.

Fairness.  `CatalogSync`: weak, on the steps of a process that was started; not
on launches, signals, crashes or the clock.  `Comparator`: weak, on each
comparison's answer or error, which `fetch` ends with.  `OfferCache`: strong, on
the steps of a comparison, since PostgreSQL serves the waiters of a row in their
order and breaks circles of them, and the clients have timeouts; leases, clocks,
exceptions and requests owe nothing.  `AdminPages`: weak, on serving and
delivering; a lost connection is left out there, since the pages have nothing
for it and would load for ever.

## 4. What was found

Two disagreements have a run and an entry under `findings`:

* `--retry-errors` on a job with pending items closes it as completed, and it
  cannot be resumed (`sync_retry_completes`).
* After a clear, the page takes the new token and keeps its old lines: its next
  save overwrites one accepted in between (`chantier_clear_race`).

The models show more, or were written around it.  These have no run; each names
the action or definition that does what the code does.

*Synchronisation.*  A SIGINT received before `run_job` starts is acknowledged and
forgotten (`Acquire`).  A lease that runs out during a batch, and a job resumed
between its creation and its first lease, let two processes run it (set
`OverrunAllowed` or `EarlyResume` in `sync_resume.cfg`).

*Chantiers.*  Two saves of a tracked line from the same version both succeed
(`TrackRead`, `TrackUpdate`).  The upsert keeps the row, and `update_line` finds its
line by its key, so that a line of the shopping list of a solution is tracked on the
solution retained since (`TrackRead`; `models/chantier.py:174-176` says the token keeps
the tracking of one solution off the lines of another: it keeps the rows apart, but a
request does not say which solution its page shows).  The first insert of a line by two
pages makes one of them a 503.  With quantities that are not whole, the page adds the
products and rounds their sum where the server adds rounded subtotals
(`BuildShoppingList`), so that the two totals may differ by cents.

*Comparator.*  A change of tax basis leaves the open confirmation in place, and the
solution is stored with the basis of the other comparison (`Submit`); toggled during a
comparison it is not compared again (`Toggle`).  Two choices whose GETs answer out of
order confirm one solution under the description of the other (`Choose`, `OpenConfirm`).
A late answer to a search redraws the select and may replace the product picked before
"Ajouter".  The first page, when it comes, forgets the products that a search brought
before it: the line of one of them already added is no longer rendered
(`materials.js:233-234`), its quantity can be neither seen nor changed, and it is still
sent (`FirstPageComes`, `rows`).  The answer that brings a chantier overwrites lines and
origin entered meanwhile (`LoadFound`).  Typing an address of the kind "other" drops the
coordinates of the chantier's site and the confirmation asked for (`TypeAddress`).
`syncChantierActions` enables the update button at any edit, while its PUT is pending: a
second PUT with the same token is then refused as somebody else's change.  The branch of
`resolveSaveAsDefaults` for a site with coordinates cannot be reached.

*Cache.*  A reference sold out after it had a price is asked again by every
comparison once that price has expired (`NeedsRefresh`).  The refresh lease,
flushed and not committed, is invisible until the end of `get_offers`, so that
who waited for the row is granted it and asks for what was just stored
(`UpdateLease`).

*Comparison.*  Of two partial offers, the one with more packs is taken, not the
one that supplies more (`Line`).  When Brico Dépôt's live connector fails softly
the file catalogue it stands for is left out too, so the brand has no offer
(`Replaced`, `AskBrico`).  An inactive row does not block a live connector when the
other name of the brand is active (`registry.py:39` says "Une fiche inactive bloque
ce fournisseur, quel que soit son nom.").  `GedimatConnector.__init__` asks for the
public page outside any `try`: when it does not answer, the whole comparison is an
error (`LiveFails`).  A brand is read twice, by the live connectors and by the
catalogues, and switched in between.  A Brico Dépôt store without coordinates
sells without limit what it has none of (`InStore`).  Of one SKU under both names
of the brand only the first product has an offer.  An unexpected error costs a
live connector what other stores had answered.

*Catalogues.* Two administrators move one reference, both unconfirmed, since the mapping
is read, checked and written without a lock (`ReadRow`, `WriteRow`;
`supplier_import.py:673` says it "n'est pas déplacée").  A line that changes nothing
takes no lock, so that its reference can be deleted under the import.  A deletion
deletes by primary key offers and references that have moved since it selected them
(`DeleteOffers`, `DeleteOrphans`).  A reference detached by hand is attached again by
the next pass, and one attached by hand after a pass selected it among the free ones is
written over (`ReadAll`, `PassedRows`).  An exact pass rewrites a conditioning of 1 set
by hand.  The stock is not counted again when a conditioning is corrected.  An import
resolves mappings before it writes: what was mapped and cleared in between is reverted,
and the update of changed columns may leave the source "manual" beside the quantity of a
file (`Update`).

*Mapping.*  `_code_from_pair` gives one code to two diameters (4.2 and 4.25, 2.4 and
24), so that the second identity never has a product (`Seed`).  A family seeded by codes
alone adds a second product beside one made by hand, and its references become
ambiguous; so does a family seeded by identities, when the hand-made product is in
another category than the seed looks at, or lacks an attribute that the rule completes
(`OnShelf`, `Missing`).  One hand-made profile without its kind, which the rule
completes and the audit of the profiles does not, leaves the whole family unapplied
(`AsAudited`, `AppliedIfClean`).  A Brico Dépôt profile attached by hand to a product of
another length carries Gedimat's twins of its own length to it (`Speaks`).  Whether a
reference is put under review or without a product depends on the order of its
candidates.  A contradiction found by one rule is forgotten when another proposes
(`Reconcile`; `gedimat_equivalents.py:5-6`).  Which Brico Dépôt reference carries an
identity depends on the order of a SELECT without one.  `run_mass_pass(apply=False)` and
the previews of `fastener_batch` commit their seeds.  A designation that changes leaves
its specific product behind.

*Reports.*  `batch-discover` passes no label cohesion and no shared words to the
test of a generic group that `discover` gives them to, so that the two may
disagree (`Generic`).  The consolidation keys families by name alone: one child
label under two parents loses the references of one, while the total counts them
(`ByName`, `TotalOf`).  A comment announces that references already in a primary
family are removed; none is.  An attribute-only component lists its primary as its
own attribute, and among equals the primary depends on the order of a set.  The
consolidation mixes two readings, and compares the first with what is there at its end: a
reference inserted after the first and deleted before the end may stay in the members
and the total of a family, and drops silently from its figures (`Merge`, `Audited`).

*Administration pages.*  The answer to a preview arms the import for a file chosen
since, which is then sent unpreviewed with the choices of the other (`OnPreview`,
`RunCommit`), and an explicit choice goes before the code of the file (`Imported`).  A
reference shown free, and so attached without confirmation, is taken from a product it
was given between the read and the write (`ServePut`).  Opening a catalogue throws the
choices of a preview away; a preview makes picks in the catalogue panel shown and not
saved.  The suppliers page always confirms a move (`Confirms`).  The bulk association
takes the first product found when the code typed is not one, though
`admin_fournisseurs.html:176-181` says "Aucune association n’est créée sans action
explicite"; it sends two requests per reference, waits for none and ignores their errors
(`Bulk`).  Late answers replace newer ones, and the product page may show another
product than its address.  The unit of a product may change between the test that no
chantier uses it and the write (`EditUnit`; `repositories/catalog.py:81`).  Pages of
unmapped references shift while they are mapped.

## 5. The proofs

TLAPS checks the theorems below for every value of the constants that satisfies
their named assumptions (any number of processes, items, pages, comparisons,
references, families, messages, edits; any clock, any table of extractions, any
thresholds).

* `Catalogues_proofs`, of `CatalogSync`.  `SyncTypeCorrect`.  `CheckpointNeverSkips`:
  the checkpoint alone is not inductive, because a process writes later what it holds
  now.  `CheckpointInv` adds that items leave "pending" in the order of their positions,
  that no snapshot is ahead of the items, and that the batch in hand leaves nothing
  pending behind it; it holds with overrun leases too.  `LeaseExcludes`, under `~
  OverrunAllowed` and `~ EarlyResume`: who runs the job owns a live lease, and the
  creator that still holds the row it loaded is alone (`LeaseInv`).  `CountersAgree`,
  under the same two: the counters are in the row and the sums in the items, and a batch
  writes both from what one process holds, so that the row in its session has to be the
  row of the base; the lemmas on cardinalities say what one batch adds to each count.
  `SyncImplementsLedger`, without "retry" in `Modes` besides: every step of `SyncSpec`
  is a step of `SyncLedger` or a stutter.  `LedgerInv` says what the one process that
  runs the job knows of it: the row it holds is the row of the base, its batch is not
  settled, and when it found nothing left every item is processed; with `job.failed`
  zero none failed, so the job it closes is settled.  The order of the batches comes
  from `CheckpointInv`.
* `ChantierPages_proofs`, of `Chantier`.  `ChantierTypeCorrect`.
  `MatchingTokenIsCurrent` from `SeenInv`: no page has a token of the future, so a new
  token is never one a page has.  `RetainedForCurrentNeeds` from   `CheckedInv`: what
  was checked is still so if the token still matches.  `NothingOverwrittenUnseen` is the
  action property that follows from `SeenInv`.  The two on tokens assume `~ ClearRaces`
  where they need it.
* `ChantierPages_proofs`, of `Comparator`: `TypeCorrect`, `ResultsAreCurrent` and
  `SolutionSentForItsNeeds`, from `ComparatorInv`: a comparison asked at the
  revision of now is of the cart and the origin of now, and so is the pending
  choice.  Of the whole page: `PageImplementsComparator`, every behaviour of the
  page is one of `Comparator`, each handler mapping to one of its actions or to a
  stutter; `PageResultsAreCurrent` and `PageSendsForItsNeeds` follow.
  `OriginEntered`: the origin is the one on the screen, because everything it is
  read from is followed by an invalidation.  `ChoicesOfTheText`: a search still
  awaited of the present generation is of the text in the field, and the first page, when
  it comes, is rendered for the text of then; what is shown may be taken of any text
  only where the text names it or the server found it, among the products known
  (`FirstPageKeepsLines`).
* `OfferCache_proofs`.  `TypeCorrect`; `FetchesExclude`, `LeasesAreReturned` and
  `PricesNeverGoBack` from `CacheInv`: a pending row is locked by its session, is
  between the committed one and the question awaited, and has a lease only while
  its reference is won.
* `Catalogues_proofs`, of `SupplierCatalogue`.  `NoOfferOutlivesItsCatalogue`, from `OfferInv`:
  only an import drafts offers, of a catalogue that nobody else is about and that
  is absent until it commits (`OwnerInv`, `DraftInv`); a deletion, whose catalogue
  is no longer absent, has therefore found, then deleted, every offer it will ever
  have (`DeleteInv`).  Of the rows: `TypeCorrect`, `FilesDetachNothing` and
  `HandDecisionsStand` from `RowInv`: who has drafted a row has it locked, so the
  row others committed before is still the one beside the draft (`Faithful`) when
  the draft is committed over it.  `ImportsAreWhole` from `ImportInv`: from the
  first line an import writes, each line behind it has an offer drafted, and a
  drafted offer keeps a deletion from taking its reference away.
* `MappingCampaign_proofs`, under `DataAssumption` (the tables have their types),
  `EnrichAssumption` (the rules whose seeds look at identities complete what a product
  lacks and change nothing it has) and `CodesAssumption` (a short code of a specific
  product is a digest and may collide; long codes tell designations apart, and no seed
  makes either).  `SecondTurnIdles`, `SpecificGoByText`, `CampaignsAttachTheOnlyFit`,
  `SeedsKeepFits`, `CommittedMappingsStand`, `TwinsAreCarried`, all from
  `CampaignInvariant`: the products and the mapping, in the transaction and as
  committed, are well formed (`ShelfOK`), the product of a specific reference carries
  its designation under its short code or its long one (`SpecificOK`), what a command
  found attached is still where it was (`StillStands`), and the family in hand, once
  seeded, misses no product, and, once applied, has no exact match left (`NothingLeft`),
  which is what the second turn finds.
* `Discovery_proofs`, under `DataAssumption`.  `ReferencesCountedOnce`: each pass of the
  clustering takes what it groups from what was left (the lemmas on `Gathered`), so that
  groups, remainder and categories are a partition, and so are the children of a group;
  no induction is needed on the passes, which are four.  `ConsolidationLosesNone`: the
  families of a model are the components of a graph, which cover its candidates
  whichever root is taken first, and those that have one name are one family in the
  total.  `IssuedReportsAreCurrent`: a report issued is about the references there are
  then.  Those of `discover` are in it, all of them and no other; a family of
  `batch-discover` holds none that is gone and calls none free that is mapped; the
  figures of a consolidated family are about those of its members that are there.  The
  invariant keeps which part of a report is of which reading: what `batch-discover`
  found is about the rows it read (`FamiliesOK`), the figures about those that
  `batch-consolidate` read itself (`AuditOK`).
* `AdminPages_proofs`, under `DataAssumption`.  `PageOnScreenAgrees`: the number in an
  answer is clamped to the pages it counts (`Numbered`), the page takes that number with
  the rows (`OnScreen`), and whoever asks for another page shows none until it comes.
  `TypeCorrect` comes from the same invariant: types of the page, of the messages on their
  way (`WireOK`) and of the bag they are in.  TLC checked the invariant on the instance of
  `admin` first.

* `TourOrder_proofs`, for any layout of finitely many stops.  `ShortestTourIs`: the
  permutations and the table of Held and Karp give the same tour, the least of all
  orders by time, then distance, then keys, and it is best by time and by distance at
  once.  Each path of the table is the first of those through its stops to its last
  (`PathsAreFirst`): a first path is a first path to the stop before and one leg more,
  because paths that go on from one stop to another keep their order
  (`RankAppend`), ties included, which is what the code's comparison of tuples needs.
  Time and distance could disagree, since a leg between two stops of one place saves
  its two minutes; a best order visits such stops one after the other
  (`BestWithTwin`).  `TourShrinks`: a tour of fewer stops is not longer.
* `CompareRequest_proofs`, for any cases that satisfy `CaseOK`, and with `TourOrder`
  behind them.  `RequestTypeCorrect`: the types of what is asked, found and collected
  while stores answer anything and others edit the catalogues (`RequestTypeOK`).
  `EachBrandIsCompared`, with `BrandsOK`: which brands have answered and which are still
  to ask, in `todo`.  `OptimisedBasketIsBest`, with `OptionsOK`: the best line of more
  offers is bought whole where that of fewer is, and no dearer.  `SoldAsTold`, with
  `TellingOK`: each offer of a live store came with the row it was read from, and where
  two disagree it is one of them that the row says.  `StrategiesAreBest`: each strategy
  costs no more than any assignment of its kind, whatever the offers, the places and the
  limit.  The search tries subsets of agencies within thresholds of preparation, buys
  one basket for each, and skips a basket whose signature it has seen.  Its invariant
  says that every subset before the present one was tried within every threshold
  (`TriedOK`; `Following` is the next subset in the order of sizes, of which none is
  passed over); that the candidates are complete baskets with their shortest tours
  (`SearchOK`); and that offers of one product, agency and reference are prepared in the
  same time (`TwinsOK`, from `HomesOK`), without which the signature, that does not hold
  the preparation, would lose a cheaper basket.  Then the basket of the agencies and the
  preparation of an assignment costs no more than it (`WithinCheapest`): its materials
  are no dearer, and its agencies, fewer perhaps, make a tour that is not longer.
  `RetainedIsListed`, with `KeysAssumption`: whatever solution is retained, its list is
  that solution.  `SolutionOK` says what can be retained (`RetainableIs`, from
  `SearchOK`), and `Kept` what a snapshot of it holds, with the agency keys or without
  them where every agency has a row (`SnapshotIsKept`, `WithoutKeysIsKept`).  From
  `Kept`, each key of a line is read back as the agency and the product it was made of,
  so that no other line is found with it (`KeyIsRead`, `LineIsFound`); the stores are
  the stops and nothing else (`OrderedKeysAre`, `StoresAre`); the minutes of the last
  leg to each and of the way back are those of the tour (`MinutesAre`); and the
  subtotals, a sum by parts, are the total (`TotalByParts`).  Each line ticked differs
  by no more than half a cent per pack and half a cent of its own (`RoundingOfPacks`),
  and so do their sums.

The folds and recursive functions these need (`SumFunction`, `SetToSeqs`, `Path`) are
unfolded through the functions that define them, and induction is over sets of naturals
(`Induction`, from the least member of what is left) or over the parts of a finite set
(`GrowTo`), since the library's induction theorems take an operator.

Only model-checked: the liveness properties (`RunTerminates`, `ButtonReturns`,
`ComparisonsEnd`, `LoadEnds`: fairness and ENABLED are out of the prover's reach).  Every
invariant and every action property of the passing runs is stated by a theorem.

## 6. Not modelled, and the plan

Not modelled: the clients of the suppliers and the extractors of the product
mapping, which are I/O and text processing (an answer or a failure, any function,
where they are called); start-up, whose migrations are additive and run once; the
probes, which print.

Left out of what is modelled: the conversions of taxes and units, the explanations;
the demonstration connectors; quantities typed in the shopping list other than
whole packs; prices and taxes of references and
their rows by agency in `SupplierCatalogue`; the persistence of proposals and
features, the groups by SKU and the limits of `product_mapping`; a campaign
together with concurrent edits (its transactions are in `SupplierCatalogue`, its
decisions in `MappingCampaign`); the order and the wording of the reports; lists,
dialogs and the creation of products in the administration pages; the update of
the chantier a comparator page is opened on, which is in `Chantier`, not in
`ComparatorPage`; the edits of the chantier page during a save; the store
locator's own lease.

Worth doing next: an abstract register with compare-and-swap, which the needs of
`Chantier` implement, and the extractors of the product mapping.
