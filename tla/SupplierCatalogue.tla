--------------------------- MODULE SupplierCatalogue ---------------------------
(***************************************************************************)
(* The references of a supplier, their mapping to the products of the      *)
(* catalogue and their offers, under everything that writes them: the CSV  *)
(* import, the edits of the administration pages and the deletion of a     *)
(* catalogue (services/supplier_import.py), the catalogue feeds            *)
(* (bricodepot_catalog_import.py, gedimat_catalog_import.py) and the       *)
(* mapping passes (gedimat_mapping.py, product_mapping/).                  *)
(*                                                                         *)
(* A request is one transaction of one session.  PostgreSQL runs it READ   *)
(* COMMITTED: a SELECT sees what is committed, a row that was written      *)
(* stays locked until the end, and nothing else is held.  The ORM writes   *)
(* the columns that differ from those it loaded, by primary key, over      *)
(* whatever the row has become.                                            *)
(***************************************************************************)
EXTENDS Naturals

CONSTANTS
    Refs,        \* references of one supplier
    Products,
    Quantities,  \* what a pack of a reference may hold
    Imports,     \* the ids of the catalogues that files create
    Feeds,       \* the ids of the row of the supplier's own catalogue
    Sessions,
    Requests,    \* what may be asked
    None,
    NoRow,       \* in the place of a row that is not there
    Untouched,   \* of one a session has not written
    Unread,      \* of one it has not loaded
    MaxBegun     \* bound on the requests served

Catalogs == Imports \cup Feeds

\* correction_source
ProtectedByRuleOnly == {"exact_rule", "specific", "ean", "equiv"}
Protected == {"manual", "exact_rule", "specific", "ean", "equiv"}
Sources == Protected \cup {"import"}

\* A reference; quantity is its conditioning, intro the catalogue that brought it.
Rows == [product : Products \cup {None}, source : Sources \cup {None},
         quantity : Quantities, intro : Catalogs \cup {None}]

\* Its offer in one agency; packed is the conditioning its stock was counted in.
Offers == [catalog : Catalogs, packed : Quantities]

Lines == [code : Products \cup {None}, quantity : Quantities, priced : BOOLEAN]
Files == UNION {[R -> Lines] : R \in SUBSET Refs}
Choices == UNION {[R -> Products \cup {None}] : R \in SUBSET Refs}

AllRequests ==
    [kind : {"import"}, file : Files, chosen : Choices]
    \cup [kind : {"brico", "gedimat"}, file : Files]
    \cup [kind : {"map"}, ref : Refs, product : Products \cup {None}, confirm : BOOLEAN]
    \cup [kind : {"correct"}, ref : Refs, quantity : Quantities]
    \cup [kind : {"clear"}, ref : Refs]
    \cup [kind : {"delete"}, catalog : Catalogs]
    \cup [kind : {"pass"}, source : {"ean", "exact_rule", "specific"}]
    \cup [kind : {"reconcile"}]

ASSUME RequestsAssumption == Requests \subseteq AllRequests
ASSUME CatalogsAssumption == Imports \cap Feeds = {}
ASSUME NoneAssumption ==
    /\ None \notin Products \cup Catalogs
    /\ None \notin Sources /\ None \notin Requests
ASSUME RowsAssumption ==
    /\ NoRow \notin Rows \cup Offers /\ NoRow # Untouched /\ NoRow # Unread
    /\ Untouched \notin Rows \cup Offers
    /\ Unread \notin Rows
ASSUME QuantitiesAssumption == 1 \in Quantities
ASSUME MaxBegunAssumption == MaxBegun \in Nat

VARIABLES
    refs, offers,      \* the committed rows
    catalogs,          \* "none", "present" or "deleted"
    op,                \* the request a session serves
    at,                \* where it is
    todo,              \* the references it has still to go through
    seen,              \* the references it has loaded
    plan,              \* the products an import has resolved
    mine,              \* the catalogue it is about
    rowDraft,          \* what it has flushed and not committed
    offerDraft,
    begun

tables == <<refs, offers, catalogs>>
session == <<op, at, todo, seen, plan, mine, rowDraft, offerDraft>>
vars == <<tables, session, begun>>

Phases == {"idle", "resolve", "read", "write", "select offers", "delete offers",
           "select refs", "delete refs", "unlink", "commit"}

TypeOK ==
    /\ refs \in [Refs -> Rows \cup {NoRow}]
    /\ offers \in [Refs -> Offers \cup {NoRow}]
    /\ catalogs \in [Catalogs -> {"none", "present", "deleted"}]
    /\ op \in [Sessions -> Requests \cup {None}]
    /\ at \in [Sessions -> Phases]
    /\ todo \in [Sessions -> SUBSET Refs]
    /\ seen \in [Sessions -> [Refs -> Rows \cup {NoRow, Unread}]]
    /\ plan \in [Sessions -> [Refs -> Products \cup {None}]]
    /\ mine \in [Sessions -> Catalogs \cup {None}]
    /\ rowDraft \in [Sessions -> [Refs -> Rows \cup {NoRow, Untouched}]]
    /\ offerDraft \in [Sessions -> [Refs -> Offers \cup {NoRow, Untouched}]]
    /\ begun \in 0..MaxBegun

Init ==
    /\ refs = [r \in Refs |-> NoRow]
    /\ offers = [r \in Refs |-> NoRow]
    /\ catalogs = [c \in Catalogs |-> "none"]
    /\ op = [s \in Sessions |-> None]
    /\ at = [s \in Sessions |-> "idle"]
    /\ todo = [s \in Sessions |-> {}]
    /\ seen = [s \in Sessions |-> [r \in Refs |-> Unread]]
    /\ plan = [s \in Sessions |-> [r \in Refs |-> None]]
    /\ mine = [s \in Sessions |-> None]
    /\ rowDraft = [s \in Sessions |-> [r \in Refs |-> Untouched]]
    /\ offerDraft = [s \in Sessions |-> [r \in Refs |-> Untouched]]
    /\ begun = 0

-----------------------------------------------------------------------------
(* The database as a session sees it *)

\* What a SELECT of session s returns: its own flushed rows, else the committed ones.
RowFor(s, r) == IF rowDraft[s][r] = Untouched THEN refs[r] ELSE rowDraft[s][r]
OfferFor(s, r) == IF offerDraft[s][r] = Untouched THEN offers[r] ELSE offerDraft[s][r]

\* No other session holds the row.
RowFree(s, r) == \A t \in Sessions \ {s} : rowDraft[t][r] = Untouched
OfferFree(s, r) == \A t \in Sessions \ {s} : offerDraft[t][r] = Untouched

\* An UPDATE of the columns the session has changed, over the row as it is now.
Update(now, loaded, wanted) ==
    [product  |-> IF wanted.product = loaded.product THEN now.product ELSE wanted.product,
     source   |-> IF wanted.source = loaded.source THEN now.source ELSE wanted.source,
     quantity |-> IF wanted.quantity = loaded.quantity THEN now.quantity ELSE wanted.quantity,
     intro    |-> IF wanted.intro = loaded.intro THEN now.intro ELSE wanted.intro]

\* Session s flushes row as the reference r it loaded.  A reference that another has
\* created or deleted since makes the statement fail (see Fails).
Flushed(s, r, row) ==
    IF row = seen[s][r] THEN rowDraft' = rowDraft
    ELSE /\ RowFree(s, r)
         /\ (seen[s][r] = NoRow) <=> (RowFor(s, r) = NoRow)
         /\ rowDraft' = [rowDraft EXCEPT ![s][r] =
                IF seen[s][r] = NoRow THEN row
                ELSE Update(RowFor(s, r), seen[s][r], row)]

Idle(s) ==
    /\ op' = [op EXCEPT ![s] = None]
    /\ at' = [at EXCEPT ![s] = "idle"]
    /\ todo' = [todo EXCEPT ![s] = {}]
    /\ seen' = [seen EXCEPT ![s] = [r \in Refs |-> Unread]]
    /\ plan' = [plan EXCEPT ![s] = [r \in Refs |-> None]]
    /\ mine' = [mine EXCEPT ![s] = None]
    /\ rowDraft' = [rowDraft EXCEPT ![s] = [r \in Refs |-> Untouched]]
    /\ offerDraft' = [offerDraft EXCEPT ![s] = [r \in Refs |-> Untouched]]

-----------------------------------------------------------------------------
(* Requests *)

Begin(s, request, phase, catalog, which) ==
    /\ at[s] = "idle"
    /\ begun < MaxBegun
    /\ begun' = begun + 1
    /\ op' = [op EXCEPT ![s] = request]
    /\ at' = [at EXCEPT ![s] = phase]
    /\ mine' = [mine EXCEPT ![s] = catalog]
    /\ todo' = [todo EXCEPT ![s] = which]
    /\ UNCHANGED <<tables, seen, plan, rowDraft, offerDraft>>

Fresh(c) == catalogs[c] = "none" /\ \A t \in Sessions : mine[t] # c

\* import_file: a valid file; its catalogue is inserted with a key of its own.
BeginImport(s, q) ==
    /\ q.kind = "import"
    /\ \E c \in Imports : Fresh(c) /\ Begin(s, q, "resolve", c, DOMAIN q.file)

\* The feeds keep one catalogue, found by its key or inserted again.
BeginFeed(s, q) ==
    /\ q.kind \in {"brico", "gedimat"}
    /\ \E c \in Feeds :
         /\ \/ catalogs[c] = "present"
            \/ Fresh(c) /\ \A d \in Feeds : catalogs[d] # "present"
         /\ Begin(s, q, "read", c, DOMAIN q.file)

\* set_supplier_product_mapping, update_supplier_product_conditioning,
\* clear_conditioning_override.
BeginEdit(s, q) ==
    /\ q.kind \in {"map", "correct", "clear"}
    /\ Begin(s, q, "read", None, {q.ref})

\* attach_by_ean, apply_exact_for_rule, attach_specific; reconcile_gedimat.
BeginPass(s, q) ==
    /\ q.kind \in {"pass", "reconcile"}
    /\ Begin(s, q, "read", None, Refs)

\* delete_catalog, confirmed, of a catalogue that is not the demonstration one.
BeginDelete(s, q) ==
    /\ q.kind = "delete"
    /\ catalogs[q.catalog] = "present"
    /\ Begin(s, q, "select offers", q.catalog, {})

\* _resolve_mappings and _apply_explicit_mappings, before any row is written: what
\* the page chose, else the code of the file, else the mapping of the moment.
Resolve(s) ==
    /\ at[s] = "resolve"
    /\ plan' = [plan EXCEPT ![s] = [r \in Refs |->
           IF r \in DOMAIN op[s].chosen THEN op[s].chosen[r]
           ELSE IF r \notin todo[s] THEN None
           ELSE IF op[s].file[r].code # None THEN op[s].file[r].code
           ELSE IF refs[r] # NoRow THEN refs[r].product ELSE None]]
    /\ at' = [at EXCEPT ![s] = "read"]
    /\ UNCHANGED <<tables, op, todo, seen, mine, rowDraft, offerDraft, begun>>

\* The import and the Brico Depot feed load a reference when its turn comes.
Stepwise(s) == op[s].kind \in {"import", "brico", "map", "correct", "clear"}

\* An import stamps its key on the supplier before each row: it holds that row too.
HoldsSupplier(s) ==
    op[s] # None /\ op[s].kind = "import" /\ \E r \in Refs : seen[s][r] # Unread

ReadRow(s, r) ==
    /\ at[s] = "read" /\ Stepwise(s) /\ r \in todo[s]
    /\ op[s].kind = "import" => \A t \in Sessions \ {s} : ~ HoldsSupplier(t)
    /\ seen' = [seen EXCEPT ![s][r] = RowFor(s, r)]
    /\ at' = [at EXCEPT ![s] = "write"]
    /\ UNCHANGED <<tables, op, todo, plan, mine, rowDraft, offerDraft, begun>>

\* What a pass selects: the references without a product, or those attached by
\* their own designation.
Wanted(s, r) ==
    CASE op[s].kind = "gedimat" -> r \in todo[s]
      [] op[s].kind = "pass" -> refs[r] # NoRow /\ refs[r].product = None
      [] op[s].kind = "reconcile" -> refs[r] # NoRow /\ refs[r].source = "specific"
                                        /\ refs[r].product # None
      [] OTHER -> FALSE

\* The Gedimat feed and the passes load all their references first.
ReadAll(s) ==
    /\ at[s] = "read" /\ ~ Stepwise(s)
    /\ LET R == {r \in Refs : Wanted(s, r)}
       IN  /\ seen' = [seen EXCEPT ![s] = [r \in Refs |->
                           IF r \in R THEN refs[r] ELSE Unread]]
           /\ todo' = [todo EXCEPT ![s] = R]
           /\ at' = [at EXCEPT ![s] = IF R = {} THEN "commit" ELSE "write"]
    /\ UNCHANGED <<tables, op, plan, mine, rowDraft, offerDraft, begun>>

-----------------------------------------------------------------------------
(* What each of them makes of a reference it loaded *)

NewRow(product, quantity, catalog) ==
    [product |-> product, source |-> "import", quantity |-> quantity, intro |-> catalog]

\* _upsert_row
ImportedRowAlwaysMapped(s, r, row) ==
    IF row = NoRow THEN NewRow(plan[s][r], op[s].file[r].quantity, mine[s])
    ELSE IF row.source \in Protected THEN row
    ELSE [row EXCEPT !.product = plan[s][r],
                     !.quantity = op[s].file[r].quantity,
                     !.source = "import"]
ImportedRow(s, r, row) ==
    LET line == op[s].file[r]
        decided == r \in DOMAIN op[s].chosen \/ plan[s][r] # None
    IN  IF row = NoRow THEN NewRow(plan[s][r], line.quantity, mine[s])
        ELSE IF row.source \in Protected THEN row
        ELSE [row EXCEPT !.product = IF decided THEN plan[s][r] ELSE @,
                         !.quantity = line.quantity,
                         !.source = "import"]

Linked(s, row) == [row EXCEPT !.intro = IF @ = None THEN mine[s] ELSE @]

\* effective_ref_qty: the conditioning the stock of the offer is counted in.
StockedInFile(s, r, row) == op[s].file[r].quantity
StockedIn(s, r, row) == row.quantity

\* upsert_supplier_product
BricoRow(s, row) ==
    IF row = NoRow THEN NewRow(None, 1, mine[s])
    ELSE Linked(s, [row EXCEPT !.source = IF @ \in Protected THEN @ ELSE "import"])

\* import_gedimat_catalog, _apply_update
GedimatRow(s, r, row) ==
    IF row = NoRow THEN NewRow(None, op[s].file[r].quantity, mine[s])
    ELSE Linked(s, [row EXCEPT !.quantity =
                        IF row.source \in Protected THEN @ ELSE op[s].file[r].quantity])

\* What a pass may find: nothing, or a product.  Only apply_exact_for_rule touches
\* the conditioning, and only one that says a single unit (resolve_reference_quantity).
PassedRows(s, row) ==
    {row} \cup UNION {{[row EXCEPT !.product = p, !.source = op[s].source, !.quantity = n] :
                       n \in IF op[s].source = "exact_rule" /\ row.quantity = 1
                             THEN Quantities ELSE {row.quantity}} : p \in Products}

\* reconcile_gedimat
ReconciledRows(row) ==
    {row} \cup {[row EXCEPT !.product = p, !.source = "equiv"] :
                 p \in Products \ {row.product}}

EditedRow(s, row) ==
    CASE op[s].kind = "map" -> [row EXCEPT !.product = op[s].product, !.source = "manual"]
      [] op[s].kind = "correct" -> [row EXCEPT !.quantity = op[s].quantity,
                                               !.source = "manual"]
      [] OTHER -> [row EXCEPT !.source = None]

\* The 404 of an unknown reference, the 409 of a move that is not confirmed.
Refused(s, row) ==
    \/ row = NoRow
    \/ /\ row # NoRow /\ op[s].kind = "map"
       /\ op[s].product # None /\ row.product \notin {None, op[s].product}
       /\ ~ op[s].confirm

Next1(s, r) ==
    /\ todo' = [todo EXCEPT ![s] = @ \ {r}]
    /\ at' = [at EXCEPT ![s] = IF todo[s] = {r} THEN "commit"
                               ELSE IF Stepwise(s) THEN "read" ELSE "write"]

\* The row of the import, then its offer, whose stock is counted in the conditioning
\* the session holds for the reference.
WriteImported(s, r) ==
    /\ at[s] = "write" /\ op[s].kind = "import"
    /\ r \in todo[s] /\ seen[s][r] # Unread
    /\ LET row == ImportedRow(s, r, seen[s][r])
       IN  /\ Flushed(s, r, row)
           /\ IF ~ op[s].file[r].priced THEN offerDraft' = offerDraft
              ELSE /\ OfferFree(s, r)
                   /\ RowFor(s, r) # NoRow \/ seen[s][r] = NoRow
                   /\ \A t \in Sessions \ {s} : rowDraft[t][r] # NoRow
                   /\ offerDraft' = [offerDraft EXCEPT ![s][r] =
                          [catalog |-> mine[s], packed |-> StockedIn(s, r, row)]]
    /\ Next1(s, r)
    /\ UNCHANGED <<tables, op, seen, plan, mine, begun>>

WriteRow(s, r) ==
    /\ at[s] = "write" /\ op[s].kind # "import"
    /\ r \in todo[s] /\ seen[s][r] # Unread
    /\ \/ op[s].kind = "brico" /\ Flushed(s, r, BricoRow(s, seen[s][r]))
       \/ op[s].kind = "gedimat" /\ Flushed(s, r, GedimatRow(s, r, seen[s][r]))
       \/ /\ op[s].kind = "pass"
          /\ \E row \in PassedRows(s, seen[s][r]) : Flushed(s, r, row)
       \/ /\ op[s].kind = "reconcile"
          /\ \E row \in ReconciledRows(seen[s][r]) : Flushed(s, r, row)
       \/ /\ op[s].kind \in {"map", "correct", "clear"}
          /\ ~ Refused(s, seen[s][r])
          /\ Flushed(s, r, EditedRow(s, seen[s][r]))
    /\ Next1(s, r)
    /\ UNCHANGED <<tables, op, seen, plan, mine, offerDraft, begun>>

Refuse(s) ==
    /\ at[s] = "write" /\ op[s].kind \in {"map", "correct", "clear"}
    /\ Refused(s, seen[s][op[s].ref])
    /\ Idle(s)
    /\ UNCHANGED <<tables, begun>>

-----------------------------------------------------------------------------
(* delete_catalog *)

SelectOffersOfUnmapped(s) ==
    /\ at[s] = "select offers"
    /\ todo' = [todo EXCEPT ![s] =
           {r \in Refs : /\ offers[r] # NoRow /\ offers[r].catalog = mine[s]
                         /\ refs[r].product = None}]
    /\ at' = [at EXCEPT ![s] = "delete offers"]
    /\ UNCHANGED <<tables, op, seen, plan, mine, rowDraft, offerDraft, begun>>
SelectOffers(s) ==
    /\ at[s] = "select offers"
    /\ todo' = [todo EXCEPT ![s] =
           {r \in Refs : offers[r] # NoRow /\ offers[r].catalog = mine[s]}]
    /\ at' = [at EXCEPT ![s] = "delete offers"]
    /\ UNCHANGED <<tables, op, seen, plan, mine, rowDraft, offerDraft, begun>>

\* By primary key: whatever the offer has become, or nothing if it is gone.
DeleteOffers(s) ==
    /\ at[s] = "delete offers"
    /\ \A r \in todo[s] : OfferFree(s, r)
    /\ offerDraft' = [offerDraft EXCEPT ![s] = [r \in Refs |->
           IF r \in todo[s] /\ offers[r] # NoRow THEN NoRow ELSE @[r]]]
    /\ at' = [at EXCEPT ![s] = "select refs"]
    /\ UNCHANGED <<tables, op, todo, seen, plan, mine, rowDraft, begun>>

Introduced(s, r) == RowFor(s, r) # NoRow /\ RowFor(s, r).intro = mine[s]

SelectOrphans(s) ==
    /\ at[s] = "select refs"
    /\ LET R == {r \in Refs : /\ Introduced(s, r) /\ refs[r].product = None
                              /\ OfferFor(s, r) = NoRow}
       IN  /\ todo' = [todo EXCEPT ![s] = R]
           /\ seen' = [seen EXCEPT ![s] = [r \in Refs |->
                           IF r \in R THEN refs[r] ELSE Unread]]
    /\ at' = [at EXCEPT ![s] = "delete refs"]
    /\ UNCHANGED <<tables, op, plan, mine, rowDraft, offerDraft, begun>>

\* The foreign key of the offers waits for one being inserted, and fails on one that
\* is there by now (see Fails).
DeleteOrphans(s) ==
    /\ at[s] = "delete refs"
    /\ \A r \in todo[s] : /\ RowFree(s, r) /\ OfferFree(s, r)
                          /\ OfferFor(s, r) = NoRow
    /\ rowDraft' = [rowDraft EXCEPT ![s] = [r \in Refs |->
           IF r \in todo[s] /\ refs[r] # NoRow THEN NoRow ELSE @[r]]]
    /\ at' = [at EXCEPT ![s] = "unlink"]
    /\ UNCHANGED <<tables, op, todo, seen, plan, mine, offerDraft, begun>>

Unlink(s) ==
    /\ at[s] = "unlink"
    /\ \A r \in Refs : Introduced(s, r) => RowFree(s, r)
    /\ seen' = [seen EXCEPT ![s] = [r \in Refs |->
           IF Introduced(s, r) THEN RowFor(s, r) ELSE @[r]]]
    /\ rowDraft' = [rowDraft EXCEPT ![s] = [r \in Refs |->
           IF Introduced(s, r) THEN [RowFor(s, r) EXCEPT !.intro = None] ELSE @[r]]]
    /\ at' = [at EXCEPT ![s] = "commit"]
    /\ UNCHANGED <<tables, op, todo, plan, mine, offerDraft, begun>>

-----------------------------------------------------------------------------
(* The end of a transaction *)

Commit(s) ==
    /\ at[s] = "commit"
    /\ refs' = [r \in Refs |-> RowFor(s, r)]
    /\ offers' = [r \in Refs |-> OfferFor(s, r)]
    /\ catalogs' = [c \in Catalogs |->
           IF c # mine[s] THEN catalogs[c]
           ELSE IF op[s].kind = "delete" THEN "deleted"
           ELSE IF catalogs[c] = "none" THEN "present" ELSE catalogs[c]]
    /\ Idle(s)
    /\ UNCHANGED begun

\* A constraint, a statement that finds no row, a victim of a deadlock, a lost
\* connection or the death of the process: the transaction is rolled back.
Fails(s) ==
    /\ at[s] # "idle"
    /\ Idle(s)
    /\ UNCHANGED <<tables, begun>>

Next ==
    \E s \in Sessions :
        \/ \E q \in Requests :
             \/ BeginImport(s, q) \/ BeginFeed(s, q) \/ BeginEdit(s, q)
             \/ BeginPass(s, q) \/ BeginDelete(s, q)
        \/ Resolve(s) \/ ReadAll(s)
        \/ \E r \in Refs : ReadRow(s, r) \/ WriteImported(s, r) \/ WriteRow(s, r)
        \/ Refuse(s)
        \/ SelectOffers(s) \/ DeleteOffers(s) \/ SelectOrphans(s)
        \/ DeleteOrphans(s) \/ Unlink(s)
        \/ Commit(s) \/ Fails(s)

Spec == Init /\ [][Next]_vars
-----------------------------------------------------------------------------
(* Properties *)

\* A catalogue that is deleted takes its offers with it, whatever was imported in the
\* meantime (delete_catalog): no offer names a catalogue that is not there, which
\* list_catalogs would count for nobody and no deletion could reach.
OffersHaveTheirCatalog ==
    \A r \in Refs : offers[r] # NoRow => catalogs[offers[r].catalog] = "present"

Commits(s) == at[s] = "commit" /\ at'[s] = "idle" /\ tables' # tables

\* An import is in the base as a whole or not at all: when its catalogue appears, so
\* does every price of its file, on a reference that is there, although others delete
\* and import beside it.  A stock is counted in the conditioning the reference has from
\* then on, unless that has changed since the import loaded it (_upsert_row,
\* "conditionnement effectif").  A line without a price is covered only if it changed
\* the reference: one that changes nothing is not written, holds no lock, and may see
\* its reference deleted.
ImportIsWhole ==
    [][\A s \in Sessions :
         Commits(s) /\ op[s].kind = "import" =>
           \A r \in DOMAIN op[s].file :
             /\ op[s].file[r].priced \/ rowDraft[s][r] # Untouched => refs'[r] # NoRow
             /\ op[s].file[r].priced =>
                  /\ offers'[r] # NoRow /\ offers'[r].catalog = mine[s]
                  /\ seen[s][r] = refs[r] => offers'[r].packed = refs'[r].quantity]_vars

\* No file detaches a reference: a mapping goes away by hand only, be it the choice of
\* the page that imports (_apply_explicit_mappings), for all that was written between
\* its resolution and its rows. A feed writes no mapping at all, and what another
\* transaction attaches while it runs is still attached when it commits ("Preserve
\* product_id", upsert_supplier_product).
NoFileDetaches ==
    [][\A s \in Sessions, r \in Refs :
         Commits(s) /\ refs[r] # NoRow =>
           /\ (/\ rowDraft[s][r] # Untouched /\ refs[r].product # None
               /\ refs'[r] # NoRow /\ refs'[r].product = None) =>
                \/ op[s].kind = "map"
                \/ op[s].kind = "import" /\ r \in DOMAIN op[s].chosen
           /\ op[s].kind \in {"brico", "gedimat"} =>
                refs'[r] # NoRow /\ refs'[r].product = refs[r].product]_vars

\* What was decided by hand, a mapping and the conditioning beside it, is changed by
\* hand only, by every transaction that read it (CORRECTION_SOURCES_PROTECTED in the
\* import and the feeds, product_id IS NULL in the passes, "specific" in
\* reconcile_gedimat, the orphans of delete_catalog).
HandStands ==
    [][\A s \in Sessions, r \in Refs :
         (/\ Commits(s) /\ rowDraft[s][r] # Untouched /\ seen[s][r] = refs[r]
          /\ refs[r] # NoRow /\ refs[r].source = "manual" /\ refs[r].product # None
          /\ op[s].kind \notin {"map", "correct", "clear"}) =>
           /\ refs'[r] # NoRow
           /\ refs'[r].product = refs[r].product
           /\ refs'[r].quantity = refs[r].quantity
           /\ refs'[r].source = "manual"]_vars
=============================================================================
