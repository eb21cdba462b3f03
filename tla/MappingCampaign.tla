--------------------------- MODULE MappingCampaign ---------------------------
(***************************************************************************)
(* The campaigns that create catalogue products and attach the references  *)
(* of the suppliers to them (src/app/services/product_mapping/ and         *)
(* gedimat_mapping.py). A campaign is one transaction of one process: it   *)
(* goes through its families, seeds the products that the references call  *)
(* for, applies the exact matches, does both again to check that nothing   *)
(* is left, and commits or gives everything up. Between two campaigns new  *)
(* references are imported and an administrator edits. What happens when a *)
(* campaign and an administrator work at once is in SupplierCatalogue.     *)
(***************************************************************************)
EXTENDS Matching, FiniteSets

CONSTANTS Families,     \* the codes of the registered rules
          Other,        \* an extraction that is not of the family
          Rule,         \* the rule of a family
          Style,        \* how the seed of a family avoids a duplicate
          Category,     \* the category of the products that this seed looks at
          Enrich(_, _), \* the attributes of a product as the rule completes them
          Renamed,      \* the keys of a family that products hold by another name
          Rounded,      \* <<family, reference>>: a nominal length replaced its own
          Brico, Gedimat, \* the references of the two suppliers
          Text,         \* the normalised designation of a reference
          Ean,          \* the valid EAN of a reference, or NoEan
          NoEan,
          Contradiction, \* <<family, reference>>: name and properties disagree
          Variants,     \* <<reference, product>>: an explicit variant or format differs
          Extractions,  \* the extractions a behaviour may start with
          CodeOf(_, _), \* the code a seed gives to an identity of a family
          SpecificCode(_), LongCode(_), \* the two codes of a designation
          OtherCodes,   \* codes given by hand
          LeftOut,      \* what may be left out of a product of a family made by hand
          Campaigns,    \* how each command runs through its families
          Imported,     \* the references already imported at the start
          MaxEdits      \* bound on imports and edits between campaigns

Refs == Brico \cup Gedimat
Designations == {Text[r] : r \in Refs}
Readings == [Families -> [Refs -> Attrs \cup {Other}]]
\* The identities a seed is made of: every key is known.
Identities(f) == [IdentityKeys(Rule[f]) -> Values]
Categories == {Category[f] : f \in Families} \cup {Other}

ASSUME DataAssumption ==
  /\ Other \notin Families \cup Attrs
  /\ Rule \in [Families -> Rules]
  /\ Style \in [Families -> {"none", "code", "identity"}]
  /\ Renamed \in [Families -> SUBSET Keys] /\ LeftOut \in [Families -> SUBSET SUBSET Keys]
  /\ DOMAIN Category = Families
  /\ Extractions \subseteq Readings
  /\ Imported \subseteq Refs
  /\ "none" \notin DOMAIN Campaigns
  /\ Campaigns \in [DOMAIN Campaigns ->
                      [families : Seq(Families), strict : BOOLEAN, bare : BOOLEAN]]
  /\ \A c \in DOMAIN Campaigns : Campaigns[c].strict => ~Campaigns[c].bare
  /\ MaxEdits \in Nat

\* The rules whose seeds look at identities complete what a product lacks and
\* nothing else (corniere_pvc.py:46-50; the fasteners' rules do not complete).
ASSUME EnrichAssumption ==
  \A f \in Families : \A attrs \in Attrs :
    /\ Enrich(f, attrs) \in Attrs
    /\ Style[f] = "identity" =>
         \A k \in Keys : attrs[k] # Unknown => Enrich(f, attrs)[k] = attrs[k]

\* No code is the absence of one. Two designations may have one short code, a
\* digest, but long codes are longer and tell designations apart, and neither
\* a seed nor an administrator makes a code that is a digest (specific_code,
\* attach_specific).
ASSUME CodesAssumption ==
  /\ NoProduct \notin OtherCodes
  /\ \A f \in Families : \A id \in Identities(f) : CodeOf(f, id) # NoProduct
  /\ \A t \in Designations :
       /\ t # NoProduct /\ NoProduct \notin {SpecificCode(t), LongCode(t)}
       /\ SpecificCode(t) \notin OtherCodes
       /\ \A f \in Families : \A id \in Identities(f) : CodeOf(f, id) # SpecificCode(t)
  /\ \A t, u \in Designations :
       LongCode(t) # SpecificCode(u) /\ (LongCode(t) = LongCode(u) => t = u)

VARIABLES extracted,  \* what the extractor of a family finds in a reference
          products,   \* the products: from codes to family, attributes, ...
          mapping,    \* the product of each reference and where it comes from
          saved,      \* the products and the mapping as last committed
          job,        \* the campaign that runs
          edits
vars == <<extracted, products, mapping, saved, job, edits>>

Sources == {"none", "manual", "exact_rule", "ean", "specific", "equiv"}
NoJob == [command |-> "none"]
None == [product |-> NoProduct, source |-> "none"]
Known == DOMAIN mapping
Mapped(r) == mapping[r].product # NoProduct

\* What the rule reads: active products that its selectors catch, by their
\* code or subcategory, completed.
Candidates(f) == [p \in {c \in DOMAIN products :
                            products[c].family = f /\ products[c].active}
                    |-> Enrich(f, products[p].attrs)]
Classified(f, r) == extracted[f][r] # Other
Answers(f, r) == BestMatch(Rule[f], extracted[f][r], Candidates(f))
Exact(f, r) == ExactProducts(Rule[f], extracted[f][r], Candidates(f))
Identity(f, attrs) == [k \in IdentityKeys(Rule[f]) |-> attrs[k]]
Shelf == [products |-> products, mapping |-> mapping]
\* f, and g where f says nothing.
Extended(f, g) == [x \in DOMAIN f \cup DOMAIN g |-> IF x \in DOMAIN f THEN f[x] ELSE g[x]]

-----------------------------------------------------------------------------
Init ==
  /\ extracted \in Extractions
  /\ products = <<>>
  /\ mapping = [r \in Imported |-> None]
  /\ saved = Shelf
  /\ job = NoJob
  /\ edits = 0

Edited(newProducts, newMapping) ==
  /\ job = NoJob
  /\ edits < MaxEdits
  /\ edits' = edits + 1
  /\ products' = newProducts
  /\ mapping' = newMapping
  /\ saved' = [products |-> newProducts, mapping |-> newMapping]
  /\ UNCHANGED <<extracted, job>>

\* An import brings a reference; it has no product yet.
Import(r) == r \notin Known /\ Edited(products, Extended(mapping, [x \in {r} |-> None]))

\* The administrator attaches a reference, or detaches it.
Attach(r, p) ==
  /\ r \in Known /\ p # mapping[r].product
  /\ Edited(products, [mapping EXCEPT ![r] = [product |-> p, source |-> "manual"]])

\* A product made by hand: the selectors of a family may catch it or not, and
\* its category be one that a seed looks at or not.
Create(c, f, category, attrs) ==
  /\ c \notin DOMAIN products
  /\ Edited(Extended(products, [x \in {c} |-> [family |-> f, category |-> category,
                                               attrs |-> attrs, active |-> TRUE,
                                               text |-> NoProduct]]),
            mapping)

Retire(p) == products[p].active /\ Edited([products EXCEPT ![p].active = FALSE], mapping)

-----------------------------------------------------------------------------
\* The identities of the references of a family that are whole.
Wanted(f) == {Identity(f, extracted[f][r]) :
                r \in {x \in Brico \cap Known :
                         Classified(f, x) /\ Complete(Rule[f], extracted[f][x])}}

\* Mutants of Missing: codes are not looked at, or identities are not.
MissingAnyCode(f) == Wanted(f)
MissingByCode(f) == {id \in Wanted(f) : CodeOf(f, id) \notin DOMAIN products}

\* The products that the seed of a family looks at are not the candidates of
\* its rule: the active ones of a category, with their attributes as written.
OnShelf(f) == {p \in DOMAIN products : products[p].active /\ products[p].category = Category[f]}

\* A seed skips the code that exists, retired or not. Some also skip the
\* identity of a product on their shelf that has another code.
Missing(f) ==
  {id \in Wanted(f) :
     /\ Style[f] # "none"
     /\ CodeOf(f, id) \notin DOMAIN products
     /\ Style[f] = "identity" =>
          \A p \in OnShelf(f) : Identity(f, products[p].attrs) # id}

Stored(f, id) == [family |-> f, category |-> Category[f], active |-> TRUE,
                  text |-> NoProduct,
                  attrs |-> [k \in Keys |-> IF k \in DOMAIN id THEN id[k] ELSE Unknown]]

\* Of identities with one code, the first seeded takes it.
Seeded(f, new) ==
  /\ DOMAIN new = {CodeOf(f, id) : id \in Missing(f)}
  /\ \A c \in DOMAIN new : new[c] \in {id \in Missing(f) : CodeOf(f, id) = c}
Seeds(f) == {new \in UNION {[{CodeOf(f, id) : id \in Missing(f)} -> Missing(f)]} :
               Seeded(f, new)}
Grown(f, new) == Extended(products, [c \in DOMAIN new |-> Stored(f, new[c])])

\* A mutant of Free: attached references are matched again.
FreeOrMapped(f) == {r \in Brico \cap Known : Classified(f, r)}

\* apply_exact_for_rule: the free references of the family, each to the one
\* product its exact match names.
Free(f) == {r \in Brico \cap Known : Classified(f, r) /\ ~Mapped(r)}
Applied(f) ==
  [r \in Known |-> IF r \in Free(f) /\ Exact(f, r) # {}
                   THEN [product |-> CHOOSE p \in Exact(f, r) : TRUE,
                         source |-> "exact_rule"]
                   ELSE mapping[r]]

\* audit_exact_matches: the exact matches of the free references whose product
\* is gone, or does not hold the identity that was extracted. The audit of the
\* profiles reads the attributes as they are written, the others completed.
Campaign == Campaigns[job.command]
AsAudited(f, p) == IF Campaign.bare THEN products[p].attrs ELSE Enrich(f, products[p].attrs)
Audit(f) ==
  {r \in Free(f) : \E a \in Answers(f, r) :
     /\ a.reason = "EXACT"
     /\ \/ a.product \notin DOMAIN products
        \/ ~SameIdentity(Rule[f], extracted[f][r], AsAudited(f, a.product))}

\* apply_if_clean: a family whose audit does not agree is left alone.
AppliedIfClean(f) == IF Audit(f) = {} THEN Applied(f) ELSE mapping

Start(c, apply) ==
  /\ job = NoJob
  /\ job' = [command |-> c, apply |-> apply, left |-> Campaigns[c].families,
             step |-> "seed", before |-> mapping, again |-> FALSE]
  /\ UNCHANGED <<extracted, products, mapping, saved, edits>>

Doing(step) == job # NoJob /\ job.left # <<>> /\ job.step = step
NextFamily == [job EXCEPT !.left = Tail(@), !.step = "seed"]

Seed ==
  /\ Doing("seed")
  /\ \E new \in Seeds(Head(job.left)) : products' = Grown(Head(job.left), new)
  /\ job' = IF job.apply THEN [job EXCEPT !.step = "apply"] ELSE NextFamily
  /\ UNCHANGED <<extracted, mapping, saved, edits>>

Apply ==
  /\ Doing("apply")
  /\ mapping' = AppliedIfClean(Head(job.left))
  /\ job' = [job EXCEPT !.step = "again"]
  /\ UNCHANGED <<extracted, products, saved, edits>>

\* The second turn of a family, seeded again by the commands that do so.
Again ==
  /\ Doing("again")
  /\ LET f == Head(job.left)
     IN \E new \in IF Campaign.strict THEN Seeds(f) ELSE {<<>>} :
          /\ products' = Grown(f, new)
          /\ mapping' = AppliedIfClean(f)
          /\ job' = [NextFamily EXCEPT !.again = @ \/ new # <<>> \/ AppliedIfClean(f) # mapping]
  /\ UNCHANGED <<extracted, saved, edits>>

Preserved == \A r \in DOMAIN job.before :
               job.before[r].product # NoProduct => mapping[r] = job.before[r]

\* Strict commands refuse a second turn that did something and a mapping that
\* moved. Their preview gives up; that of the others keeps its products.
Accepted == ~Campaign.strict \/ (job.apply /\ Preserved /\ ~job.again)
Finish ==
  /\ job # NoJob /\ job.left = <<>> /\ job.step = "seed"
  /\ IF Accepted THEN saved' = Shelf /\ UNCHANGED <<products, mapping>>
     ELSE products' = saved.products /\ mapping' = saved.mapping /\ UNCHANGED saved
  /\ job' = NoJob
  /\ UNCHANGED <<extracted, edits>>

\* An exception, or the end of the process: the transaction is given up.
Crash ==
  /\ job # NoJob
  /\ job' = NoJob
  /\ products' = saved.products /\ mapping' = saved.mapping
  /\ UNCHANGED <<extracted, saved, edits>>

-----------------------------------------------------------------------------
\* The Gedimat references and the specific products.
StartPass(command, step) ==
  /\ job = NoJob
  /\ job' = [command |-> command, apply |-> TRUE, left |-> <<>>, step |-> step,
             before |-> mapping, again |-> FALSE]
  /\ UNCHANGED <<extracted, products, mapping, saved, edits>>

Passing(step, next) ==
  /\ job # NoJob /\ job.step = step
  /\ job' = [job EXCEPT !.step = next]
  /\ UNCHANGED <<extracted, saved, edits>>

FreeOf(refs) == {r \in refs \cap Known : ~Mapped(r)}
AttachedBy(target, source) ==
  [r \in Known |-> IF r \in DOMAIN target
                   THEN [product |-> target[r], source |-> source] ELSE mapping[r]]

\* The product of the references of other suppliers that have the same EAN,
\* when they all have the same one.
Owners(e) == {mapping[r].product : r \in {x \in Brico \cap Known : Mapped(x) /\ Ean[x] = e}}
ByEan ==
  /\ Passing("ean", "rules")
  /\ LET twins == {r \in FreeOf(Gedimat) : Ean[r] # NoEan /\ \E p \in Owners(Ean[r]) :
                                             Owners(Ean[r]) = {p}}
     IN mapping' = AttachedBy([r \in twins |-> CHOOSE p \in Owners(Ean[r]) : TRUE], "ean")
  /\ UNCHANGED products

\* Every rule that finds an exact match claims the reference; it is attached
\* when they all claim one product.
Claims(r) == UNION {Exact(f, r) : f \in {g \in Families :
                      Classified(g, r) /\ DOMAIN Candidates(g) # {}}}
ByRules ==
  /\ Passing("rules", "specific")
  /\ LET claimed == {r \in FreeOf(Gedimat) : \E p \in Claims(r) : Claims(r) = {p}}
     IN mapping' = AttachedBy([r \in claimed |-> CHOOSE p \in Claims(r) : TRUE], "exact_rule")
  /\ UNCHANGED products

\* One specific product for each designation still free. The short code of a
\* designation belongs to the product that holds it, or to the first of the
\* designations that want it; the others take their long code, unless the
\* product that holds the short one has no designation.
Holders(refs) ==
  {owner \in [{SpecificCode(Text[r]) : r \in refs} -> Designations \cup {NoProduct}] :
     \A c \in DOMAIN owner :
       IF c \in DOMAIN products THEN owner[c] = products[c].text
       ELSE \E r \in refs : owner[c] = Text[r] /\ SpecificCode(Text[r]) = c}

\* A mutant of SpecificOf: the short code is always taken.
SpecificOfShort(owner, text) == SpecificCode(text)

SpecificOf(owner, text) ==
  IF owner[SpecificCode(text)] \in {text, NoProduct} THEN SpecificCode(text)
                                                    ELSE LongCode(text)
Specific(refs) ==
  \E owner \in Holders(refs) :
    LET code == [r \in refs |-> SpecificOf(owner, Text[r])]
        new == {code[r] : r \in refs} \ DOMAIN products
    IN /\ mapping' = AttachedBy(code, "specific")
       /\ products' = Extended(products,
            [c \in new |-> [family |-> Other, category |-> Other,
                            attrs |-> [k \in Keys |-> Unknown], active |-> TRUE,
                            text |-> Text[CHOOSE r \in refs : code[r] = c]]])
BySpecific ==
  /\ Passing("specific", "commit")
  /\ Specific(FreeOf(IF job.command = "gedimat" THEN Gedimat ELSE Brico))

\* A mutant of Speaks: the reference is believed before its product.
SpeaksOfReference(f, r) ==
  [k \in Keys |-> IF extracted[f][r][k] = Unknown
                  THEN products[mapping[r].product].attrs[k] ELSE extracted[f][r][k]]

\* What the Brico references say of the products they carry: the product's
\* own identity first, by the names its attributes have, then what was
\* extracted. For a length the product holds by another name than the identity
\* does, only what was extracted. One reference speaks for each product,
\* whichever is read first.
Speaks(f, r) ==
  LET own == products[mapping[r].product].attrs
  IN [k \in Keys |-> IF /\ own[k] # Unknown /\ k \notin Renamed[f]
                        /\ (k \in IdentityKeys(Rule[f]) \/ extracted[f][r][k] = Unknown)
                     THEN own[k] ELSE extracted[f][r][k]]
Carriers(f) == {r \in Brico \cap Known : /\ Mapped(r) /\ Classified(f, r)
                                         /\ Complete(Rule[f], Speaks(f, r))}
Carried(f) == {mapping[r].product : r \in Carriers(f)}
Indexes == {index \in [Families -> SUBSET Brico] :
              \A f \in Families :
                /\ index[f] \subseteq Carriers(f)
                /\ \A p \in Carried(f) : \E r \in index[f] : /\ mapping[r].product = p
                     /\ \A q \in index[f] \ {r} : mapping[q].product # p}

\* The carriers of the same identity, those that no secondary attribute
\* contradicts, and whether the one left is confirmed. The matcher confirms a
\* renamed length by what was measured, not by the nominal one: when they
\* differ nothing is confirmed.
Bucket(f, r, index) == {c \in index[f] : SameIdentity(Rule[f], extracted[f][r], Speaks(f, c))}
Compatible(f, r, index) ==
  {c \in Bucket(f, r, index) :
     \A k \in Rule[f].secondary : ~Clash(extracted[f][r], Speaks(f, c), k)}
Confirmed(f, r, c) ==
  LET p == mapping[c].product
  IN /\ ExactProducts(Rule[f], extracted[f][r], [q \in {p} |-> Enrich(f, Speaks(f, c))]) = {p}
     /\ <<f, c>> \notin Rounded
     /\ <<r, p>> \notin Variants
Proposed(f, r, index) ==
  {mapping[c].product : c \in {x \in Compatible(f, r, index) :
     /\ <<f, r>> \notin Contradiction
     /\ Compatible(f, r, index) = {x} /\ Confirmed(f, r, x)}}
\* One product proposed by the rules that propose one: what other rules found
\* ambiguous or contradictory does not count.
Twin(r, index) == UNION {Proposed(f, r, index) : f \in {g \in Families : Classified(g, r)}}

Reconcile ==
  /\ Passing("reconcile", "commit")
  /\ \E index \in Indexes :
       LET moved == {r \in Gedimat \cap Known :
                       /\ mapping[r].source = "specific"
                       /\ \E p \in Twin(r, index) :
                            Twin(r, index) = {p} /\ p # mapping[r].product}
       IN mapping' = AttachedBy([r \in moved |-> CHOOSE p \in Twin(r, index) : TRUE],
                                "equiv")
  /\ UNCHANGED products

Commit ==
  /\ job # NoJob /\ job.step = "commit"
  /\ saved' = Shelf /\ job' = NoJob
  /\ UNCHANGED <<extracted, products, mapping, edits>>

-----------------------------------------------------------------------------
Edit == \/ \E r \in Refs : Import(r)
        \/ \E r \in Refs, p \in DOMAIN products \cup {NoProduct} : Attach(r, p)
        \/ \E c \in OtherCodes, f \in Families, r \in Refs :
             /\ Classified(f, r)
             /\ \E out \in LeftOut[f], caught \in {f, Other}, category \in {Category[f], Other} :
                  /\ caught = f \/ category = Category[f]
                  /\ Create(c, caught, category,
                            [k \in Keys |-> IF k \in out THEN Unknown ELSE extracted[f][r][k]])
        \/ \E p \in DOMAIN products : Retire(p)

Next ==
  \/ Edit
  \/ \E c \in DOMAIN Campaigns, apply \in BOOLEAN : Start(c, apply)
  \/ Seed \/ Apply \/ Again \/ Finish
  \/ StartPass("gedimat", "ean") \/ StartPass("specific", "specific")
  \/ StartPass("reconcile", "reconcile")
  \/ ByEan \/ ByRules \/ BySpecific \/ Reconcile \/ Commit
  \/ Crash

Spec == Init /\ [][Next]_vars

-----------------------------------------------------------------------------
Products == [family : Families \cup {Other}, category : Categories, attrs : Attrs,
             active : BOOLEAN, text : Designations \cup {NoProduct}]
Commands == DOMAIN Campaigns \cup {"gedimat", "specific", "reconcile"}
Steps == {"seed", "apply", "again", "ean", "rules", "specific", "reconcile", "commit"}

\* References are attached to products that exist, automatically to some one.
ShelfOK(prods, maps) ==
  /\ prods \in [DOMAIN prods -> Products] /\ NoProduct \notin DOMAIN prods
  /\ DOMAIN maps \subseteq Refs
  /\ maps \in [DOMAIN maps -> [product : DOMAIN prods \cup {NoProduct}, source : Sources]]
  /\ \A r \in DOMAIN maps :
       maps[r].product = NoProduct => maps[r].source \in {"none", "manual"}

TypeOK ==
  /\ extracted \in Readings
  /\ ShelfOK(products, mapping)
  /\ saved = [products |-> saved.products, mapping |-> saved.mapping]
  /\ ShelfOK(saved.products, saved.mapping)
  /\ job # NoJob => job \in [command : Commands, apply : BOOLEAN, left : Seq(Families),
                             step : Steps, before : {saved.mapping}, again : BOOLEAN]
  /\ edits \in 0 .. MaxEdits

\* A campaign attaches a reference only to the one product that has its whole
\* identity and contradicts nothing, whatever products were made by hand,
\* retired or seeded under another code before (generic_matcher.py:1-5,
\* apply_exact_for_rule). The match is said here without the matcher.
ExactIsTheOnlyFit ==
  [][(Apply \/ Again) =>
       \A r \in Known : mapping'[r] # mapping[r] =>
         /\ ~Mapped(r)
         /\ LET f == Head(job.left)
            IN TheOnlyFit(Rule[f], extracted[f][r], mapping'[r].product, Candidates(f))]_vars

\* Done twice in a row, a family is seeded and applied only once, even when
\* codes collide: the strict commands never refuse themselves
\* (mass_catalog.py:1355-1361, mass_pass2.py:878-884).
SecondTurnIsIdle == job # NoJob => ~job.again

\* A seed that looks at identities never makes a fit ambiguous that it could
\* see: where the only product that fits a reference is on the seed's shelf
\* with its identity written out, the match names it still. (A fit made by
\* hand in another category, or that the rule completes, gets a second product
\* beside it, and so does any fit where seeds look at codes alone.)
SeedKeepsTheFit ==
  [][Seed => \A f \in Families : \A r \in Free(f) : \A p \in Exact(f, r) :
               /\ f = Head(job.left) /\ Style[f] = "identity"
               /\ p \in OnShelf(f) /\ Complete(Rule[f], products[p].attrs)
               => Exact(f, r)' = {p}]_vars

\* What was committed before a command stands after it: a command attaches
\* free references, and moves only a Gedimat reference from its specific
\* product to a twin. Only an edit moves the others.
MappingStands ==
  [][\A r \in DOMAIN saved.mapping :
       LET was == saved.mapping[r] IN LET is == saved'.mapping[r]
       IN was.product # NoProduct /\ is # was =>
            \/ job = NoJob
            \/ was.source = "specific" /\ is.source = "equiv" /\ r \in Gedimat]_vars

\* Two references attached as specific share a product exactly when they have
\* one designation (mass_specific.py:3-4), whatever passes brought them there,
\* even when the short codes of two designations collide.
SpecificByText ==
  \A r, s \in Known :
    mapping[r].source = "specific" /\ mapping[s].source = "specific" =>
      (mapping[r].product = mapping[s].product <=> Text[r] = Text[s])

\* A twin is a product that a Brico reference carries and, under some rule, of
\* the Gedimat reference's identity: where the product has a key of it, by the
\* product; where it has it by another name, by what was extracted of that
\* Brico reference (and not by the product, which may say otherwise).
TwinIsCarried ==
  [][Reconcile =>
       \A r \in Known : mapping'[r] # mapping[r] =>
         \E f \in Families, b \in Brico \cap Known :
           /\ mapping[b].product = mapping'[r].product
           /\ Classified(f, r) /\ Classified(f, b)
           /\ \A k \in IdentityKeys(Rule[f]) :
                IF k \in Renamed[f] THEN Agree(extracted[f][r], extracted[f][b], k)
                ELSE ~Clash(extracted[f][r], products[mapping'[r].product].attrs, k)]_vars

-----------------------------------------------------------------------------
(* Why they hold: what the proofs of the invariants need. *)

\* What a command has not committed yet: it knows the same references, and
\* those attached when it started are as they were, or went to a twin.
StillStands ==
  /\ DOMAIN mapping = DOMAIN saved.mapping
  /\ job = NoJob => saved = Shelf
  /\ \A r \in Known :
       saved.mapping[r].product # NoProduct =>
         \/ mapping[r] = saved.mapping[r]
         \/ /\ r \in Gedimat
            /\ saved.mapping[r].source = "specific" /\ mapping[r].source = "equiv"

\* A family that was seeded wants no other product, and once applied it leaves
\* no free reference with an exact match, unless its audit did not agree.
NothingLeft ==
  job # NoJob /\ job.left # <<>> =>
    LET f == Head(job.left)
    IN /\ job.step \in {"apply", "again"} => Missing(f) = {}
       /\ job.step = "again" => Audit(f) # {} \/ \A r \in Free(f) : Exact(f, r) = {}

\* A specific reference is where its designation leads.
SpecificOK(prods, maps) ==
  /\ \A t \in Designations :
       SpecificCode(t) \in DOMAIN prods => prods[SpecificCode(t)].text # NoProduct
  /\ \A r \in DOMAIN maps : maps[r].source = "specific" =>
       LET c == SpecificCode(Text[r])
       IN /\ c \in DOMAIN prods
          /\ maps[r].product = IF prods[c].text = Text[r] THEN c ELSE LongCode(Text[r])

CampaignInv ==
  /\ StillStands
  /\ SecondTurnIsIdle
  /\ NothingLeft
  /\ SpecificOK(products, mapping) /\ SpecificOK(saved.products, saved.mapping)
=============================================================================
