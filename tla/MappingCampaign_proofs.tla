----------------------- MODULE MappingCampaign_proofs -----------------------
(***************************************************************************)
(* Proofs about the matcher and the campaigns, for any rules, families,    *)
(* references, extractions, campaigns and number of edits.                 *)
(***************************************************************************)
EXTENDS MappingCampaign, TLAPS

-----------------------------------------------------------------------------
(* The matcher *)

\* A product scores EXACT exactly when it fits.
LEMMA ScoreOfFit ==
    ASSUME NEW rule, NEW e, NEW p, NEW t, Fits(rule, e, t)
    PROVE  Score(rule, e, p, t) = Match("EXACT", p, 100)
BY DEF Fits, Score

LEMMA ScoreOfOther ==
    ASSUME NEW rule, NEW e, NEW p, NEW t, ~ Fits(rule, e, t)
    PROVE  Score(rule, e, p, t).status \in {"HIGH", "REVIEW", "UNMAPPED"}
<1>1. Unmapped.status = "UNMAPPED" /\ \A s, q, n : Match(s, q, n).status = s
  BY DEF Match, Unmapped
<1>2. DimsFallback(rule, e, p, t).status \in {"HIGH", "REVIEW", "UNMAPPED"}
  <2>. DEFINE typed == rule.allowHigh /\ rule.typeKey # NoKey /\ SameDims(rule, e, t)
  <2>1. DimsFallback(rule, e, p, t) \in
          {Match("HIGH", p, 85), Unmapped, Match("REVIEW", p, 55)}
    BY DEF DimsFallback
  <2> QED
    BY <1>1, <2>1
<1>3. HierarchyFallback(rule, e, p, t).status \in {"HIGH", "REVIEW", "UNMAPPED"}
  BY <1>1 DEF HierarchyFallback
<1> QED
  BY <1>1, <1>2, <1>3 DEF Score, Fits

\* What makes an answer an EXACT: one candidate fits, and no other.
LEMMA ExactAnswer ==
    ASSUME NEW rule, NEW e, NEW cands, NoProduct \notin DOMAIN cands,
           NEW a \in BestMatch(rule, e, cands), a.reason = "EXACT"
    PROVE  TheOnlyFit(rule, e, a.product, cands) /\ HasRequiredInput(rule, e)
<1>. DEFINE scores == Scores(rule, e, cands)
            bests == {m \in scores : \A n \in scores : ~ Better(n, m)}
<1>1. \A x : x.reason = "EXACT" => x # NoMatch(rule, e)
  BY DEF NoMatch
<1>2. HasRequiredInput(rule, e) /\ \E m \in bests : a = Conclude(rule, e, m, scores)
  <2>1. a # [reason |-> "INSUFFICIENT_DATA", product |-> NoProduct]
    OBVIOUS
  <2> QED
    BY <1>1, <2>1 DEF BestMatch
<1>3. PICK m \in scores : a = Conclude(rule, e, m, scores)
  BY <1>2
<1>. HIDE DEF scores
<1>4. /\ m.product # NoProduct /\ a.product = m.product
      /\ m.status = "EXACT" /\ ~ Ambiguous(rule, m, scores)
  BY <1>1, <1>3 DEF Conclude
<1>5. PICK p \in DOMAIN cands : m = Score(rule, e, p, cands[p])
  BY <1>3 DEF scores, Scores
<1>6. Fits(rule, e, cands[p]) /\ m.product = p
  <2>1. Fits(rule, e, cands[p])
    BY <1>4, <1>5, ScoreOfOther
  <2> QED
    BY <1>5, <2>1, ScoreOfFit DEF Match
<1>7. ASSUME NEW q \in DOMAIN cands \ {p} PROVE ~ Fits(rule, e, cands[q])
  <2>. SUFFICES ASSUME Fits(rule, e, cands[q]) PROVE FALSE
    OBVIOUS
  <2>. DEFINE n == Score(rule, e, q, cands[q])
  <2>1. n \in scores
    BY DEF scores, Scores
  <2>2. n.status = "EXACT" /\ n.product = q
    BY ScoreOfFit DEF Match
  <2>. HIDE DEF n
  <2> QED
    BY <1>4, <1>6, <1>7, <2>1, <2>2 DEF Ambiguous
<1> QED
  BY <1>2, <1>4, <1>6, <1>7 DEF TheOnlyFit

LEMMA ExactIsFit ==
    ASSUME NEW rule, NEW e, NEW cands, NoProduct \notin DOMAIN cands,
           NEW p \in ExactProducts(rule, e, cands)
    PROVE  /\ TheOnlyFit(rule, e, p, cands)
           /\ HasRequiredInput(rule, e) /\ Complete(rule, e)
<1>1. PICK a \in BestMatch(rule, e, cands) :
        p = a.product /\ a.reason = "EXACT" /\ Complete(rule, e)
  BY DEF ExactProducts
<1> QED
  BY <1>1, ExactAnswer

\* And back: the only product that fits is the exact match.
LEMMA FitIsExact ==
    ASSUME NEW rule, NEW e, NEW cands, NoProduct \notin DOMAIN cands,
           NEW p, TheOnlyFit(rule, e, p, cands),
           HasRequiredInput(rule, e), Complete(rule, e)
    PROVE  ExactProducts(rule, e, cands) = {p}
<1>. DEFINE scores == Scores(rule, e, cands)
            best == Match("EXACT", p, 100)
<1>1. best \in scores
  BY ScoreOfFit DEF Scores, TheOnlyFit
<1>2. ASSUME NEW n \in scores, n # best
      PROVE  n.status \in {"HIGH", "REVIEW", "UNMAPPED"}
  <2>1. PICK q \in DOMAIN cands : n = Score(rule, e, q, cands[q])
    BY DEF Scores
  <2>2. ~ Fits(rule, e, cands[q])
    BY <1>2, <2>1, ScoreOfFit DEF TheOnlyFit
  <2> QED
    BY <2>1, <2>2, ScoreOfOther
<1>3. best.status = "EXACT" /\ best.product = p /\ best.score = 100 /\ p # NoProduct
  BY DEF Match, TheOnlyFit
<1>. HIDE DEF scores, best
<1>4. \A n \in scores : ~ Better(n, best)
  <2>. SUFFICES ASSUME NEW n \in scores, Better(n, best) PROVE FALSE
    OBVIOUS
  <2>1. /\ Rank["EXACT"] = 0 /\ Rank["HIGH"] = 1
        /\ Rank["REVIEW"] = 2 /\ Rank["UNMAPPED"] = 3
    BY DEF Rank, Statuses
  <2>2. CASE n = best
    BY <1>3, <2>1, <2>2 DEF Better
  <2>3. CASE n # best
    BY <1>2, <1>3, <2>1, <2>3 DEF Better
  <2> QED
    BY <2>2, <2>3
<1>5. ASSUME NEW m \in scores, \A n \in scores : ~ Better(n, m) PROVE m = best
  <2>. SUFFICES ASSUME m # best PROVE FALSE
    OBVIOUS
  <2>1. m.status \in {"HIGH", "REVIEW", "UNMAPPED"}
    BY <1>2
  <2>2. Rank["EXACT"] < Rank[m.status]
    BY <2>1 DEF Rank, Statuses
  <2> QED
    BY <1>1, <1>3, <1>5, <2>2 DEF Better
<1>6. ~ Ambiguous(rule, best, scores)
  BY <1>2, <1>3 DEF Ambiguous
<1>7. Conclude(rule, e, best, scores) = [reason |-> "EXACT", product |-> p]
  BY <1>3, <1>6 DEF Conclude
<1>8. BestMatch(rule, e, cands) = {[reason |-> "EXACT", product |-> p]}
  <2>1. DOMAIN cands # {}
    BY DEF TheOnlyFit
  <2>. DEFINE bests == {n \in scores : \A x \in scores : ~ Better(x, n)}
  <2>2. bests = {best}
    BY <1>1, <1>4, <1>5
  <2>3. BestMatch(rule, e, cands) = {Conclude(rule, e, m, scores) : m \in bests}
    BY <2>1 DEF BestMatch, scores
  <2>. HIDE DEF bests
  <2> QED
    BY <1>7, <2>2, <2>3
<1>9. \A q : q \in ExactProducts(rule, e, cands) <=>
              \E a \in BestMatch(rule, e, cands) :
                q = a.product /\ a.reason = "EXACT" /\ a.product # NoProduct
  BY DEF ExactProducts
<1>10. \A q : q \in ExactProducts(rule, e, cands) <=> q = p
  BY <1>3, <1>8, <1>9
<1> QED
  BY <1>10

-----------------------------------------------------------------------------
(* Tables *)

LEMMA ExtendedIs ==
    ASSUME NEW f, NEW g
    PROVE  /\ DOMAIN Extended(f, g) = DOMAIN f \cup DOMAIN g
           /\ \A x \in DOMAIN f : Extended(f, g)[x] = f[x]
           /\ \A x \in DOMAIN g \ DOMAIN f : Extended(f, g)[x] = g[x]
BY DEF Extended

LEMMA AttachedIs ==
    ASSUME NEW target, NEW source
    PROVE  /\ DOMAIN AttachedBy(target, source) = Known
           /\ \A r \in Known : AttachedBy(target, source)[r] =
                IF r \in DOMAIN target THEN [product |-> target[r], source |-> source]
                                       ELSE mapping[r]
BY DEF AttachedBy, Known

LEMMA ShelfGrows ==
    ASSUME NEW prods, NEW maps, ShelfOK(prods, maps),
           NEW new, new \in [DOMAIN new -> Products], NoProduct \notin DOMAIN new
    PROVE  ShelfOK(Extended(prods, new), maps)
<1>. DEFINE grown == Extended(prods, new)
<1>1. DOMAIN grown = DOMAIN prods \cup DOMAIN new /\ grown \in [DOMAIN grown -> Products]
  BY DEF ShelfOK, Extended
<1>. HIDE DEF grown
<1>2. maps \in [DOMAIN maps -> [product : DOMAIN grown \cup {NoProduct}, source : Sources]]
  BY <1>1 DEF ShelfOK
<1> QED
  BY <1>1, <1>2 DEF ShelfOK, grown

LEMMA ShelfAttached ==
    ASSUME NEW prods, ShelfOK(prods, mapping), NEW target, NEW source \in Sources,
           \A r \in Known \cap DOMAIN target : target[r] \in DOMAIN prods
    PROVE  ShelfOK(prods, AttachedBy(target, source))
<1>. DEFINE maps == AttachedBy(target, source)
<1>1. /\ DOMAIN mapping \subseteq Refs /\ NoProduct \notin DOMAIN prods
      /\ mapping \in [Known -> [product : DOMAIN prods \cup {NoProduct}, source : Sources]]
      /\ prods \in [DOMAIN prods -> Products]
      /\ \A r \in Known :
           mapping[r].product = NoProduct => mapping[r].source \in {"none", "manual"}
  BY DEF ShelfOK, Known
<1>2. maps \in [Known -> [product : DOMAIN prods \cup {NoProduct}, source : Sources]]
  BY <1>1 DEF AttachedBy, Known
<1>3. \A r \in Known :
        maps[r].product = NoProduct => maps[r].source \in {"none", "manual"}
  <2>. SUFFICES ASSUME NEW r \in Known, maps[r].product = NoProduct
                PROVE  maps[r].source \in {"none", "manual"}
    OBVIOUS
  <2>1. CASE r \in DOMAIN target
    <3>1. maps[r].product = target[r]
      BY <2>1 DEF AttachedBy
    <3> QED
      BY <1>1, <2>1, <3>1
  <2>2. CASE r \notin DOMAIN target
    <3>1. maps[r] = mapping[r]
      BY <2>2 DEF AttachedBy
    <3> QED
      BY <1>1, <3>1
  <2> QED
    BY <2>1, <2>2
<1>4. DOMAIN maps = Known
  BY AttachedIs
<1>. HIDE DEF maps
<1> QED
  BY <1>1, <1>2, <1>3, <1>4 DEF ShelfOK, maps, Known

-----------------------------------------------------------------------------
(* What is read of a reference, and the identities that are seeded *)

LEMMA KeysOfRule ==
    ASSUME NEW f \in Families
    PROVE  IdentityKeys(Rule[f]) \subseteq Keys
<1>1. Rule[f].identity \in Seq(Keys)
  BY DataAssumption DEF Rules
<1>2. \A i \in DOMAIN Rule[f].identity : Rule[f].identity[i] \in Keys
  BY <1>1
<1> QED
  BY <1>2 DEF IdentityKeys, Range

LEMMA ReadingIsAttrs ==
    ASSUME TypeOK, NEW f \in Families, NEW r \in Refs, Classified(f, r)
    PROVE  extracted[f][r] \in Attrs
BY DEF TypeOK, Readings, Classified

LEMMA KnownIsOfRefs ==
    ASSUME TypeOK
    PROVE  Known \subseteq Refs
BY DEF TypeOK, ShelfOK, Known

LEMMA MissingAreIdentities ==
    ASSUME TypeOK, NEW f \in Families
    PROVE  Missing(f) \subseteq Identities(f)
<1>. SUFFICES ASSUME NEW id \in Missing(f) PROVE id \in Identities(f)
  OBVIOUS
<1>1. PICK r \in Brico \cap Known :
        /\ Classified(f, r) /\ Complete(Rule[f], extracted[f][r])
        /\ id = Identity(f, extracted[f][r])
  BY DEF Missing, Wanted
<1>2. extracted[f][r] \in Attrs
  BY <1>1, ReadingIsAttrs, KnownIsOfRefs
<1>3. \A k \in IdentityKeys(Rule[f]) : extracted[f][r][k] \in Values
  BY <1>1, <1>2, KeysOfRule DEF Complete, Attrs
<1> QED
  BY <1>1, <1>3 DEF Identity, Identities

NewCodes(f) == {CodeOf(f, id) : id \in Missing(f)}

LEMMA SeedsAre ==
    ASSUME TypeOK, NEW f \in Families, NEW new \in Seeds(f)
    PROVE  /\ DOMAIN new = NewCodes(f)
           /\ \A c \in DOMAIN new : new[c] \in Missing(f) /\ CodeOf(f, new[c]) = c
BY DEF Seeds, Seeded, NewCodes

LEMMA StoredIsProduct ==
    ASSUME NEW f \in Families, NEW id \in Identities(f)
    PROVE  Stored(f, id) \in Products
<1>1. IdentityKeys(Rule[f]) \subseteq Keys /\ id \in [IdentityKeys(Rule[f]) -> Values]
  BY KeysOfRule DEF Identities
<1>2. [k \in Keys |-> IF k \in DOMAIN id THEN id[k] ELSE Unknown] \in Attrs
  BY <1>1 DEF Attrs
<1> QED
  BY <1>2 DEF Stored, Products, Categories

\* What a seed adds, from a family whose seeds are new.
LEMMA GrownIs ==
    ASSUME TypeOK, NEW f \in Families, NEW new \in Seeds(f)
    PROVE  /\ DOMAIN Grown(f, new) = DOMAIN products \cup NewCodes(f)
           /\ \A p \in DOMAIN products : Grown(f, new)[p] = products[p]
           /\ \A c \in DOMAIN Grown(f, new) \ DOMAIN products :
                \E id \in Missing(f) : c = CodeOf(f, id) /\ Grown(f, new)[c] = Stored(f, id)
<1>. DEFINE more == [c \in DOMAIN new |-> Stored(f, new[c])]
<1>1. Grown(f, new) = Extended(products, more) /\ DOMAIN more = DOMAIN new
  BY DEF Grown
<1>2. \A c \in DOMAIN more : more[c] = Stored(f, new[c])
  OBVIOUS
<1>. HIDE DEF more
<1>3. /\ DOMAIN Grown(f, new) = DOMAIN products \cup DOMAIN new
      /\ \A p \in DOMAIN products : Grown(f, new)[p] = products[p]
      /\ \A c \in DOMAIN new \ DOMAIN products : Grown(f, new)[c] = Stored(f, new[c])
  BY <1>1, <1>2 DEF Extended
<1>4. /\ DOMAIN new = NewCodes(f)
      /\ \A c \in DOMAIN new : new[c] \in Missing(f) /\ CodeOf(f, new[c]) = c
  BY SeedsAre
<1>5. DOMAIN Grown(f, new) = DOMAIN products \cup NewCodes(f)
  BY <1>3, <1>4
<1>6. ASSUME NEW c \in DOMAIN Grown(f, new) \ DOMAIN products
      PROVE  \E id \in Missing(f) : c = CodeOf(f, id) /\ Grown(f, new)[c] = Stored(f, id)
  <2>1. c \in DOMAIN new \ DOMAIN products
    BY <1>3
  <2>2. new[c] \in Missing(f) /\ CodeOf(f, new[c]) = c
    BY <1>4, <2>1
  <2> QED
    BY <1>3, <2>1, <2>2
<1> QED
  BY <1>3, <1>5, <1>6

LEMMA GrownShelf ==
    ASSUME TypeOK, NEW f \in Families, NEW new \in Seeds(f)
    PROVE  ShelfOK(Grown(f, new), mapping)
<1>. DEFINE more == [c \in DOMAIN new |-> Stored(f, new[c])]
<1>1. \A c \in DOMAIN new : new[c] \in Identities(f) /\ c = CodeOf(f, new[c])
  BY SeedsAre, MissingAreIdentities
<1>2. more \in [DOMAIN more -> Products]
  BY <1>1, StoredIsProduct
<1>3. NoProduct \notin DOMAIN more
  BY <1>1, CodesAssumption
<1>. HIDE DEF more
<1>4. ShelfOK(Extended(products, more), mapping)
  BY <1>2, <1>3, ShelfGrows DEF TypeOK
<1> QED
  BY <1>4 DEF Grown, more

\* The first turn of a seed leaves nothing to the second.
LEMMA SeededIsDone ==
    ASSUME TypeOK, NEW f \in Families, NEW new \in Seeds(f),
           products' = Grown(f, new), UNCHANGED <<extracted, mapping>>
    PROVE  Missing(f)' = {}
<1>. SUFFICES ASSUME NEW id \in Missing(f)' PROVE FALSE
  OBVIOUS
<1>0. /\ DOMAIN Grown(f, new) = DOMAIN products \cup NewCodes(f)
      /\ \A p \in DOMAIN products : Grown(f, new)[p] = products[p]
  BY GrownIs, Zenon
<1>1. id \in Wanted(f)' /\ Style[f] # "none" /\ CodeOf(f, id) \notin DOMAIN products'
  BY DEF Missing
<1>2. id \in Wanted(f)
  BY <1>1 DEF Wanted, Known, Classified, Identity
<1>3. CodeOf(f, id) \notin DOMAIN products /\ id \notin Missing(f)
  BY <1>0, <1>1 DEF NewCodes
<1>4. PICK p \in OnShelf(f) :
        Style[f] = "identity" /\ Identity(f, products[p].attrs) = id
  BY <1>1, <1>2, <1>3 DEF Missing
<1>5. p \in OnShelf(f)' /\ products'[p] = products[p]
  <2>1. p \in DOMAIN products /\ products[p].category = Category[f] /\ products[p].active
    BY <1>4 DEF OnShelf
  <2>2. p \in DOMAIN products' /\ products'[p] = products[p]
    <3>1. p \in DOMAIN Grown(f, new) /\ Grown(f, new)[p] = products[p]
      BY <1>0, <2>1
    <3> QED
      BY <3>1
  <2>3. products'[p].category = Category[f] /\ products'[p].active
    BY <2>1, <2>2
  <2>4. p \in OnShelf(f)'
    BY <2>2, <2>3 DEF OnShelf
  <2> QED
    BY <2>2, <2>4
<1>6. Identity(f, products'[p].attrs) = id
  BY <1>4, <1>5
<1> QED
  BY <1>4, <1>5, <1>6 DEF Missing, Identity

-----------------------------------------------------------------------------
(* The matches of a family *)

LEMMA CandidatesAre ==
    ASSUME TypeOK, NEW f
    PROVE  /\ DOMAIN Candidates(f) \subseteq DOMAIN products
           /\ NoProduct \notin DOMAIN Candidates(f)
           /\ \A p \in DOMAIN Candidates(f) :
                Candidates(f)[p] = Enrich(f, products[p].attrs)
BY DEF TypeOK, ShelfOK, Candidates

LEMMA ExactIs ==
    ASSUME TypeOK, NEW f, NEW r, NEW p \in Exact(f, r)
    PROVE  /\ TheOnlyFit(Rule[f], extracted[f][r], p, Candidates(f))
           /\ HasRequiredInput(Rule[f], extracted[f][r])
           /\ Complete(Rule[f], extracted[f][r])
           /\ p \in DOMAIN products /\ p # NoProduct
<1>1. /\ TheOnlyFit(Rule[f], extracted[f][r], p, Candidates(f))
      /\ HasRequiredInput(Rule[f], extracted[f][r])
      /\ Complete(Rule[f], extracted[f][r])
  BY CandidatesAre, ExactIsFit DEF Exact
<1> QED
  BY <1>1, CandidatesAre DEF TheOnlyFit

\* An audit that reads what the match read never finds anything: the strict
\* commands, whose audits do, are never refused for it.
LEMMA AuditAgrees ==
    ASSUME TypeOK, NEW f, ~ Campaign.bare
    PROVE  Audit(f) = {}
<1>. SUFFICES ASSUME NEW r \in Free(f), NEW a \in Answers(f, r), a.reason = "EXACT"
              PROVE  /\ a.product \in DOMAIN products
                     /\ SameIdentity(Rule[f], extracted[f][r],
                                     Enrich(f, products[a.product].attrs))
  BY DEF Audit, AsAudited
<1>1. TheOnlyFit(Rule[f], extracted[f][r], a.product, Candidates(f))
  BY CandidatesAre, ExactAnswer DEF Answers
<1> QED
  BY <1>1, CandidatesAre DEF TheOnlyFit, Fits

\* A reference that the campaign attaches was free, and goes to the only fit.
LEMMA AppliedIs ==
    ASSUME TypeOK, NEW f
    PROVE  /\ DOMAIN Applied(f) = Known
           /\ \A r \in Known :
                \/ Applied(f)[r] = mapping[r] /\ (r \in Free(f) => Exact(f, r) = {})
                \/ /\ r \in Free(f) /\ Applied(f)[r].source = "exact_rule"
                   /\ Applied(f)[r].product \in Exact(f, r)
                   /\ Applied(f)[r] = [product |-> Applied(f)[r].product,
                                       source |-> "exact_rule"]
<1>1. DOMAIN Applied(f) = Known
  BY DEF Applied
<1>2. ASSUME NEW r \in Known, r \in Free(f), Exact(f, r) # {}
      PROVE  /\ Applied(f)[r].source = "exact_rule"
             /\ Applied(f)[r].product \in Exact(f, r)
             /\ Applied(f)[r] = [product |-> Applied(f)[r].product,
                                 source |-> "exact_rule"]
  <2>1. (CHOOSE p \in Exact(f, r) : TRUE) \in Exact(f, r)
    BY <1>2
  <2> QED
    BY <1>2, <2>1 DEF Applied
<1>3. ASSUME NEW r \in Known, ~ (r \in Free(f) /\ Exact(f, r) # {})
      PROVE  Applied(f)[r] = mapping[r]
  BY <1>3 DEF Applied
<1> QED
  BY <1>1, <1>2, <1>3

LEMMA AppliedShelf ==
    ASSUME TypeOK, NEW f
    PROVE  ShelfOK(products, Applied(f))
<1>. DEFINE target == [r \in {x \in Free(f) : Exact(f, x) # {}} |->
                         CHOOSE p \in Exact(f, r) : TRUE]
<1>1. Applied(f) = AttachedBy(target, "exact_rule")
  BY DEF Applied, AttachedBy
<1>2. \A r \in DOMAIN target : target[r] \in DOMAIN products
  BY ExactIs
<1>. HIDE DEF target
<1> QED
  BY <1>1, <1>2, ShelfAttached DEF Sources, TypeOK

-----------------------------------------------------------------------------
(***************************************************************************)
(* The invariant.  While a command runs, the products and the mapping are  *)
(* ahead of what is saved, and only in what was free (StillStands); a      *)
(* family that was seeded and applied has nothing left to do (NothingLeft);*)
(* a specific reference is where its designation leads (SpecificOK).       *)
(***************************************************************************)

Inv == TypeOK /\ CampaignInv

Jobs == [command : Commands, apply : BOOLEAN, left : Seq(Families),
         step : Steps, before : {saved.mapping}, again : BOOLEAN]

LEMMA JobMoves ==
    ASSUME TypeOK, job # NoJob
    PROVE  /\ job \in Jobs
           /\ \A st \in Steps : LET j == [job EXCEPT !.step = st] IN
                /\ j \in Jobs /\ j # NoJob
                /\ j.left = job.left /\ j.step = st /\ j.again = job.again
<1>1. job \in Jobs
  BY DEF TypeOK, Jobs
<1>2. "none" \notin Commands
  BY DataAssumption DEF Commands
<1>3. ASSUME NEW st \in Steps
      PROVE  LET j == [job EXCEPT !.step = st] IN
                /\ j \in Jobs /\ j # NoJob
                /\ j.left = job.left /\ j.step = st /\ j.again = job.again
  <2>. DEFINE j == [job EXCEPT !.step = st]
  <2>1. /\ j \in Jobs /\ j.command = job.command
        /\ j.left = job.left /\ j.step = st /\ j.again = job.again
    BY <1>1 DEF Jobs
  <2>2. j # NoJob
    BY <1>1, <1>2, <2>1 DEF NoJob, Jobs
  <2> QED
    BY <2>1, <2>2
<1> QED
  BY <1>1, <1>3

LEMMA NextFamilyIs ==
    ASSUME TypeOK, job # NoJob, job.left # <<>>, NEW b \in BOOLEAN
    PROVE  /\ NextFamily \in Jobs /\ NextFamily # NoJob
           /\ NextFamily.step = "seed" /\ NextFamily.again = job.again
           /\ LET j == [NextFamily EXCEPT !.again = b]
              IN j \in Jobs /\ j # NoJob /\ j.step = "seed" /\ j.again = b
<1>1. job \in Jobs /\ "seed" \in Steps
  BY JobMoves DEF Steps
<1>2. "none" \notin Commands
  BY DataAssumption DEF Commands
<1>3. Tail(job.left) \in Seq(Families)
  BY <1>1 DEF Jobs
<1>4. /\ NextFamily \in Jobs /\ NextFamily.command = job.command
      /\ NextFamily.step = "seed" /\ NextFamily.again = job.again
  BY <1>1, <1>3 DEF NextFamily, Jobs
<1>. DEFINE j == [NextFamily EXCEPT !.again = b]
<1>5. j \in Jobs /\ j.command = job.command /\ j.step = "seed" /\ j.again = b
  BY <1>4 DEF Jobs
<1>6. \A x : x.command = job.command => x # NoJob
  BY <1>1, <1>2 DEF NoJob, Jobs
<1>. HIDE DEF j
<1> QED
  BY <1>4, <1>5, <1>6 DEF j

LEMMA HeadIsFamily ==
    ASSUME TypeOK, job # NoJob, job.left # <<>>
    PROVE  Head(job.left) \in Families
<1>1. job.left \in Seq(Families)
  BY JobMoves DEF Jobs
<1> QED
  BY <1>1

\* Short codes stay those of specific products, and specific references stay.
LEMMA SpecificKept ==
    ASSUME NEW prods, NEW maps, SpecificOK(prods, maps),
           NEW prods2, NEW maps2,
           \A t \in Designations : LET c == SpecificCode(t) IN
             /\ c \in DOMAIN prods2 <=> c \in DOMAIN prods
             /\ c \in DOMAIN prods => prods2[c].text = prods[c].text,
           DOMAIN maps2 \subseteq Refs,
           \A r \in DOMAIN maps2 : maps2[r].source = "specific" =>
             r \in DOMAIN maps /\ maps2[r] = maps[r]
    PROVE  SpecificOK(prods2, maps2)
<1>1. ASSUME NEW t \in Designations, SpecificCode(t) \in DOMAIN prods2
      PROVE  prods2[SpecificCode(t)].text # NoProduct
  BY <1>1 DEF SpecificOK
<1>2. ASSUME NEW r \in DOMAIN maps2, maps2[r].source = "specific"
      PROVE  LET c == SpecificCode(Text[r])
             IN /\ c \in DOMAIN prods2
                /\ maps2[r].product = IF prods2[c].text = Text[r] THEN c
                                                                ELSE LongCode(Text[r])
  <2>. DEFINE c == SpecificCode(Text[r])
  <2>1. r \in DOMAIN maps /\ maps2[r] = maps[r] /\ maps[r].source = "specific"
    BY <1>2
  <2>2. /\ c \in DOMAIN prods
        /\ maps[r].product = IF prods[c].text = Text[r] THEN c ELSE LongCode(Text[r])
    BY <2>1 DEF SpecificOK
  <2>3. Text[r] \in Designations
    BY DEF Designations
  <2>4. c \in DOMAIN prods2 /\ prods2[c].text = prods[c].text
    BY <2>2, <2>3
  <2>. HIDE DEF c
  <2> QED
    BY <2>1, <2>2, <2>4 DEF c
<1> QED
  BY <1>1, <1>2 DEF SpecificOK

-----------------------------------------------------------------------------
(* Edits *)

LEMMA EditedInv ==
    ASSUME Inv, NEW prods, NEW maps, Edited(prods, maps),
           ShelfOK(prods, maps), SpecificOK(prods, maps)
    PROVE  Inv'
<1>1. /\ job = NoJob /\ job' = NoJob /\ extracted' = extracted
      /\ products' = prods /\ mapping' = maps
      /\ saved' = [products |-> prods, mapping |-> maps]
      /\ edits' \in 0 .. MaxEdits
  BY DataAssumption DEF Edited, Inv, TypeOK
<1>2. saved'.products = prods /\ saved'.mapping = maps /\ saved' = Shelf'
  BY <1>1 DEF Shelf
<1>3. TypeOK'
  BY <1>1, <1>2 DEF Inv, TypeOK
<1>4. CampaignInv'
  BY <1>1, <1>2 DEF Inv, CampaignInv, StillStands, SecondTurnIsIdle, NothingLeft
<1> QED
  BY <1>3, <1>4 DEF Inv

LEMMA ShelfFacts ==
    ASSUME Inv
    PROVE  /\ ShelfOK(products, mapping) /\ SpecificOK(products, mapping)
           /\ DOMAIN products = DOMAIN products /\ Known \subseteq Refs
           /\ \A p \in DOMAIN products : products[p] \in Products
           /\ NoProduct \notin DOMAIN products
           /\ \A r \in Known :
                /\ mapping[r] \in [product : DOMAIN products \cup {NoProduct}, source : Sources]
                /\ mapping[r].product = NoProduct => mapping[r].source \in {"none", "manual"}
BY DEF Inv, TypeOK, CampaignInv, ShelfOK, Known

LEMMA EditInv == ASSUME Inv, Edit PROVE Inv'
<1>0. /\ ShelfOK(products, mapping) /\ SpecificOK(products, mapping)
      /\ Known \subseteq Refs
  BY ShelfFacts
<1>1. ASSUME NEW r \in Refs, Import(r) PROVE Inv'
  <2>. DEFINE maps == Extended(mapping, [x \in {r} |-> None])
  <2>1. DOMAIN maps = Known \cup {r} /\ maps[r] = None
        /\ \A x \in Known : maps[x] = mapping[x]
    BY <1>1 DEF Import, Extended, Known
  <2>2. maps \in [Known \cup {r} -> [product : DOMAIN products \cup {NoProduct}, source : Sources]]
    <3>1. mapping \in [Known -> [product : DOMAIN products \cup {NoProduct}, source : Sources]]
      BY <1>0 DEF ShelfOK, Known
    <3>2. None \in [product : DOMAIN products \cup {NoProduct}, source : Sources]
      BY DEF None, Sources
    <3>3. maps = [x \in Known \cup {r} |-> IF x \in Known THEN mapping[x] ELSE None]
      BY DEF Extended, Known
    <3>. HIDE DEF maps
    <3> QED
      BY <3>1, <3>2, <3>3
  <2>. HIDE DEF maps
  <2>3. ShelfOK(products, maps)
    BY <1>0, <2>1, <2>2 DEF ShelfOK, None, Known
  <2>4. SpecificOK(products, maps)
    BY <1>0, <2>1, SpecificKept DEF None, Known
  <2> QED
    BY <1>1, <2>3, <2>4, EditedInv DEF Import, maps
<1>2. ASSUME NEW r \in Refs, NEW p \in DOMAIN products \cup {NoProduct}, Attach(r, p)
      PROVE  Inv'
  <2>. DEFINE maps == [mapping EXCEPT ![r] = [product |-> p, source |-> "manual"]]
  <2>1. DOMAIN maps = Known /\ maps[r] = [product |-> p, source |-> "manual"]
        /\ \A x \in Known \ {r} : maps[x] = mapping[x]
    BY <1>2 DEF Attach, Known
  <2>2. maps \in [Known -> [product : DOMAIN products \cup {NoProduct}, source : Sources]]
    BY <1>0 DEF ShelfOK, Known, Sources
  <2>. HIDE DEF maps
  <2>3. ShelfOK(products, maps)
    BY <1>0, <2>1, <2>2 DEF ShelfOK, Known
  <2>4. \A x \in DOMAIN maps : maps[x].source = "specific" => x \in DOMAIN mapping /\ maps[x] = mapping[x]
    BY <2>1 DEF Known
  <2>5. SpecificOK(products, maps)
    BY <1>0, <2>1, <2>4, SpecificKept
  <2> QED
    BY <1>2, <2>3, <2>5, EditedInv DEF Attach, maps
<1>3. ASSUME NEW c \in OtherCodes, NEW f \in Families, NEW r \in Refs,
             Classified(f, r), NEW out \in LeftOut[f],
             NEW caught \in {f, Other}, NEW category \in {Category[f], Other},
             Create(c, caught, category,
                    [k \in Keys |-> IF k \in out THEN Unknown ELSE extracted[f][r][k]])
      PROVE  Inv'
  <2>. DEFINE attrs == [k \in Keys |-> IF k \in out THEN Unknown ELSE extracted[f][r][k]]
              new == [x \in {c} |-> [family |-> caught, category |-> category,
                                    attrs |-> attrs, active |-> TRUE, text |-> NoProduct]]
              prods == Extended(products, new)
  <2>1. attrs \in Attrs
    <3>1. extracted[f][r] \in Attrs
      BY <1>3, ReadingIsAttrs DEF Inv
    <3> QED
      BY <3>1 DEF Attrs
  <2>2. new \in [DOMAIN new -> Products] /\ NoProduct \notin DOMAIN new
    <3>. HIDE DEF attrs
    <3> QED
      BY <2>1, CodesAssumption DEF Products, Categories
  <2>3. ShelfOK(prods, mapping)
    <3>. HIDE DEF new
    <3> QED
      BY <1>0, <2>2, ShelfGrows
  <2>4. DOMAIN prods = DOMAIN products \cup {c} /\ \A x \in DOMAIN products : prods[x] = products[x]
    BY DEF Extended
  <2>5. \A t \in Designations : SpecificCode(t) # c
    BY CodesAssumption
  <2>6. SpecificOK(prods, mapping)
    <3>. HIDE DEF prods
    <3> QED
      BY <1>0, <2>4, <2>5, SpecificKept DEF Known
  <2> QED
    BY <1>3, <2>3, <2>6, EditedInv DEF Create
<1>4. ASSUME NEW p \in DOMAIN products, Retire(p) PROVE Inv'
  <2>. DEFINE prods == [products EXCEPT ![p].active = FALSE]
  <2>1. \A x \in DOMAIN products : products[x] \in Products
    BY ShelfFacts
  <2>2. /\ DOMAIN prods = DOMAIN products
        /\ \A x \in DOMAIN products : prods[x].text = products[x].text
    BY <2>1 DEF Products
  <2>3. prods \in [DOMAIN products -> Products]
    BY <1>0, <2>1 DEF ShelfOK, Products
  <2>. HIDE DEF prods
  <2>4. ShelfOK(prods, mapping)
    BY <1>0, <2>2, <2>3 DEF ShelfOK
  <2>5. SpecificOK(prods, mapping)
    BY <1>0, <2>2, SpecificKept DEF Known
  <2> QED
    BY <1>4, <2>4, <2>5, EditedInv DEF Retire, prods
<1> QED
  BY <1>1, <1>2, <1>3, <1>4 DEF Edit

-----------------------------------------------------------------------------
(* A command begins and ends *)

LEMMA BeginInv ==
    ASSUME Inv, job = NoJob, NEW c \in Commands, NEW apply \in BOOLEAN,
           NEW left \in Seq(Families), NEW step \in Steps \ {"apply", "again"},
           job' = [command |-> c, apply |-> apply, left |-> left, step |-> step,
                   before |-> mapping, again |-> FALSE],
           UNCHANGED <<extracted, products, mapping, saved, edits>>
    PROVE  Inv'
<1>1. saved = Shelf /\ saved.mapping = mapping
  BY DEF Inv, CampaignInv, StillStands, Shelf
<1>2. job' \in Jobs /\ job'.again = FALSE /\ job'.step = step /\ job'.command = c
  BY <1>1 DEF Jobs
<1>3. job' # NoJob
  BY <1>2, DataAssumption DEF NoJob, Commands
<1>4. TypeOK'
  BY <1>2 DEF Inv, TypeOK, Jobs
<1>5. StillStands'
  BY <1>1, <1>3 DEF StillStands, Known
<1>6. SecondTurnIsIdle' /\ NothingLeft'
  BY <1>2 DEF SecondTurnIsIdle, NothingLeft
<1> QED
  BY <1>4, <1>5, <1>6 DEF Inv, CampaignInv

\* What was done is committed.
LEMMA CommittedInv ==
    ASSUME Inv, job # NoJob, job' = NoJob, saved' = Shelf,
           UNCHANGED <<extracted, products, mapping, edits>>
    PROVE  Inv'
<1>1. saved'.products = products /\ saved'.mapping = mapping /\ saved' = Shelf'
  BY DEF Shelf
<1>2. TypeOK'
  BY <1>1 DEF Inv, TypeOK, Shelf
<1>3. CampaignInv'
  BY <1>1 DEF Inv, CampaignInv, StillStands, SecondTurnIsIdle, NothingLeft, Known
<1> QED
  BY <1>2, <1>3 DEF Inv

\* Or given up.
LEMMA GivenUpInv ==
    ASSUME Inv, job # NoJob, job' = NoJob,
           products' = saved.products, mapping' = saved.mapping,
           UNCHANGED <<extracted, saved, edits>>
    PROVE  Inv'
<1>1. saved' = Shelf'
  BY DEF Inv, TypeOK, Shelf
<1>2. TypeOK'
  BY DEF Inv, TypeOK
<1>3. CampaignInv'
  BY <1>1 DEF Inv, CampaignInv, StillStands, SecondTurnIsIdle, NothingLeft
<1> QED
  BY <1>2, <1>3 DEF Inv

\* In between, only free references move, or specific ones to their twin.
LEMMA MidInv ==
    ASSUME Inv, job # NoJob, job' \in Jobs, job' # NoJob, ~ job'.again, NothingLeft',
           UNCHANGED <<extracted, saved, edits>>,
           ShelfOK(products', mapping'), SpecificOK(products', mapping'),
           DOMAIN mapping' = Known,
           \A r \in Known :
             \/ mapping'[r] = mapping[r] \/ ~ Mapped(r)
             \/ /\ r \in Gedimat
                /\ mapping[r].source = "specific" /\ mapping'[r].source = "equiv"
    PROVE  Inv'
<1>1. TypeOK'
  BY DEF Inv, TypeOK, Jobs
<1>2. StillStands'
  <2>1. DOMAIN mapping' = DOMAIN saved'.mapping
    BY DEF Inv, CampaignInv, StillStands, Known
  <2>2. ASSUME NEW r \in Known, saved.mapping[r].product # NoProduct
        PROVE  \/ mapping'[r] = saved.mapping[r]
               \/ /\ r \in Gedimat
                  /\ saved.mapping[r].source = "specific" /\ mapping'[r].source = "equiv"
    <3>1. \/ mapping[r] = saved.mapping[r]
          \/ /\ r \in Gedimat
             /\ saved.mapping[r].source = "specific" /\ mapping[r].source = "equiv"
      BY <2>2 DEF Inv, CampaignInv, StillStands
    <3>2. mapping[r].source = "equiv" => Mapped(r)
      BY ShelfFacts DEF Mapped
    <3>3. Mapped(r)
      BY <2>2, <3>1, <3>2 DEF Mapped
    <3> QED
      BY <3>1, <3>3
  <2> QED
    BY <2>1, <2>2 DEF StillStands, Known
<1>3. SecondTurnIsIdle'
  BY DEF SecondTurnIsIdle
<1> QED
  BY <1>1, <1>2, <1>3 DEF Inv, CampaignInv

-----------------------------------------------------------------------------
(* Campaigns *)

\* What a family wants and matches is read from the products, the references
\* and their extractions only.
LEMMA OnlyWhatIsRead ==
    ASSUME NEW f, extracted' = extracted, products' = products, Known' = Known
    PROVE  /\ Missing(f)' = Missing(f)
           /\ \A r : /\ Classified(f, r)' <=> Classified(f, r)
                    /\ Exact(f, r)' = Exact(f, r) /\ Answers(f, r)' = Answers(f, r)
<1>1. Candidates(f)' = Candidates(f) /\ OnShelf(f)' = OnShelf(f)
  BY DEF Candidates, OnShelf
<1>2. \A r : Classified(f, r)' <=> Classified(f, r)
  BY DEF Classified
<1>3. Wanted(f)' = Wanted(f)
  BY <1>2 DEF Wanted, Identity, Classified
<1>4. Missing(f)' = Missing(f)
  BY <1>1, <1>3 DEF Missing, Identity
<1>5. \A r : Exact(f, r)' = Exact(f, r) /\ Answers(f, r)' = Answers(f, r)
  BY <1>1 DEF Exact, Answers
<1> QED
  BY <1>2, <1>4, <1>5

\* An audit stands as long as nothing changes and the command is the same.
LEMMA AuditStands ==
    ASSUME NEW f, UNCHANGED <<extracted, products, mapping>>,
           job'.command = job.command, NEW r \in Audit(f)
    PROVE  r \in Audit(f)'
<1>1. Known' = Known /\ (Mapped(r)' <=> Mapped(r)) /\ (Campaign.bare' <=> Campaign.bare)
  BY DEF Known, Mapped, Campaign
<1>2. /\ Classified(f, r)' <=> Classified(f, r)
      /\ Answers(f, r)' = Answers(f, r)
  BY <1>1, OnlyWhatIsRead
<1>3. r \in Free(f)'
  BY <1>1, <1>2 DEF Audit, Free
<1>4. PICK a \in Answers(f, r) :
        /\ a.reason = "EXACT"
        /\ \/ a.product \notin DOMAIN products
           \/ ~ SameIdentity(Rule[f], extracted[f][r], AsAudited(f, a.product))
  BY DEF Audit
<1>5. AsAudited(f, a.product)' = AsAudited(f, a.product)
  BY <1>1 DEF AsAudited
<1> QED
  BY <1>2, <1>3, <1>4, <1>5 DEF Audit

LEMMA SeedInv == ASSUME Inv, Seed PROVE Inv'
<1>1. /\ job # NoJob /\ job.left # <<>> /\ job.step = "seed" /\ TypeOK /\ ~ job.again
      /\ UNCHANGED <<extracted, mapping, saved, edits>>
  BY DEF Seed, Doing, Inv, CampaignInv, SecondTurnIsIdle
<1>2. PICK f \in Families : f = Head(job.left)
  BY <1>1, HeadIsFamily
<1>3. PICK new \in Seeds(f) : products' = Grown(f, new)
  BY <1>2 DEF Seed
<1>4. ShelfOK(products', mapping')
  BY <1>1, <1>2, <1>3, GrownShelf
<1>5. SpecificOK(products', mapping')
  <2>1. /\ DOMAIN Grown(f, new) = DOMAIN products \cup NewCodes(f)
        /\ \A p \in DOMAIN products : Grown(f, new)[p] = products[p]
    BY <1>1, <1>2, GrownIs, Zenon
  <2>2. \A t \in Designations : SpecificCode(t) \notin NewCodes(f)
    BY <1>1, <1>2, MissingAreIdentities, CodesAssumption DEF NewCodes
  <2>3. \A t \in Designations : LET c == SpecificCode(t) IN
          /\ c \in DOMAIN products' <=> c \in DOMAIN products
          /\ c \in DOMAIN products => products'[c].text = products[c].text
    BY <1>3, <2>1, <2>2
  <2> QED
    BY <1>1, <2>3, SpecificKept, ShelfFacts DEF Known
<1>6. Missing(f)' = {}
  <2>1. extracted' = extracted /\ mapping' = mapping
    BY <1>1
  <2> QED
    BY <1>1, <1>2, <1>3, <2>1, SeededIsDone, Zenon
<1>7. CASE job.apply
  <2>1. job' = [job EXCEPT !.step = "apply"] /\ "apply" \in Steps
    BY <1>7 DEF Seed, Steps
  <2>2. job' \in Jobs /\ job' # NoJob /\ job'.left = job.left
        /\ job'.step = "apply" /\ job'.again = job.again
    BY <1>1, <2>1, JobMoves
  <2>3. NothingLeft'
    BY <1>2, <1>6, <2>2 DEF NothingLeft
  <2> QED
    BY <1>1, <1>4, <1>5, <2>2, <2>3, MidInv DEF Known
<1>8. CASE ~ job.apply
  <2>1. job' = NextFamily
    BY <1>8 DEF Seed
  <2>2. job' \in Jobs /\ job' # NoJob /\ job'.step = "seed" /\ job'.again = job.again
    BY <1>1, <2>1, NextFamilyIs
  <2>3. NothingLeft'
    BY <2>2 DEF NothingLeft
  <2> QED
    BY <1>1, <1>4, <1>5, <2>2, <2>3, MidInv DEF Known
<1> QED
  BY <1>7, <1>8

LEMMA ApplyInv == ASSUME Inv, Apply PROVE Inv'
<1>1. /\ job # NoJob /\ job.left # <<>> /\ job.step = "apply" /\ TypeOK /\ ~ job.again
      /\ UNCHANGED <<extracted, products, saved, edits>>
  BY DEF Apply, Doing, Inv, CampaignInv, SecondTurnIsIdle
<1>0. PICK f \in Families : f = Head(job.left)
  BY <1>1, HeadIsFamily
<1>2. \/ Audit(f) = {} /\ mapping' = Applied(f)
      \/ Audit(f) # {} /\ mapping' = mapping
  BY <1>0 DEF Apply, AppliedIfClean
<1>3. /\ job' \in Jobs /\ job' # NoJob /\ job'.left = job.left
      /\ job'.step = "again" /\ job'.again = job.again
  BY <1>1, JobMoves DEF Apply, Steps
<1>4. ShelfOK(products', mapping')
  BY <1>1, <1>2, AppliedShelf, ShelfFacts
<1>5. /\ DOMAIN mapping' = Known
      /\ \A r \in Known :
           \/ mapping'[r] = mapping[r] /\ (r \in Free(f) => Audit(f) # {} \/ Exact(f, r) = {})
           \/ /\ r \in Free(f) /\ mapping'[r].source = "exact_rule"
              /\ mapping'[r].product \in Exact(f, r)
  <2>1. CASE mapping' = Applied(f)
    BY <1>1, <2>1, AppliedIs
  <2>2. CASE Audit(f) # {} /\ mapping' = mapping
    BY <2>2 DEF Known
  <2> QED
    BY <1>2, <2>1, <2>2
<1>6. SpecificOK(products', mapping')
  <2>1. \A r \in DOMAIN mapping' : mapping'[r].source = "specific" =>
          r \in DOMAIN mapping /\ mapping'[r] = mapping[r]
    BY <1>5 DEF Known
  <2> QED
    BY <1>1, <1>5, <2>1, SpecificKept, ShelfFacts DEF Known
<1>7. \A r \in Known : mapping'[r] = mapping[r] \/ ~ Mapped(r)
  BY <1>5 DEF Free
<1>8. NothingLeft'
  <2>0. extracted' = extracted /\ products' = products /\ Known' = Known
    BY <1>1, <1>5 DEF Known
  <2>1. Missing(f)' = {}
    <3>1. Missing(f) = {}
      BY <1>0, <1>1 DEF Inv, CampaignInv, NothingLeft
    <3>2. Missing(f)' = Missing(f)
      BY <2>0, OnlyWhatIsRead
    <3> QED
      BY <3>1, <3>2
  <2>2. ASSUME NEW r, r \in Free(f)', Audit(f) = {} PROVE Exact(f, r)' = {}
    <3>0. Classified(f, r)' <=> Classified(f, r)
      BY <2>0, OnlyWhatIsRead
    <3>1. r \in Known /\ mapping'[r].product = NoProduct
          /\ r \in Brico /\ Classified(f, r)
      BY <2>0, <2>2, <3>0 DEF Free, Mapped
    <3>2. mapping'[r] = mapping[r] /\ (r \in Free(f) => Exact(f, r) = {})
      BY <1>1, <1>5, <2>2, <3>1, ExactIs
    <3>3. Exact(f, r) = {}
      BY <3>1, <3>2 DEF Free, Mapped
    <3>4. Exact(f, r)' = Exact(f, r)
      BY <2>0, OnlyWhatIsRead
    <3> QED
      BY <3>3, <3>4
  <2>3. Audit(f) # {} => Audit(f)' # {}
    <3>. SUFFICES ASSUME NEW r \in Audit(f) PROVE r \in Audit(f)'
      OBVIOUS
    <3>1. mapping' = mapping
      BY <1>2
    <3>2. job'.command = job.command
      <4>1. job \in Jobs /\ job' = [job EXCEPT !.step = "again"]
        BY <1>1, JobMoves DEF Apply
      <4> QED
        BY <4>1 DEF Jobs
    <3> QED
      BY <1>1, <3>1, <3>2, AuditStands
  <2> QED
    BY <1>0, <1>3, <2>1, <2>2, <2>3 DEF NothingLeft
<1> QED
  BY <1>1, <1>3, <1>4, <1>5, <1>6, <1>7, <1>8, MidInv

\* The second turn does nothing.
LEMMA AgainIdles ==
    ASSUME Inv, Again
    PROVE  /\ job # NoJob /\ job.left # <<>>
           /\ UNCHANGED <<extracted, products, mapping, saved, edits>>
           /\ AppliedIfClean(Head(job.left)) = mapping
           /\ job' = [NextFamily EXCEPT !.again = FALSE]
<1>. DEFINE f == Head(job.left)
<1>1. /\ job # NoJob /\ job.left # <<>> /\ job.step = "again" /\ TypeOK /\ ~ job.again
      /\ UNCHANGED <<extracted, saved, edits>>
  BY DEF Again, Doing, Inv, CampaignInv, SecondTurnIsIdle
<1>2. f \in Families
  BY <1>1, HeadIsFamily
<1>3. PICK new \in IF Campaign.strict THEN Seeds(f) ELSE {<<>>} :
        /\ products' = Grown(f, new) /\ mapping' = AppliedIfClean(f)
        /\ job' = [NextFamily EXCEPT !.again = @ \/ new # <<>> \/ AppliedIfClean(f) # mapping]
  BY DEF Again
<1>4. Missing(f) = {} /\ (Audit(f) # {} \/ \A r \in Free(f) : Exact(f, r) = {})
  BY <1>1 DEF Inv, CampaignInv, NothingLeft
<1>. HIDE DEF f
<1>5. new = <<>>
  <2>1. CASE Campaign.strict
    <3>1. new \in Seeds(f)
      BY <1>3, <2>1
    <3>2. DOMAIN new = {}
      BY <1>1, <1>2, <1>4, <3>1, SeedsAre DEF NewCodes
    <3>3. \E S : new \in [S -> Missing(f)]
      BY <3>1 DEF Seeds
    <3> QED
      BY <3>2, <3>3
  <2>2. CASE ~ Campaign.strict
    BY <1>3, <2>2
  <2> QED
    BY <2>1, <2>2
<1>6. Grown(f, <<>>) = products
  <2>1. products \in [DOMAIN products -> Products]
    BY <1>1 DEF TypeOK, ShelfOK
  <2>2. Grown(f, <<>>) = [x \in DOMAIN products |-> products[x]]
    BY DEF Grown, Extended
  <2> QED
    BY <2>1, <2>2
<1>7. AppliedIfClean(f) = mapping
  <2>. SUFFICES ASSUME Audit(f) = {} PROVE Applied(f) = mapping
    BY DEF AppliedIfClean
  <2>1. mapping = [r \in Known |-> mapping[r]]
    BY <1>1 DEF TypeOK, ShelfOK, Known
  <2>2. \A r \in Known : ~ (r \in Free(f) /\ Exact(f, r) # {})
    BY <1>4
  <2>3. Applied(f) = [r \in Known |-> mapping[r]]
    BY <2>2 DEF Applied
  <2> QED
    BY <2>1, <2>3
<1>8. NextFamily.again = FALSE /\ NextFamily \in Jobs
  BY <1>1, NextFamilyIs, JobMoves DEF Jobs
<1>9. job' = [NextFamily EXCEPT !.again = FALSE]
  <2>1. (NextFamily.again \/ new # <<>> \/ AppliedIfClean(f) # mapping) = FALSE
    BY <1>5, <1>7, <1>8
  <2> QED
    BY <1>3, <2>1
<1> QED
  BY <1>1, <1>3, <1>5, <1>6, <1>7, <1>9 DEF f

LEMMA AgainInv == ASSUME Inv, Again PROVE Inv'
<1>1. /\ job # NoJob /\ job.left # <<>> /\ TypeOK
      /\ UNCHANGED <<extracted, products, mapping, saved, edits>>
      /\ job' = [NextFamily EXCEPT !.again = FALSE]
  BY AgainIdles DEF Inv
<1>2. job' \in Jobs /\ job' # NoJob /\ job'.step = "seed" /\ job'.again = FALSE
  BY <1>1, NextFamilyIs
<1>3. NothingLeft'
  BY <1>2 DEF NothingLeft
<1> QED
  BY <1>1, <1>2, <1>3, MidInv, ShelfFacts DEF Known

-----------------------------------------------------------------------------
(* The passes on the Gedimat references, and the specific products *)

\* A step of a pass that attaches free references, or moves specific ones.
LEMMA PassInv ==
    ASSUME Inv, NEW step, NEW next \in Steps \ {"apply", "again"}, Passing(step, next),
           NEW target, NEW source \in Sources \ {"specific"},
           products' = products, mapping' = AttachedBy(target, source),
           \A r \in Known \cap DOMAIN target :
             /\ target[r] \in DOMAIN products
             /\ \/ ~ Mapped(r)
                \/ r \in Gedimat /\ mapping[r].source = "specific" /\ source = "equiv"
    PROVE  Inv'
<1>1. TypeOK /\ job # NoJob /\ ~ job.again /\ UNCHANGED <<extracted, saved, edits>>
      /\ job' = [job EXCEPT !.step = next]
  BY DEF Inv, CampaignInv, SecondTurnIsIdle, Passing
<1>2. job' \in Jobs /\ job' # NoJob /\ job'.step = next /\ job'.again = job.again
  BY <1>1, JobMoves
<1>3. NothingLeft'
  BY <1>2 DEF NothingLeft
<1>4. /\ DOMAIN mapping' = Known
      /\ \A r \in Known : mapping'[r] = IF r \in DOMAIN target
                                         THEN [product |-> target[r], source |-> source]
                                         ELSE mapping[r]
  BY AttachedIs
<1>5. ShelfOK(products', mapping')
  BY <1>1, ShelfAttached DEF TypeOK
<1>6. \A r \in DOMAIN mapping' : mapping'[r].source = "specific" =>
        r \in DOMAIN mapping /\ mapping'[r] = mapping[r]
  BY <1>4 DEF Known
<1>7. SpecificOK(products', mapping')
  BY <1>4, <1>6, SpecificKept, ShelfFacts DEF Known
<1>8. \A r \in Known :
        \/ mapping'[r] = mapping[r] \/ ~ Mapped(r)
        \/ /\ r \in Gedimat
           /\ mapping[r].source = "specific" /\ mapping'[r].source = "equiv"
  BY <1>4
<1> QED
  BY <1>1, <1>2, <1>3, <1>4, <1>5, <1>7, <1>8, MidInv

LEMMA ByEanInv == ASSUME Inv, ByEan PROVE Inv'
<1>. DEFINE twins == {r \in FreeOf(Gedimat) : Ean[r] # NoEan /\ \E p \in Owners(Ean[r]) :
                                                 Owners(Ean[r]) = {p}}
            target == [r \in twins |-> CHOOSE p \in Owners(Ean[r]) : TRUE]
<1>1. Passing("ean", "rules") /\ mapping' = AttachedBy(target, "ean") /\ products' = products
  BY DEF ByEan
<1>2. ASSUME NEW r \in Known \cap DOMAIN target
      PROVE  target[r] \in DOMAIN products /\ ~ Mapped(r)
  <2>1. r \in FreeOf(Gedimat) /\ target[r] \in Owners(Ean[r])
    OBVIOUS
  <2>. HIDE DEF target
  <2>2. PICK x \in Known : target[r] = mapping[x].product /\ Mapped(x)
    BY <2>1 DEF Owners
  <2> QED
    BY <2>1, <2>2, ShelfFacts DEF FreeOf, Mapped
<1>. HIDE DEF target
<1> QED
  BY <1>1, <1>2, PassInv DEF Sources, Steps

LEMMA ByRulesInv == ASSUME Inv, ByRules PROVE Inv'
<1>. DEFINE claimed == {r \in FreeOf(Gedimat) : \E p \in Claims(r) : Claims(r) = {p}}
            target == [r \in claimed |-> CHOOSE p \in Claims(r) : TRUE]
<1>1. /\ Passing("rules", "specific") /\ mapping' = AttachedBy(target, "exact_rule")
      /\ products' = products
  BY DEF ByRules
<1>2. ASSUME NEW r \in Known \cap DOMAIN target
      PROVE  target[r] \in DOMAIN products /\ ~ Mapped(r)
  <2>1. r \in FreeOf(Gedimat) /\ target[r] \in Claims(r)
    OBVIOUS
  <2>. HIDE DEF target
  <2>2. \E f \in Families : target[r] \in Exact(f, r)
    BY <2>1 DEF Claims
  <2> QED
    BY <2>1, <2>2, ExactIs DEF FreeOf, Inv
<1>. HIDE DEF target
<1> QED
  BY <1>1, <1>2, PassInv DEF Sources, Steps

\* Where the reconciliation moves a reference: to a product that a Brico
\* reference carries, whose identity is not another one.
LEMMA TwinIs ==
    ASSUME Inv, NEW index \in Indexes, NEW r, NEW p \in Twin(r, index)
    PROVE  \E f \in Families, b \in Brico \cap Known :
             /\ mapping[b].product = p /\ Mapped(b)
             /\ Classified(f, r) /\ Classified(f, b)
             /\ \A k \in IdentityKeys(Rule[f]) :
                  IF k \in Renamed[f] THEN Agree(extracted[f][r], extracted[f][b], k)
                  ELSE ~ Clash(extracted[f][r], products[p].attrs, k)
<1>1. PICK f \in Families : Classified(f, r) /\ p \in Proposed(f, r, index)
  BY DEF Twin
<1>2. PICK b \in Compatible(f, r, index) : mapping[b].product = p
  BY <1>1 DEF Proposed
<1>3. b \in index[f] /\ SameIdentity(Rule[f], extracted[f][r], Speaks(f, b))
  BY <1>2 DEF Compatible, Bucket
<1>4. b \in Brico \cap Known /\ Mapped(b) /\ Classified(f, b)
  BY <1>3 DEF Indexes, Carriers
<1>5. ASSUME NEW k \in IdentityKeys(Rule[f])
      PROVE  IF k \in Renamed[f] THEN Agree(extracted[f][r], extracted[f][b], k)
             ELSE ~ Clash(extracted[f][r], products[p].attrs, k)
  <2>1. Agree(extracted[f][r], Speaks(f, b), k)
    BY <1>3 DEF SameIdentity
  <2>2. k \in Keys
    BY KeysOfRule
  <2>3. k \in Renamed[f] => Speaks(f, b)[k] = extracted[f][b][k]
    BY <2>2 DEF Speaks
  <2>4. k \notin Renamed[f] /\ products[p].attrs[k] # Unknown =>
          Speaks(f, b)[k] = products[p].attrs[k]
    BY <1>2, <2>2 DEF Speaks
  <2> QED
    BY <2>1, <2>3, <2>4 DEF Agree, Clash
<1> QED
  BY <1>1, <1>2, <1>4, <1>5

LEMMA ReconcileInv == ASSUME Inv, Reconcile PROVE Inv'
<1>1. Passing("reconcile", "commit") /\ products' = products
  BY DEF Reconcile
<1>2. PICK index \in Indexes :
        LET moved == {r \in Gedimat \cap Known :
                        /\ mapping[r].source = "specific"
                        /\ \E p \in Twin(r, index) :
                             Twin(r, index) = {p} /\ p # mapping[r].product}
        IN mapping' = AttachedBy([r \in moved |-> CHOOSE p \in Twin(r, index) : TRUE],
                                 "equiv")
  BY DEF Reconcile
<1>. DEFINE moved == {r \in Gedimat \cap Known :
                        /\ mapping[r].source = "specific"
                        /\ \E p \in Twin(r, index) :
                             Twin(r, index) = {p} /\ p # mapping[r].product}
            target == [r \in moved |-> CHOOSE p \in Twin(r, index) : TRUE]
<1>3. mapping' = AttachedBy(target, "equiv")
  BY <1>2
<1>4. ASSUME NEW r \in Known \cap DOMAIN target
      PROVE  /\ target[r] \in DOMAIN products
             /\ r \in Gedimat /\ mapping[r].source = "specific"
  <2>1. r \in Gedimat /\ mapping[r].source = "specific" /\ target[r] \in Twin(r, index)
    OBVIOUS
  <2>. HIDE DEF target
  <2>2. \E b \in Known : mapping[b].product = target[r] /\ Mapped(b)
    BY <2>1, TwinIs
  <2> QED
    BY <2>1, <2>2, ShelfFacts DEF Mapped
<1>. HIDE DEF target
<1> QED
  BY <1>1, <1>3, <1>4, PassInv DEF Sources, Steps

\* The designation that has a short code, before and after new specific
\* products were made, is the owner of the code.
CodesFor(refs, owner) == [r \in refs |-> SpecificOf(owner, Text[r])]
MadeFor(refs, owner) ==
  LET code == CodesFor(refs, owner)
  IN [c \in {code[r] : r \in refs} \ DOMAIN products |->
        [family |-> Other, category |-> Other,
         attrs |-> [k \in Keys |-> Unknown], active |-> TRUE,
         text |-> Text[CHOOSE r \in refs : code[r] = c]]]

LEMMA SpecificIs ==
    ASSUME Inv, NEW refs, refs \subseteq Known, NEW owner \in Holders(refs),
           NEW code, code = CodesFor(refs, owner), NEW more, more = MadeFor(refs, owner),
           NEW prods, prods = Extended(products, more)
    PROVE  /\ \A c \in DOMAIN more : /\ more[c] \in Products /\ c # NoProduct
                                      /\ more[c].text # NoProduct
           /\ \A r \in refs : code[r] \in DOMAIN prods
           /\ \A r \in refs : LET c == SpecificCode(Text[r])
                IN /\ c \in DOMAIN prods
                   /\ code[r] = IF prods[c].text = Text[r] THEN c ELSE LongCode(Text[r])
<1>. DEFINE new == {code[r] : r \in refs} \ DOMAIN products
<1>0. /\ code = [r \in refs |-> SpecificOf(owner, Text[r])]
      /\ more = [c \in new |->
                   [family |-> Other, category |-> Other,
         attrs |-> [k \in Keys |-> Unknown], active |-> TRUE,
                    text |-> Text[CHOOSE r \in refs : code[r] = c]]]
  BY DEF CodesFor, MadeFor
<1>1. \A r \in refs : /\ Text[r] \in Designations /\ Text[r] # NoProduct
                       /\ code[r] = SpecificOf(owner, Text[r])
  BY <1>0, ShelfFacts, CodesAssumption DEF Designations
<1>2. \A r \in refs : code[r] \in {SpecificCode(Text[r]), LongCode(Text[r])}
  BY <1>1 DEF SpecificOf
<1>3. /\ DOMAIN more = new /\ DOMAIN prods = DOMAIN products \cup new
      /\ \A c \in DOMAIN products : prods[c] = products[c]
      /\ \A c \in new : prods[c] = more[c]
  <2>1. DOMAIN more = new /\ new \cap DOMAIN products = {}
    BY <1>0
  <2>2. /\ DOMAIN prods = DOMAIN products \cup DOMAIN more
        /\ \A x \in DOMAIN products : prods[x] = products[x]
        /\ \A x \in DOMAIN more \ DOMAIN products : prods[x] = more[x]
    BY DEF Extended
  <2>. HIDE DEF new
  <2> QED
    BY <2>1, <2>2
<1>4. ASSUME NEW c \in new
      PROVE  /\ more[c] \in Products /\ c # NoProduct
             /\ \E r \in refs : code[r] = c /\ more[c].text = Text[r]
  <2>. DEFINE r == CHOOSE x \in refs : code[x] = c
  <2>1. r \in refs /\ code[r] = c
    OBVIOUS
  <2>2. more[c] = [family |-> Other, category |-> Other,
         attrs |-> [k \in Keys |-> Unknown], active |-> TRUE,
                   text |-> Text[r]]
    BY <1>0
  <2>. HIDE DEF r
  <2>3. Text[r] \in Designations
    BY <1>1, <2>1
  <2>4. c # NoProduct
    BY <1>2, <2>1, <2>3, CodesAssumption
  <2>5. more[c] \in Products
    BY <2>2, <2>3 DEF Products, Attrs, Categories
  <2> QED
    BY <2>1, <2>2, <2>4, <2>5
<1>5. \A c \in DOMAIN more : more[c].text # NoProduct
  BY <1>1, <1>3, <1>4
<1>6. \A r \in refs : code[r] \in DOMAIN prods
  BY <1>3
<1>7. ASSUME NEW r \in refs
      PROVE  LET c == SpecificCode(Text[r])
             IN /\ c \in DOMAIN prods /\ prods[c].text = owner[c] /\ owner[c] # NoProduct
  <2>. DEFINE c == SpecificCode(Text[r])
  <2>1. /\ c \in DOMAIN owner
        /\ IF c \in DOMAIN products THEN owner[c] = products[c].text
           ELSE \E x \in refs : owner[c] = Text[x] /\ SpecificCode(Text[x]) = c
    BY DEF Holders
  <2>2. CASE c \in DOMAIN products
    <3>1. products[c].text # NoProduct
      BY <1>1, <2>2, ShelfFacts DEF SpecificOK
    <3> QED
      BY <1>3, <2>1, <2>2, <3>1
  <2>3. CASE c \notin DOMAIN products
    <3>1. PICK x \in refs : owner[c] = Text[x] /\ SpecificCode(Text[x]) = c
      BY <2>1, <2>3
    <3>2. code[x] = c
      BY <1>1, <3>1 DEF SpecificOf
    <3>3. c \in new
      BY <2>3, <3>2
    <3>4. PICK y \in refs : code[y] = c /\ more[c].text = Text[y]
      BY <1>4, <3>3
    <3>5. code[y] # LongCode(Text[y])
      BY <1>1, <3>1, <3>4, CodesAssumption
    <3>6. SpecificCode(Text[y]) = c /\ owner[c] \in {Text[y], NoProduct}
      BY <1>1, <3>4, <3>5 DEF SpecificOf
    <3>7. owner[c] = Text[y] /\ owner[c] # NoProduct
      BY <1>1, <3>1, <3>6
    <3> QED
      BY <1>3, <3>3, <3>4, <3>7
  <2> QED
    BY <2>2, <2>3
<1>8. ASSUME NEW r \in refs
      PROVE  LET c == SpecificCode(Text[r])
             IN /\ c \in DOMAIN prods
                /\ code[r] = IF prods[c].text = Text[r] THEN c ELSE LongCode(Text[r])
  BY <1>1, <1>7 DEF SpecificOf
<1> QED
  BY <1>3, <1>4, <1>5, <1>6, <1>8

LEMMA BySpecificInv == ASSUME Inv, BySpecific PROVE Inv'
<1>1. /\ TypeOK /\ job # NoJob /\ ~ job.again /\ UNCHANGED <<extracted, saved, edits>>
      /\ job' = [job EXCEPT !.step = "commit"]
  BY DEF Inv, CampaignInv, SecondTurnIsIdle, BySpecific, Passing
<1>2. job' \in Jobs /\ job' # NoJob /\ job'.step = "commit" /\ job'.again = job.again
  BY <1>1, JobMoves DEF Steps
<1>3. NothingLeft'
  BY <1>2 DEF NothingLeft
<1>4. PICK refs : refs \subseteq Known /\ (\A r \in refs : ~ Mapped(r)) /\ Specific(refs)
  BY DEF BySpecific, FreeOf
<1>5. PICK owner \in Holders(refs) :
        LET code == [r \in refs |-> SpecificOf(owner, Text[r])]
            new == {code[r] : r \in refs} \ DOMAIN products
        IN /\ mapping' = AttachedBy(code, "specific")
           /\ products' = Extended(products,
                [c \in new |-> [family |-> Other, category |-> Other,
                                attrs |-> [k \in Keys |-> Unknown], active |-> TRUE,
                                text |-> Text[CHOOSE r \in refs : code[r] = c]]])
  BY <1>4 DEF Specific
<1>. DEFINE code == CodesFor(refs, owner)
            more == MadeFor(refs, owner)
            prods == Extended(products, more)
<1>6. mapping' = AttachedBy(code, "specific") /\ products' = prods
  BY <1>5 DEF CodesFor, MadeFor
<1>7. /\ \A c \in DOMAIN more : more[c] \in Products /\ c # NoProduct /\ more[c].text # NoProduct
      /\ \A r \in refs : code[r] \in DOMAIN prods
      /\ \A r \in refs : LET c == SpecificCode(Text[r])
           IN /\ c \in DOMAIN prods
              /\ code[r] = IF prods[c].text = Text[r] THEN c ELSE LongCode(Text[r])
  <2>. HIDE DEF code, more, prods
  <2>1. code = CodesFor(refs, owner) /\ more = MadeFor(refs, owner)
        /\ prods = Extended(products, more)
    BY DEF code, more, prods
  <2>2. refs \subseteq Known
    BY <1>4
  <2> QED
    BY <2>1, <2>2, SpecificIs, SMTT(60)
<1>8. DOMAIN code = refs /\ more = [c \in DOMAIN more |-> more[c]]
  BY DEF CodesFor, MadeFor
<1>. HIDE DEF code, more
<1>9. /\ DOMAIN prods = DOMAIN products \cup DOMAIN more
      /\ \A c \in DOMAIN products : prods[c] = products[c]
      /\ \A c \in DOMAIN more \ DOMAIN products : prods[c] = more[c]
  BY ExtendedIs
<1>10. ShelfOK(prods, mapping)
  <2>1. more \in [DOMAIN more -> Products] /\ NoProduct \notin DOMAIN more
    BY <1>7, <1>8
  <2> QED
    BY <1>1, <2>1, ShelfGrows DEF TypeOK
<1>. HIDE DEF prods
<1>11. ShelfOK(products', mapping')
  BY <1>6, <1>7, <1>8, <1>10, ShelfAttached DEF Sources
<1>12. /\ DOMAIN mapping' = Known
       /\ \A r \in Known : mapping'[r] = IF r \in refs
                                          THEN [product |-> code[r], source |-> "specific"]
                                          ELSE mapping[r]
  BY <1>6, <1>8, AttachedIs
<1>13. SpecificOK(products', mapping')
  <2>1. ASSUME NEW t \in Designations, SpecificCode(t) \in DOMAIN prods
        PROVE  prods[SpecificCode(t)].text # NoProduct
    BY <1>7, <1>9, <2>1, ShelfFacts DEF SpecificOK
  <2>2. ASSUME NEW r \in Known, mapping'[r].source = "specific"
        PROVE  LET c == SpecificCode(Text[r])
               IN /\ c \in DOMAIN prods
                  /\ mapping'[r].product = IF prods[c].text = Text[r] THEN c
                                                                     ELSE LongCode(Text[r])
    <3>1. CASE r \in refs
      BY <1>7, <1>12, <3>1
    <3>2. CASE r \notin refs
      <4>1. mapping'[r] = mapping[r]
        BY <1>12, <3>2
      <4>2. LET c == SpecificCode(Text[r])
            IN /\ c \in DOMAIN products
               /\ mapping[r].product = IF products[c].text = Text[r] THEN c
                                                                    ELSE LongCode(Text[r])
        BY <2>2, <4>1, ShelfFacts DEF SpecificOK, Known
      <4> QED
        BY <1>9, <4>1, <4>2
    <3> QED
      BY <3>1, <3>2
  <2> QED
    BY <1>6, <1>12, <2>1, <2>2 DEF SpecificOK
<1> QED
  BY <1>1, <1>2, <1>3, <1>4, <1>11, <1>12, <1>13, MidInv

-----------------------------------------------------------------------------
(* The invariant holds *)

LEMMA InvInit == ASSUME Init PROVE Inv
<1>1. /\ DOMAIN products = {} /\ products = <<>> /\ Known = Imported
      /\ mapping = [r \in Imported |-> None]
      /\ saved = Shelf /\ job = NoJob /\ edits = 0 /\ extracted \in Readings
  BY DataAssumption DEF Init, Known
<1>2. products \in [DOMAIN products -> Products]
  BY <1>1
<1>3. ShelfOK(products, mapping)
  <2>1. None \in [product : DOMAIN products \cup {NoProduct}, source : Sources]
    BY DEF None, Sources
  <2> QED
    BY <1>1, <1>2, <2>1, DataAssumption DEF ShelfOK, None
<1>4. SpecificOK(products, mapping)
  BY <1>1 DEF SpecificOK, None
<1>5. saved.products = products /\ saved.mapping = mapping /\ saved = Shelf
  BY <1>1 DEF Shelf
<1>6. TypeOK
  BY <1>1, <1>3, <1>5, DataAssumption DEF TypeOK, Shelf
<1>7. CampaignInv
  BY <1>1, <1>4, <1>5 DEF CampaignInv, StillStands, SecondTurnIsIdle, NothingLeft
<1> QED
  BY <1>6, <1>7 DEF Inv

LEMMA InvStep == ASSUME Inv, [Next]_vars PROVE Inv'
<1>0. /\ DOMAIN Campaigns \subseteq Commands /\ {"gedimat", "specific", "reconcile"} \subseteq Commands
      /\ \A c \in DOMAIN Campaigns : Campaigns[c].families \in Seq(Families)
      /\ <<>> \in Seq(Families)
      /\ {"seed", "ean", "specific", "reconcile"} \subseteq Steps \ {"apply", "again"}
  BY DataAssumption DEF Commands, Steps
<1>1. CASE Edit
  BY <1>1, EditInv
<1>2. ASSUME NEW c \in DOMAIN Campaigns, NEW apply \in BOOLEAN, Start(c, apply) PROVE Inv'
  BY <1>0, <1>2, BeginInv DEF Start
<1>3. ASSUME NEW c \in {"gedimat", "specific", "reconcile"},
             NEW step \in {"ean", "specific", "reconcile"}, StartPass(c, step)
      PROVE  Inv'
  BY <1>0, <1>3, BeginInv DEF StartPass
<1>4. CASE Seed
  BY <1>4, SeedInv
<1>5. CASE Apply
  BY <1>5, ApplyInv
<1>6. CASE Again
  BY <1>6, AgainInv
<1>7. CASE Finish
  BY <1>7, CommittedInv, GivenUpInv DEF Finish
<1>8. CASE ByEan
  BY <1>8, ByEanInv
<1>9. CASE ByRules
  BY <1>9, ByRulesInv
<1>10. CASE BySpecific
  BY <1>10, BySpecificInv
<1>11. CASE Reconcile
  BY <1>11, ReconcileInv
<1>12. CASE Commit
  BY <1>12, CommittedInv DEF Commit
<1>13. CASE Crash
  BY <1>13, GivenUpInv DEF Crash
<1>14. CASE UNCHANGED vars
  <2>1. UNCHANGED <<extracted, products, mapping, saved, job, edits>> /\ TypeOK
    BY <1>14 DEF vars, Inv
  <2>2. TypeOK'
    BY <2>1 DEF TypeOK
  <2>3. StillStands' /\ SecondTurnIsIdle'
    BY <2>1 DEF Inv, CampaignInv, StillStands, SecondTurnIsIdle, Known, Shelf
  <2>4. NothingLeft'
    <3>. SUFFICES ASSUME job # NoJob, job.left # <<>>
                  PROVE  NothingLeft'
      BY <2>1 DEF NothingLeft
    <3>1. PICK f \in Families : f = Head(job.left)
      BY <2>1, HeadIsFamily
    <3>2. /\ job.step \in {"apply", "again"} => Missing(f) = {}
          /\ job.step = "again" => Audit(f) # {} \/ \A r \in Free(f) : Exact(f, r) = {}
      BY <3>1 DEF Inv, CampaignInv, NothingLeft
    <3>6. Audit(f) # {} => Audit(f)' # {}
      <4>. SUFFICES ASSUME NEW r \in Audit(f) PROVE r \in Audit(f)'
        OBVIOUS
      <4> QED
        BY <2>1, AuditStands
    <3>3. Known' = Known
      BY <2>1 DEF Known
    <3>4. /\ Missing(f)' = Missing(f)
          /\ \A r : (Classified(f, r)' <=> Classified(f, r)) /\ Exact(f, r)' = Exact(f, r)
      BY <2>1, <3>3, OnlyWhatIsRead, Zenon
    <3>5. \A r : r \in Free(f)' => r \in Free(f)
      BY <2>1, <3>3, <3>4 DEF Free, Mapped
    <3> QED
      BY <2>1, <3>1, <3>2, <3>4, <3>5, <3>6 DEF NothingLeft
  <2> QED
    BY <2>1, <2>2, <2>3, <2>4 DEF Inv, CampaignInv
<1> QED
  BY <1>1, <1>2, <1>3, <1>4, <1>5, <1>6, <1>7, <1>8, <1>9, <1>10, <1>11, <1>12, <1>13, <1>14
     DEF Next

\* Whatever the campaigns, the edits and the crashes, in any order.
THEOREM CampaignInvariant == Spec => []Inv
<1>1. Init => Inv
  BY InvInit
<1>2. Inv /\ [Next]_vars => Inv'
  BY InvStep
<1> QED
  BY <1>1, <1>2, PTL DEF Spec

-----------------------------------------------------------------------------
(* What the campaigns promise *)

\* Every state is well formed: references go to products that exist.
THEOREM TypeCorrect == Spec => []TypeOK
<1>1. Inv => TypeOK
  BY DEF Inv
<1> QED
  BY <1>1, CampaignInvariant, PTL

\* The second turn of a campaign finds nothing to do, whatever the rules, the
\* codes that collide and the edits before it (mass_pass2.py:878-884).
THEOREM SecondTurnIdles == Spec => []SecondTurnIsIdle
<1>1. Inv => SecondTurnIsIdle
  BY DEF Inv, CampaignInv
<1> QED
  BY <1>1, CampaignInvariant, PTL

\* Specific references share a product exactly when they have one designation
\* (mass_specific.py:3-4).
THEOREM SpecificGoByText == Spec => []SpecificByText
<1>1. Inv => SpecificByText
  <2>. SUFFICES ASSUME Inv, NEW r \in Known, NEW s \in Known,
                       mapping[r].source = "specific", mapping[s].source = "specific"
                PROVE  mapping[r].product = mapping[s].product <=> Text[r] = Text[s]
    BY DEF SpecificByText
  <2>. DEFINE where(x) == IF products[SpecificCode(Text[x])].text = Text[x]
                          THEN SpecificCode(Text[x]) ELSE LongCode(Text[x])
  <2>1. mapping[r].product = where(r) /\ mapping[s].product = where(s)
    BY DEF Inv, CampaignInv, SpecificOK, Known
  <2>2. Text[r] \in Designations /\ Text[s] \in Designations
    BY ShelfFacts DEF Designations
  <2>3. /\ LongCode(Text[r]) # SpecificCode(Text[s]) /\ LongCode(Text[s]) # SpecificCode(Text[r])
        /\ LongCode(Text[r]) = LongCode(Text[s]) => Text[r] = Text[s]
    BY <2>2, CodesAssumption
  <2>4. where(r) = where(s) => Text[r] = Text[s]
    BY <2>3
  <2>5. Text[r] = Text[s] => where(r) = where(s)
    OBVIOUS
  <2> QED
    BY <2>1, <2>4, <2>5
<1> QED
  BY <1>1, CampaignInvariant, PTL

\* A campaign attaches a free reference, and only to the one product that fits
\* it (generic_matcher.py:1-5, apply_exact_for_rule).
THEOREM CampaignsAttachTheOnlyFit == Spec => ExactIsTheOnlyFit
<1>. DEFINE Attached(r) ==
       mapping'[r] # mapping[r] =>
         /\ ~ Mapped(r)
         /\ LET f == Head(job.left)
            IN TheOnlyFit(Rule[f], extracted[f][r], mapping'[r].product, Candidates(f))
<1>1. Inv /\ Apply => \A r \in Known : Attached(r)
  <2>. SUFFICES ASSUME Inv, Apply, NEW r \in Known, mapping'[r] # mapping[r]
                PROVE  Attached(r)
    OBVIOUS
  <2>. DEFINE f == Head(job.left)
  <2>1. mapping' = Applied(f) /\ TypeOK
    BY DEF Apply, AppliedIfClean, Inv
  <2>. HIDE DEF f
  <2>2. r \in Free(f) /\ Applied(f)[r].product \in Exact(f, r)
    BY <2>1, AppliedIs
  <2>3. TheOnlyFit(Rule[f], extracted[f][r], Applied(f)[r].product, Candidates(f))
    BY <2>1, <2>2, ExactIs
  <2> QED
    BY <2>1, <2>2, <2>3 DEF f, Free
<1>2. Inv /\ Again => \A r \in Known : Attached(r)
  BY AgainIdles
<1>3. Inv /\ [Next]_vars =>
        [(Apply \/ Again) => \A r \in Known : Attached(r)]_vars
  BY <1>1, <1>2
<1> QED
  BY <1>3, CampaignInvariant, PTL DEF Spec, ExactIsTheOnlyFit

\* A seed that looks at identities leaves the one fit of a reference its only
\* fit, when it could see it: what it adds has an identity that no product of
\* its shelf has in its own words.
THEOREM SeedsKeepFits == Spec => SeedKeepsTheFit
<1>. DEFINE Kept == \A f \in Families : \A r \in Free(f) : \A p \in Exact(f, r) :
               /\ f = Head(job.left) /\ Style[f] = "identity"
               /\ p \in OnShelf(f) /\ Complete(Rule[f], products[p].attrs)
               => Exact(f, r)' = {p}
<1>1. Inv /\ Seed => Kept
  <2>. SUFFICES ASSUME Inv, Seed, NEW f \in Families, NEW r \in Free(f),
                       f = Head(job.left), Style[f] = "identity", NEW p \in Exact(f, r),
                       p \in OnShelf(f), Complete(Rule[f], products[p].attrs)
                PROVE  Exact(f, r)' = {p}
    OBVIOUS
  <2>. DEFINE e == extracted[f][r]
  <2>1. PICK new \in Seeds(f) : products' = Grown(f, new)
    BY DEF Seed
  <2>2. TypeOK /\ extracted' = extracted /\ mapping' = mapping
    BY DEF Inv, Seed
  <2>3. /\ TheOnlyFit(Rule[f], e, p, Candidates(f)) /\ HasRequiredInput(Rule[f], e)
        /\ Complete(Rule[f], e) /\ p \in DOMAIN products
    BY <2>2, ExactIs
  <2>4. \A attrs \in Attrs : \A k \in IdentityKeys(Rule[f]) :
          attrs[k] # Unknown => Enrich(f, attrs)[k] = attrs[k]
    BY EnrichAssumption, KeysOfRule
  <2>5. /\ \A q \in DOMAIN products : q \in DOMAIN products' /\ products'[q] = products[q]
        /\ \A q \in DOMAIN products' \ DOMAIN products :
             \E id \in Missing(f) : products'[q] = Stored(f, id)
        /\ NoProduct \notin DOMAIN products'
    <3>1. /\ DOMAIN Grown(f, new) = DOMAIN products \cup NewCodes(f)
          /\ \A q \in DOMAIN products : Grown(f, new)[q] = products[q]
          /\ \A c \in DOMAIN Grown(f, new) \ DOMAIN products :
               \E id \in Missing(f) : c = CodeOf(f, id) /\ Grown(f, new)[c] = Stored(f, id)
      BY <2>2, GrownIs, Zenon
    <3>2. ShelfOK(Grown(f, new), mapping)
      BY <2>2, GrownShelf
    <3> QED
      BY <2>1, <3>1, <3>2 DEF ShelfOK
  <2>6. /\ p \in DOMAIN Candidates(f) /\ p \in DOMAIN Candidates(f)'
        /\ Candidates(f)'[p] = Enrich(f, products[p].attrs)
        /\ Candidates(f)[p] = Enrich(f, products[p].attrs)
    BY <2>3, <2>5 DEF TheOnlyFit, Candidates
  <2>7. ASSUME NEW q \in DOMAIN Candidates(f)' \ {p}
        PROVE  ~ Fits(Rule[f], e, Candidates(f)'[q])
    <3>1. q \in DOMAIN products' /\ Candidates(f)'[q] = Enrich(f, products'[q].attrs)
          /\ products'[q].family = f /\ products'[q].active
      BY DEF Candidates
    <3>2. CASE q \in DOMAIN products
      <4>1. q \in DOMAIN Candidates(f) /\ Candidates(f)[q] = Enrich(f, products'[q].attrs)
        BY <2>5, <3>1, <3>2 DEF Candidates
      <4> QED
        BY <2>3, <3>1, <4>1 DEF TheOnlyFit
    <3>3. CASE q \notin DOMAIN products
      <4>1. PICK id \in Missing(f) : products'[q] = Stored(f, id)
        BY <2>5, <3>1, <3>3
      <4>2. id \in Identities(f) /\ IdentityKeys(Rule[f]) \subseteq Keys
        BY <2>2, MissingAreIdentities, KeysOfRule
      <4>3. \A k \in IdentityKeys(Rule[f]) : Candidates(f)'[q][k] = id[k]
        <5>1. Stored(f, id).attrs = [k \in Keys |-> IF k \in DOMAIN id THEN id[k] ELSE Unknown]
          BY DEF Stored
        <5>2. Stored(f, id).attrs \in Attrs
          BY <4>2, StoredIsProduct DEF Products
        <5>3. \A k \in IdentityKeys(Rule[f]) :
                Stored(f, id).attrs[k] = id[k] /\ id[k] # Unknown
          BY <4>2, <5>1, NothingIsNothing DEF Identities
        <5> QED
          BY <2>4, <3>1, <4>1, <5>2, <5>3
      <4>4. Identity(f, products[p].attrs) # id
        BY <4>1 DEF Missing
      <4>5. \A k \in IdentityKeys(Rule[f]) : products[p].attrs[k] = e[k]
        <5>1. products[p].attrs \in Attrs
          BY <2>3, ShelfFacts DEF Products
        <5>2. \A k \in IdentityKeys(Rule[f]) : Enrich(f, products[p].attrs)[k] = products[p].attrs[k]
          BY <2>4, <5>1 DEF Complete
        <5>3. \A k \in IdentityKeys(Rule[f]) : Enrich(f, products[p].attrs)[k] = e[k]
          BY <2>3, <2>6 DEF TheOnlyFit, Fits, SameIdentity, Agree
        <5> QED
          BY <5>2, <5>3
      <4>6. PICK k \in IdentityKeys(Rule[f]) : e[k] # id[k]
        <5>1. id = [k \in IdentityKeys(Rule[f]) |-> id[k]]
          BY <4>2 DEF Identities
        <5> QED
          BY <4>4, <4>5, <5>1 DEF Identity
      <4> QED
        BY <3>1, <4>3, <4>6 DEF Fits, SameIdentity, Agree
    <3> QED
      BY <3>2, <3>3
  <2>8. TheOnlyFit(Rule[f], e, p, Candidates(f)')
    BY <2>3, <2>6, <2>7 DEF TheOnlyFit
  <2>9. NoProduct \notin DOMAIN Candidates(f)'
    BY <2>5 DEF Candidates
  <2>10. ExactProducts(Rule[f], e, Candidates(f)') = {p}
    BY <2>3, <2>8, <2>9, FitIsExact
  <2> QED
    BY <2>2, <2>10 DEF Exact
<1>2. Inv /\ [Next]_vars => [Seed => Kept]_vars
  BY <1>1
<1> QED
  BY <1>2, CampaignInvariant, PTL DEF Spec, SeedKeepsTheFit

\* What was committed stands after a command, but for the twins.
THEOREM CommittedMappingsStand == Spec => MappingStands
<1>. DEFINE Stands(r) ==
       LET was == saved.mapping[r] IN LET is == saved'.mapping[r]
       IN was.product # NoProduct /\ is # was =>
            \/ job = NoJob
            \/ was.source = "specific" /\ is.source = "equiv" /\ r \in Gedimat
<1>1. Inv /\ [Next]_vars => \A r \in DOMAIN saved.mapping : Stands(r)
  <2>. SUFFICES ASSUME Inv, [Next]_vars, NEW r \in DOMAIN saved.mapping,
                       saved.mapping[r].product # NoProduct, job # NoJob
                PROVE  \/ saved'.mapping[r] = saved.mapping[r]
                       \/ /\ r \in Gedimat /\ saved.mapping[r].source = "specific"
                          /\ saved'.mapping[r].source = "equiv"
    OBVIOUS
  <2>1. saved' = saved \/ saved' = Shelf
    <3>1. ~ Edit
      <4>1. ASSUME NEW a, NEW b PROVE ~ Edited(a, b)
        BY DEF Edited
      <4> QED
        BY <4>1 DEF Edit, Import, Attach, Create, Retire
    <3> QED
      BY <3>1 DEF Next, vars, Start, StartPass, Seed, Apply, Again, Finish, Crash, ByEan,
                  ByRules, BySpecific, Reconcile, Passing, Commit
  <2>2. r \in Known /\ (saved' = Shelf => saved'.mapping = mapping)
    BY DEF Inv, CampaignInv, StillStands, Known, Shelf
  <2>3. \/ mapping[r] = saved.mapping[r]
        \/ /\ r \in Gedimat
           /\ saved.mapping[r].source = "specific" /\ mapping[r].source = "equiv"
    BY <2>2 DEF Inv, CampaignInv, StillStands
  <2> QED
    BY <2>1, <2>2, <2>3
<1>2. Inv /\ [Next]_vars => [\A r \in DOMAIN saved.mapping : Stands(r)]_vars
  BY <1>1
<1> QED
  BY <1>2, CampaignInvariant, PTL DEF Spec, MappingStands

\* A twin is carried by a Brico reference, and is of no other identity by what
\* the product says, or by what that reference says of a renamed length.
THEOREM TwinsAreCarried == Spec => TwinIsCarried
<1>. DEFINE FromCarrier(r) ==
       mapping'[r] # mapping[r] =>
         \E f \in Families, b \in Brico \cap Known :
           /\ mapping[b].product = mapping'[r].product
           /\ Classified(f, r) /\ Classified(f, b)
           /\ \A k \in IdentityKeys(Rule[f]) :
                IF k \in Renamed[f] THEN Agree(extracted[f][r], extracted[f][b], k)
                ELSE ~ Clash(extracted[f][r], products[mapping'[r].product].attrs, k)
<1>1. Inv /\ Reconcile => \A r \in Known : FromCarrier(r)
  <2>. SUFFICES ASSUME Inv, Reconcile, NEW r \in Known, mapping'[r] # mapping[r]
                PROVE  FromCarrier(r)
    OBVIOUS
  <2>1. PICK index \in Indexes :
          LET moved == {x \in Gedimat \cap Known :
                          /\ mapping[x].source = "specific"
                          /\ \E p \in Twin(x, index) :
                               Twin(x, index) = {p} /\ p # mapping[x].product}
          IN mapping' = AttachedBy([x \in moved |-> CHOOSE p \in Twin(x, index) : TRUE],
                                   "equiv")
    BY DEF Reconcile
  <2>2. PICK p \in Twin(r, index) : p = mapping'[r].product
    BY <2>1 DEF AttachedBy
  <2>3. PICK f \in Families, b \in Brico \cap Known :
          /\ mapping[b].product = p /\ Classified(f, r) /\ Classified(f, b)
          /\ \A k \in IdentityKeys(Rule[f]) :
               IF k \in Renamed[f] THEN Agree(extracted[f][r], extracted[f][b], k)
               ELSE ~ Clash(extracted[f][r], products[p].attrs, k)
    BY TwinIs
  <2> QED
    BY <2>2, <2>3
<1>2. Inv /\ [Next]_vars => [Reconcile => \A r \in Known : FromCarrier(r)]_vars
  BY <1>1
<1> QED
  BY <1>2, CampaignInvariant, PTL DEF Spec, TwinIsCarried
=============================================================================
