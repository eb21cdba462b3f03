----------------------------- MODULE Discovery ------------------------------
(***************************************************************************)
(* The reports about a catalogue, which write nothing: catalog-discover    *)
(* (versions 1 and 2), catalog-batch-discover and catalog-batch-           *)
(* consolidate (services/product_mapping). Each reads the references,      *)
(* works on what it read, reads them again and gives up when a mapping has *)
(* changed: other people go on working meanwhile. batch-consolidate reads  *)
(* them, runs batch-discover, which reads them for itself, and consolidates *)
(* the families of the one with the rows of the other.                     *)
(***************************************************************************)
EXTENDS Clustering, FiniteSetsExt, SequencesExt

CONSTANTS Tables,       \* the references there may be at first
          Designations, \* sequences of words
          Renamed,      \* those that other people may give
          Features,     \* designation -> what is recognised in it
          Nouns,        \* words for a kind of product
          Marks,        \* words for a head, a finish, a material
          Rules,        \* the registered categories, in order
          Classified,   \* category -> the designations it recognises
          Idf(_, _),    \* in how many of how many -> how telling
          MinSize, MinPair, MinChild, MinFamily,
          Recluster,    \* size from which a group is split
          MinSeeds,     \* groups below which there is no median
          ManyPairs,    \* pairs from which a split group is scattered
          ManyWords,    \* shared words from which a label says little
          None,
          MaxChanges    \* bound on what other people do

Wording == ToSet(Words)
Reference == [text : Designations, product : {"p", None}]
ASSUME DataAssumption ==
  /\ Words \in Seq(Wording) /\ Rules \in Seq(ToSet(Rules)) /\ None \notin ToSet(Rules)
  /\ Designations \subseteq Seq(Wording) /\ Renamed \subseteq Designations
  /\ \A t \in Tables : IsFiniteSet(DOMAIN t) /\ t \in [DOMAIN t -> Reference]

Commands == {"discover 1", "discover 2", "batch", "consolidate"}

VARIABLES table,   \* id -> designation and product of the references there are
          tool,    \* the command and how far it is, and what it has read
          report,
          changes
vars == <<table, tool, report, changes>>

Read(rows) == [i \in DOMAIN rows |-> rows[i].text]
Count(rows, ids, Test(_)) == Cardinality({i \in ids : Test(rows[i])})
Unmapped(rows, ids) == {i \in ids : rows[i].product = None}

-----------------------------------------------------------------------------
\* Stage A: the references that the first of the registered categories takes.
FirstRule(text) ==
  LET which == {k \in DOMAIN Rules : text \in Classified[Rules[k]]}
  IN IF which = {} THEN None ELSE Rules[Min(which)]
Known(rows) == [c \in ToSet(Rules) |-> {i \in DOMAIN rows : FirstRule(rows[i].text) = c}]
Remainder(rows) == {i \in DOMAIN rows : FirstRule(rows[i].text) = None}

-----------------------------------------------------------------------------
\* Stage B, version 2: pairs, then the words of what is left.
WordsOfTheRest(rows, ids, pairs) == Gathered(Read(rows), pairs.left, 1, MinSize, {})

\* The median of how telling the words are, doubled; below four, nobody is
\* under it.
Telling(rows, ids, t) == Idf(Df(Read(rows), ids, t), Cardinality(ids))
DoubledThreshold(rows, ids, seeds) ==
  LET told == SetToSortSeq(seeds, LAMBDA s, t :
                \/ Telling(rows, ids, s) < Telling(rows, ids, t)
                \/ Telling(rows, ids, s) = Telling(rows, ids, t) /\ Before(s, t))
      n == Len(told)
  IN IF n < MinSeeds THEN 0
     ELSE Telling(rows, ids, told[(n + 1) \div 2]) + Telling(rows, ids, told[n \div 2 + 1])
SaysLittle(rows, ids, t, doubled) == Len(t) = 1 /\ 2 * Telling(rows, ids, t) < doubled

\* A group, split by the pairs inside it when it is large, or says little.
Inside(rows, ids, members, seed) == Gathered(Read(rows), members, 2, MinChild, {seed})
Group(rows, ids, seed, members, doubled) ==
  LET split == \/ Cardinality(members) >= Recluster
               \/ /\ SaysLittle(rows, ids, seed, doubled)
                  /\ Cardinality(members) >= 2 * MinChild
      inside == Inside(rows, ids, members, seed)
  IN [seed |-> seed, members |-> members, split |-> split,
      children |-> IF split THEN inside.groups ELSE <<>>,
      rest |-> IF split THEN inside.left ELSE {},
      pairs |-> IF split THEN inside.seeds ELSE 0]

\* assign_clusters, assign_clusters_v2.
Version1(rows, ids) == Gathered(Read(rows), ids, 1, MinSize, {})
Version2(rows, ids) ==
  LET pairs == Gathered(Read(rows), ids, 2, MinPair, {})
      words == WordsOfTheRest(rows, ids, pairs)
      doubled == DoubledThreshold(rows, ids, DOMAIN words.groups)
      groups(g) == {Group(rows, ids, t, g[t], doubled) : t \in DOMAIN g}
  IN [groups |-> groups(pairs.groups) \cup groups(words.groups),
      residual |-> words.left, doubled |-> doubled]

\* v2_destination_paths: where each reference has gone.
PathOf(a, i) ==
  LET in == {g \in a.groups : i \in g.members}
      of(g) == {t \in DOMAIN g.children : i \in g.children[t]}
  IN IF in = {} THEN <<"residual">>
     ELSE LET g == CHOOSE x \in in : TRUE
          IN IF of(g) # {} THEN <<g.seed, CHOOSE t \in of(g) : TRUE>>
             ELSE IF g.split THEN <<g.seed, "others">> ELSE <<g.seed>>

-----------------------------------------------------------------------------
\* is_generic_cluster: a label that does not explain its references. All of
\* them hold the seed, so a pair that is not split is never generic.
Lexicons == {"fastener", "panel", "profile", "pipe", "paint", "bagged", "tile", "insulation",
             "ambiguity"}
Technical(r) == Features[r.text] \ Lexicons # {}
Reported == {"trip", "pair", "bar", "pieces", "volume", "weight", "dn"}
ReportedTechnical(r) == Features[r.text] \cap Reported # {}
Scattered(g) ==
  /\ g.split /\ g.pairs > ManyPairs
  /\ \A t \in DOMAIN g.children :
       100 * Cardinality(g.children[t]) < 40 * Cardinality(g.members)
SharedWords(rows, g) ==
  {t \in AllTerms(Read(rows), g.members, 1) :
     /\ t[1] \notin Both(g.seed)
     /\ 100 * Df(Read(rows), g.members, t) > 30 * Cardinality(g.members)}
Generic(rows, ids, g, doubled) ==
  /\ Len(g.seed) = 2 => g.split
  /\ \/ Scattered(g)
     \/ /\ 100 * Count(rows, g.members, ReportedTechnical) < 15 * Cardinality(g.members)
        /\ Cardinality(SharedWords(rows, g)) > ManyWords
     \/ SaysLittle(rows, ids, g.seed, doubled)

\* The same question in batch-discover, which fills neither the cohesion nor
\* the shared words of the report it asks about.
Noisy(rows, ids, g, doubled) == Scattered(g) \/ SaysLittle(rows, ids, g.seed, doubled)

\* build_actionable_families: the children of a generic group, the group
\* itself otherwise.
Offered(generic, g) ==
  IF generic THEN {g.children[t] : t \in DOMAIN g.children} ELSE {g.members}
Actionable(rows, ids, a) ==
  {s \in UNION {Offered(Generic(rows, ids, g, a.doubled), g) : g \in a.groups} :
     Cardinality(s) >= MinSize}

-----------------------------------------------------------------------------
\* batch-discover: what identity a family could have. Each model asks for one
\* of several sets of shares, in percent, of its references.
Patterns ==
  <<<<"fastener", {[diameter |-> 70, screw |-> 70, fastener |-> 35],
                   [pair |-> 70, fastener |-> 35]}>>,
    <<"board", {[trip |-> 70], [trip |-> 50, panel |-> 35],
                [length |-> 50, width |-> 50, thickness |-> 35, panel |-> 35]}>>,
    <<"profile", {[bar |-> 50, section |-> 35], [bar |-> 50, profile |-> 35]}>>,
    <<"pipe", {[dn |-> 35, pipe |-> 35], [diameter |-> 50, pipe |-> 35]}>>,
    <<"liquid", {[volume |-> 50, paint |-> 35]}>>,
    <<"bagged", {[weight |-> 50, bagged |-> 35]}>>,
    <<"tile", {[length |-> 35, width |-> 35, tile |-> 35]}>>,
    <<"insulation", {[thickness |-> 50, insulation |-> 35]}>>>>
Covered(rows, ids, f, percent) ==
  LET has(r) == f \in Features[r.text]
  IN 100 * Count(rows, ids, has) >= percent * Cardinality(ids)
Candidate(rows, ids) ==
  LET fits == {k \in DOMAIN Patterns : \E p \in Patterns[k][2] :
                 \A f \in DOMAIN p : Covered(rows, ids, f, p[f])}
  IN IF fits = {} THEN None ELSE Patterns[Min(fits)][1]

Existing == {"fastener", "profile", "board"}
Future == {"pipe", "bagged", "tile", "insulation"}
Status(rows, ids, noisy) ==
  LET model == Candidate(rows, ids)
      technical == 100 * Count(rows, ids, Technical)
      silent == \A f \in Lexicons : ids # {} /\ ~Covered(rows, ids, f, 35)
      poor == technical < 15 * Cardinality(ids) /\ silent
  IN CASE noisy -> "noisy"
       [] ~noisy /\ poor -> "poor"
       [] ~noisy /\ ~poor /\ model = "liquid" -> "needs identity"
       [] ~noisy /\ ~poor /\ model \in Existing -> "ready"
       [] ~noisy /\ ~poor /\ model \in Future -> "ready later"
       [] OTHER -> IF technical >= 50 * Cardinality(ids) THEN "needs identity" ELSE "poor"
Family(rows, name, parent, ids, noisy) ==
  [name |-> name, parent |-> parent, members |-> ids, unmapped |-> Unmapped(rows, ids),
   status |-> Status(rows, ids, noisy), model |-> Candidate(rows, ids)]

\* The families of a group: its children in any case, the group if it is large.
FamiliesOf(rows, ids, g, doubled) ==
  {Family(rows, t, g.seed, g.children[t], FALSE) :
     t \in {c \in DOMAIN g.children : Cardinality(g.children[c]) >= MinFamily}}
  \cup (IF Cardinality(g.members) >= MinFamily
        THEN {Family(rows, g.seed, NoTerm, g.members, Noisy(rows, ids, g, doubled))} ELSE {})
Families(rows, ids, a) == UNION {FamiliesOf(rows, ids, g, a.doubled) : g \in a.groups}
Ready(families) == {f \in families : f.status \in {"ready", "ready later"}}

-----------------------------------------------------------------------------
\* batch-consolidate: what a label is about.
Nature(seed) ==
  LET nouns == Both(seed) \cap Nouns
      marks == Both(seed) \cap Marks
  IN CASE nouns # {} /\ Cardinality(marks) <= Cardinality(nouns) -> "product"
       [] nouns # {} /\ Cardinality(marks) > Cardinality(nouns) -> "mixed"
       [] nouns = {} /\ marks # {} -> "attribute"
       [] OTHER -> "uncertain"

\* A name may stand for several families, under several parents. The one that
\* is looked up by its name is the last in the order of the report.
LaterIn(rows, f, g) ==
  LET size(x) == <<Cardinality(Unmapped(rows, x.members)), Cardinality(x.members)>>
  IN \/ size(f)[1] < size(g)[1]
     \/ size(f)[1] = size(g)[1] /\ size(f)[2] < size(g)[2]
     \/ /\ size(f) = size(g) /\ f.parent # NoTerm /\ g.parent # NoTerm
        /\ \/ Len(f.parent) < Len(g.parent)
           \/ Len(f.parent) = Len(g.parent) /\ Before(g.parent, f.parent)
ByName(rows, candidates, n) ==
  LET named == {f \in candidates : f.name = n}
  IN CHOOSE f \in named : \A g \in named \ {f} : ~LaterIn(rows, g, f)

\* Two families of a model that have enough references in common are linked.
Inner(f, g) == 100 * Cardinality(f.members \cap g.members) >= 55 * Cardinality(f.members)
Linked(f, g) ==
  LET both == Cardinality(f.members \cap g.members)
  IN /\ f.model = g.model /\ both > 0
     /\ \/ 100 * both >= 30 * Cardinality(f.members \cup g.members)
        \/ Inner(f, g) \/ Inner(g, f)
LinkedNames(candidates, m, n) ==
  \E f, g \in candidates : f.name = m /\ g.name = n /\ (Linked(f, g) \/ Linked(g, f))

\* _connected_components: the smallest sets of names that no link leaves.
Closed(candidates, names, some) ==
  \A m \in some, n \in names \ some : ~LinkedNames(candidates, m, n)
Components(candidates, names) ==
  {c \in (SUBSET names) \ {{}} :
     /\ Closed(candidates, names, c)
     /\ \A d \in (SUBSET c) \ {{}, c} : ~Closed(candidates, names, d)}

\* The families of a component. The roots are its products. The first of them,
\* one of the largest (the order of a set of strings decides), takes the
\* attributes, and the roots inside it; the other roots are families of their
\* own.
Roots(parts) ==
  LET of(nature) == {f \in parts : Nature(f.name) = nature}
  IN IF of("product") # {} THEN of("product")
     ELSE IF of("mixed") # {} THEN of("mixed")
     ELSE IF of("uncertain") # {} THEN of("uncertain") ELSE parts
Largest(roots) ==
  {f \in roots : \A g \in roots : Cardinality(g.members) <= Cardinality(f.members)}
Names(families) == {f.name : f \in families}
Merged(model, name, ids, sources, attached) ==
  [model |-> model, name |-> name, members |-> ids, sources |-> sources, attached |-> attached]
Alone(model, f) == Merged(model, f.name, f.members, {f.name}, {})
FamiliesAround(model, parts, first) ==
  LET others == Roots(parts) \ {first}
      attached == {f \in parts : Nature(f.name) = "attribute"}
                  \cup {f \in others : Inner(f, first)}
  IN {Alone(model, f) : f \in {x \in others : ~Inner(x, first)}}
     \cup {Merged(model, first.name, first.members \cup UNION {f.members : f \in attached},
                  {first.name} \cup Names(others \ attached), Names(attached))}
NamesIn(families) == UNION {f.sources \cup f.attached : f \in families}

\* Who is in no family yet, unless it is an attribute.
\* A mutant of Unplaced: nobody.
UnplacedNobody(model, mine, families) == {}
Unplaced(model, mine, families) ==
  {Alone(model, f) : f \in {x \in mine : /\ x.name \notin NamesIn(families)
                                         /\ Nature(x.name) # "attribute"}}

\* consolidate_candidates: model by model. first says which root comes first
\* in each component.
Mine(candidates, model) == {f \in candidates : f.model = model}
PartsOf(rows, candidates, model) ==
  LET mine == Mine(candidates, model)
  IN {{ByName(rows, candidates, n) : n \in c} : c \in Components(mine, Names(mine))}
Models(candidates) == {f.model : f \in candidates}
Firsts(rows, candidates) ==
  LET all == UNION {PartsOf(rows, candidates, m) : m \in Models(candidates)}
  IN {first \in [all -> candidates] : \A parts \in all : first[parts] \in Largest(Roots(parts))}
OfModel(rows, candidates, model, first) ==
  LET around == UNION {FamiliesAround(model, parts, first[parts]) :
                         parts \in PartsOf(rows, candidates, model)}
  IN around \cup Unplaced(model, Mine(candidates, model), around)
Consolidated(rows, candidates, first) ==
  UNION {OfModel(rows, candidates, m, first) : m \in Models(candidates)}

\* unique_sp_total: the references of every candidate whose name a family has.
TotalOf(candidates, families) ==
  UNION {f.members : f \in {x \in candidates : x.name \in NamesIn(families)}}

-----------------------------------------------------------------------------
\* The commands.
NoReport == [kind |-> "none"]
Init ==
  /\ table \in Tables
  /\ tool = [command |-> "none", at |-> "start", outer |-> <<>>, rows |-> <<>>]
  /\ report = NoReport
  /\ changes = 0

Step(at) == tool.at = at
Begin(c) ==
  /\ Step("start")
  /\ tool' = [tool EXCEPT !.command = c, !.at = IF c = "consolidate" THEN "outer" ELSE "read"]
  /\ UNCHANGED <<table, report, changes>>

\* load_supplier_products, and what is worked out from it.
ReadOuter ==
  /\ Step("outer") /\ tool' = [tool EXCEPT !.outer = table, !.at = "read"]
  /\ UNCHANGED <<table, report, changes>>
Analyse ==
  LET rows == table
      ids == Remainder(rows)
      a == IF tool.command = "discover 1" THEN Version1(rows, ids) ELSE Version2(rows, ids)
  IN /\ Step("read") /\ tool' = [tool EXCEPT !.rows = rows, !.at = "check"]
     /\ report' =
          CASE tool.command = "discover 1" ->
                 [kind |-> "words", known |-> Known(rows), groups |-> a.groups, residual |-> a.left]
            [] tool.command = "discover 2" ->
                 [kind |-> "pairs", known |-> Known(rows), groups |-> a.groups,
                  residual |-> a.residual, actionable |-> Actionable(rows, ids, a),
                  generic |-> {g.seed : g \in {x \in a.groups : Generic(rows, ids, x, a.doubled)}},
                  paths |-> [i \in ids |-> PathOf(a, i)]]
            [] OTHER -> [kind |-> "families", families |-> Families(rows, ids, a),
                         generic |-> {g.seed : g \in {x \in a.groups :
                                                       Generic(rows, ids, x, a.doubled)}}]
     /\ UNCHANGED <<table, changes>>

\* product_id_snapshot_hash: the references there are, and their products.
Snapshot(rows) == [i \in DOMAIN rows |-> rows[i].product]
\* What is said of a consolidated family is worked out of the rows that
\* batch-consolidate has read itself; those it has not are passed over.
\* A mutant of Audited: its references, whoever has read them.
AuditedAll(outer, f) == f.members
Audited(outer, f) == f.members \cap DOMAIN outer
Merge(outer, candidates, families) ==
  [kind |-> "merged", candidates |-> candidates, families |-> families,
   audited |-> [f \in families |-> Audited(outer, f)],
   total |-> TotalOf(candidates, families)]
Check ==
  /\ Step("check")
  /\ IF Snapshot(table) # Snapshot(tool.rows)
     THEN tool' = [tool EXCEPT !.at = "refused"] /\ report' = NoReport
     ELSE IF tool.command # "consolidate"
     THEN tool' = [tool EXCEPT !.at = "issued"] /\ report' = report
     ELSE /\ tool' = [tool EXCEPT !.at = "outer check"]
          /\ LET candidates == Ready(report.families)
             IN \E first \in Firsts(tool.rows, candidates) :
                  report' = Merge(tool.outer, candidates, Consolidated(tool.rows, candidates, first))
  /\ UNCHANGED <<table, changes>>
CheckOuter ==
  /\ Step("outer check")
  /\ tool' = [tool EXCEPT !.at = IF Snapshot(table) = Snapshot(tool.outer) THEN "issued" ELSE "refused"]
  /\ report' = IF Snapshot(table) = Snapshot(tool.outer) THEN report ELSE NoReport
  /\ UNCHANGED <<table, changes>>

\* A reference that is imported gets an id of its own.
NewId == 100 + changes
\* Others map a reference, rename it, import a new one, delete one.
Change ==
  /\ changes < MaxChanges /\ changes' = changes + 1
  /\ tool.at \in {"check", "outer check"} \/ (tool.at = "read" /\ tool.command = "consolidate")
  /\ \/ \E i \in DOMAIN table : \E p \in {"p", None} \ {table[i].product} :
          table' = [table EXCEPT ![i].product = p]
     \/ \E i \in DOMAIN table : \E d \in Renamed \ {table[i].text} :
          table' = [table EXCEPT ![i].text = d]
     \/ \E d \in Renamed : table' =
          [j \in DOMAIN table \cup {NewId} |->
             IF j \in DOMAIN table THEN table[j] ELSE [text |-> d, product |-> None]]
     \/ \E i \in DOMAIN table : table' = [j \in DOMAIN table \ {i} |-> table[j]]
  /\ UNCHANGED <<tool, report>>

Next ==
  \/ \E c \in Commands : Begin(c)
  \/ ReadOuter \/ Analyse \/ Check \/ CheckOuter
  \/ Change
Spec == Init /\ [][Next]_vars

-----------------------------------------------------------------------------
TypeOK ==
  /\ tool.command \in Commands \cup {"none"}
  /\ tool.at \in {"start", "outer", "read", "check", "outer check", "issued", "refused"}
  /\ report.kind \in {"none", "words", "pairs", "families", "merged"}
  /\ report.kind = "pairs" =>
       /\ \A g \in report.groups : \A t \in DOMAIN g.children : g.children[t] \subseteq g.members
       /\ \A c \in DOMAIN report.known : report.known[c] \subseteq DOMAIN tool.rows
  /\ table \in [DOMAIN table -> Reference]

\* Sets that have no element in common and make up a set.
Partition(parts, whole) ==
  /\ UNION parts = whole
  /\ \A p, q \in parts : p # q => p \cap q = {}

\* Every reference that was read is counted once: in its category, in one
\* group, in what is left; and those of a split group in one of its children or
\* in the others of the group. It is in one actionable family at most: their sizes
\* add up.
CountedOnce ==
  /\ report.kind = "words" =>
       Partition({report.known[c] : c \in DOMAIN report.known}
                 \cup {report.groups[t] : t \in DOMAIN report.groups} \cup {report.residual},
                 DOMAIN tool.rows)
  /\ report.kind = "pairs" =>
       /\ Partition({report.known[c] : c \in DOMAIN report.known}
                    \cup {g.members : g \in report.groups} \cup {report.residual},
                    DOMAIN tool.rows)
       /\ \A g \in report.groups : g.split =>
            Partition({g.children[t] : t \in DOMAIN g.children} \cup {g.rest}, g.members)
       /\ \A f, g \in report.actionable : f # g => f \cap g = {}

\* Every ready family is in the consolidated ones by its name, as a source or
\* as an attribute, whatever the order in which sets are read; and the total of the
\* report counts every reference of a family, attached ones too, and none that
\* batch-discover did not put in a candidate.
NoneLost ==
  report.kind = "merged" =>
    /\ \A f \in report.candidates : \E m \in report.families :
         m.model = f.model /\ f.name \in m.sources \cup m.attached
    /\ UNION {m.members : m \in report.families} \subseteq report.total
    /\ report.total \subseteq UNION {f.members : f \in report.candidates}

\* A report that is issued is about the references there are then, although
\* others have mapped, deleted or imported some while it was worked out: those of
\* the words and of the pairs are all in it and no other is; no family holds one
\* that is gone, nor says that one is free which is mapped. A consolidated family
\* may hold one that was there between two readings only, but its figures are
\* about those that are there (batch_consolidate.py: by_id; batch_discover.py).
IssuedIsCurrent ==
  tool.at = "issued" =>
    /\ report.kind = "words" =>
         UNION ({report.known[c] : c \in DOMAIN report.known}
                \cup {report.groups[t] : t \in DOMAIN report.groups} \cup {report.residual})
         = DOMAIN table
    /\ report.kind = "pairs" =>
         UNION ({report.known[c] : c \in DOMAIN report.known}
                \cup {g.members : g \in report.groups} \cup {report.residual})
         = DOMAIN table
    /\ report.kind = "families" => \A f \in report.families :
         f.members \subseteq DOMAIN table /\ f.unmapped = Unmapped(table, f.members)
    /\ report.kind = "merged" => \A f \in report.families :
         report.audited[f] = f.members \cap DOMAIN table
=============================================================================
