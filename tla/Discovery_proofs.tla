-------------------------- MODULE Discovery_proofs --------------------------
(***************************************************************************)
(* Proofs about the reports: how references are grouped and counted, what  *)
(* the consolidation keeps, and that what is issued is current. They hold  *)
(* for any designations, words, rules, thresholds and number of references *)
(* and of changes.                                                         *)
(***************************************************************************)
EXTENDS Discovery, FiniteSetTheorems, SequenceTheorems, WellFoundedInduction, TLAPS

-----------------------------------------------------------------------------
(* Sets that make up a set *)

LEMMA JoinedPartitions ==
    ASSUME NEW P, NEW A, Partition(P, A), NEW Q, NEW B, Partition(Q, B), A \cap B = {}
    PROVE  Partition(P \cup Q, A \cup B)
<1>1. UNION (P \cup Q) = A \cup B
  BY DEF Partition
<1>2. \A p \in P : p \subseteq A
  BY DEF Partition
<1>3. \A q \in Q : q \subseteq B
  BY DEF Partition
<1>4. \A p, q \in P \cup Q : p # q => p \cap q = {}
  BY <1>2, <1>3 DEF Partition
<1> QED
  BY <1>1, <1>4 DEF Partition

\* Sets of a table that has no element twice.
Apart(f) == \A t, u \in DOMAIN f : t # u => f[t] \cap f[u] = {}
Parts(f) == {f[t] : t \in DOMAIN f}

LEMMA ApartIsPartition ==
    ASSUME NEW f, Apart(f)
    PROVE  Partition(Parts(f), UNION Parts(f))
<1>. SUFFICES ASSUME NEW p \in Parts(f), NEW q \in Parts(f), p # q
              PROVE  p \cap q = {}
  BY DEF Partition
<1>1. PICK t \in DOMAIN f : p = f[t]
  BY DEF Parts
<1>2. PICK u \in DOMAIN f : q = f[u]
  BY DEF Parts
<1> QED
  BY <1>1, <1>2 DEF Apart

-----------------------------------------------------------------------------
(* The groups *)

\* A reference is in one group at most, and in what is left otherwise.
LEMMA GatheredIs ==
    ASSUME NEW rows, NEW ids, NEW n, NEW min, NEW barred,
           NEW g, g = Gathered(rows, ids, n, min, barred)
    PROVE  /\ Apart(g.groups) /\ UNION Parts(g.groups) \subseteq ids
           /\ g.left = ids \ UNION Parts(g.groups)
           /\ DOMAIN g.groups \subseteq AllTerms(rows, ids, n)
<1>. DEFINE seeds == Seeds(rows, ids, n, min, barred)
            groups == Members(rows, ids, seeds, n)
            kept == LargeEnough(groups, min)
<1>1. g.groups = [t \in kept |-> groups[t]] /\ g.left = Left(rows, ids, groups, kept)
  BY DEF Gathered
<1>2. DOMAIN groups = seeds /\ kept \subseteq seeds /\ seeds \subseteq AllTerms(rows, ids, n)
  BY DEF Members, LargeEnough, Seeds
<1>3. /\ \A t \in seeds : groups[t] \subseteq ids
      /\ \A t, u \in seeds : t # u => groups[t] \cap groups[u] = {}
  BY DEF Members
<1>. HIDE DEF seeds, groups, kept
<1>4. DOMAIN g.groups = kept /\ \A t \in kept : g.groups[t] = groups[t]
  BY <1>1
<1>5. Apart(g.groups)
  BY <1>2, <1>3, <1>4 DEF Apart
<1>6. UNION Parts(g.groups) = UNION {groups[t] : t \in kept}
  BY <1>4 DEF Parts
<1>7. UNION {groups[t] : t \in kept} \subseteq ids
  BY <1>2, <1>3
<1> QED
  BY <1>1, <1>2, <1>4, <1>5, <1>6, <1>7 DEF Left

LEMMA GatheredPartition ==
    ASSUME NEW rows, NEW ids, NEW n, NEW min, NEW barred,
           NEW g, g = Gathered(rows, ids, n, min, barred)
    PROVE  Partition(Parts(g.groups) \cup {g.left}, ids)
<1>1. /\ Apart(g.groups) /\ UNION Parts(g.groups) \subseteq ids
      /\ g.left = ids \ UNION Parts(g.groups)
  BY GatheredIs
<1>2. ids \ g.left = UNION Parts(g.groups) /\ g.left \subseteq ids
  BY <1>1
<1>3. Partition(Parts(g.groups), ids \ g.left)
  BY <1>1, <1>2, ApartIsPartition
<1>4. Partition({g.left}, g.left)
  BY DEF Partition
<1>5. Partition(Parts(g.groups) \cup {g.left}, (ids \ g.left) \cup g.left)
  BY <1>3, <1>4, JoinedPartitions
<1> QED
  BY <1>2, <1>3, <1>5

LEMMA LeastOf ==
    ASSUME NEW S, S # {}, NEW k, \A x \in S : k[x] \in Nat
    PROVE  \E x \in S : \A y \in S : k[x] <= k[y]
<1>. DEFINE T == {k[x] : x \in S}
<1>1. T \subseteq Nat /\ T # {}
  OBVIOUS
<1>2. \E m \in T : \A n \in T : ~ (<<n, m>> \in OpToRel(<, Nat))
  BY <1>1, NatLessThanWellFounded, WFMin
<1>3. PICK m \in T : \A n \in T : ~ (n < m)
  BY <1>1, <1>2 DEF OpToRel
<1>4. \A n \in T : m <= n
  BY <1>1, <1>3
<1>5. PICK x \in S : m = k[x]
  OBVIOUS
<1> QED
  BY <1>4, <1>5

LEMMA FirstRuleIs ==
    ASSUME NEW text
    PROVE  FirstRule(text) \in ToSet(Rules) \cup {None}
<1>. DEFINE which == {k \in DOMAIN Rules : text \in Classified[Rules[k]]}
<1>1. DOMAIN Rules \subseteq Nat
  BY DataAssumption, LenProperties
<1>2. CASE which = {}
  BY <1>2 DEF FirstRule
<1>3. CASE which # {}
  <2>. DEFINE id == [x \in which |-> x]
  <2>1. \E x \in which : \A y \in which : id[x] <= id[y]
    BY <1>1, <1>3, LeastOf
  <2>2. Min(which) \in which
    BY <2>1 DEF Min
  <2>3. FirstRule(text) = Rules[Min(which)]
    BY <1>3 DEF FirstRule
  <2> QED
    BY <2>2, <2>3 DEF ToSet
<1> QED
  BY <1>2, <1>3

\* The references of the known categories, and the others.
LEMMA KnownPartition ==
    ASSUME NEW rows
    PROVE  /\ Apart(Known(rows)) /\ UNION Parts(Known(rows)) = DOMAIN rows \ Remainder(rows)
           /\ Remainder(rows) \subseteq DOMAIN rows
<1>1. DOMAIN Known(rows) = ToSet(Rules)
      /\ \A c \in ToSet(Rules) : Known(rows)[c] = {i \in DOMAIN rows : FirstRule(rows[i].text) = c}
  BY DEF Known
<1>2. Apart(Known(rows))
  BY <1>1 DEF Apart
<1>3. \A i : i \in UNION Parts(Known(rows)) <=>
             i \in DOMAIN rows /\ FirstRule(rows[i].text) \in ToSet(Rules)
  BY <1>1 DEF Parts
<1>4. \A i \in DOMAIN rows : FirstRule(rows[i].text) \in ToSet(Rules) <=> i \notin Remainder(rows)
  BY FirstRuleIs, DataAssumption DEF Remainder
<1>5. Remainder(rows) \subseteq DOMAIN rows
  BY DEF Remainder
<1> QED
  BY <1>2, <1>3, <1>4, <1>5

-----------------------------------------------------------------------------
(* The reports about words and about pairs count each reference once *)

MembersIn(a) == {g.members : g \in a.groups}

\* The groups of version 2: those of the pairs, and those of the words of what
\* the pairs leave.
GroupsOf(rows, ids, a) ==
  /\ Partition(MembersIn(a) \cup {a.residual}, ids)
  /\ \A g, h \in a.groups : g # h => g.members \cap h.members = {}
  /\ \A g \in a.groups :
       /\ \E n \in {1, 2} : g.seed \in AllTerms(Read(rows), ids, n)
       /\ g.members \subseteq ids
       /\ g = Group(rows, ids, g.seed, g.members, a.doubled)

LEMMA Version2Groups ==
    ASSUME NEW rows, NEW ids, NEW a, a = Version2(rows, ids)
    PROVE  GroupsOf(rows, ids, a)
<1>. DEFINE pairs == Gathered(Read(rows), ids, 2, MinPair, {})
            words == WordsOfTheRest(rows, ids, pairs)
            groups(f, doubled) == {Group(rows, ids, t, f[t], doubled) : t \in DOMAIN f}
<1>1. /\ a.groups = groups(pairs.groups, a.doubled) \cup groups(words.groups, a.doubled)
      /\ a.residual = words.left
  <2>. DEFINE doubled == DoubledThreshold(rows, ids, DOMAIN words.groups)
  <2>1. a = [groups |-> groups(pairs.groups, doubled) \cup groups(words.groups, doubled),
             residual |-> words.left, doubled |-> doubled]
    BY DEF Version2
  <2>. HIDE DEF groups, pairs, words, doubled
  <2> QED
    BY <2>1
<1>2. /\ Partition(Parts(pairs.groups), ids \ pairs.left) /\ pairs.left \subseteq ids
      /\ Partition(Parts(words.groups) \cup {words.left}, pairs.left)
  <2>1. Partition(Parts(pairs.groups), ids \ pairs.left) /\ pairs.left \subseteq ids
    <3>1. /\ Apart(pairs.groups) /\ UNION Parts(pairs.groups) \subseteq ids
          /\ pairs.left = ids \ UNION Parts(pairs.groups)
      BY GatheredIs
    <3>. HIDE DEF pairs, words, groups
    <3>2. ids \ pairs.left = UNION Parts(pairs.groups)
      BY <3>1
    <3> QED
      BY <3>1, <3>2, ApartIsPartition
  <2>2. words = Gathered(Read(rows), pairs.left, 1, MinSize, {})
    BY DEF WordsOfTheRest
  <2>3. Partition(Parts(words.groups) \cup {words.left}, pairs.left)
    <3>. HIDE DEF words, pairs
    <3> QED
      BY <2>2, GatheredPartition
  <2>. HIDE DEF words, pairs
  <2> QED
    BY <2>1, <2>3
<1>3. Partition(Parts(pairs.groups) \cup (Parts(words.groups) \cup {words.left}), ids)
  <2>1. (ids \ pairs.left) \cap pairs.left = {} /\ (ids \ pairs.left) \cup pairs.left = ids
    BY <1>2
  <2> QED
    BY <1>2, <2>1, JoinedPartitions
<1>4. /\ Apart(pairs.groups) /\ UNION Parts(pairs.groups) \subseteq ids \ pairs.left
      /\ Apart(words.groups) /\ UNION Parts(words.groups) \subseteq pairs.left
      /\ DOMAIN pairs.groups \subseteq AllTerms(Read(rows), ids, 2)
      /\ DOMAIN words.groups \subseteq AllTerms(Read(rows), pairs.left, 1)
  <2>1. /\ Apart(pairs.groups) /\ DOMAIN pairs.groups \subseteq AllTerms(Read(rows), ids, 2)
        /\ pairs.left = ids \ UNION Parts(pairs.groups) /\ UNION Parts(pairs.groups) \subseteq ids
    BY GatheredIs
  <2>2. /\ Apart(words.groups) /\ DOMAIN words.groups \subseteq AllTerms(Read(rows), pairs.left, 1)
        /\ UNION Parts(words.groups) \subseteq pairs.left
    BY GatheredIs DEF WordsOfTheRest
  <2>. HIDE DEF pairs, words
  <2> QED
    BY <2>1, <2>2
<1>. HIDE DEF pairs, words
<1>5. \A t, m : LET g == Group(rows, ids, t, m, a.doubled) IN g.members = m /\ g.seed = t
  BY DEF Group
<1>6. {g.members : g \in a.groups} = Parts(pairs.groups) \cup Parts(words.groups)
  <2>1. ASSUME NEW f PROVE {g.members : g \in groups(f, a.doubled)} = Parts(f)
    <3>1. {g.members : g \in groups(f, a.doubled)} =
            {Group(rows, ids, t, f[t], a.doubled).members : t \in DOMAIN f}
      OBVIOUS
    <3>2. \A t \in DOMAIN f : Group(rows, ids, t, f[t], a.doubled).members = f[t]
      BY <1>5
    <3> QED
      BY <3>1, <3>2 DEF Parts
  <2>. HIDE DEF groups
  <2> QED
    BY <1>1, <2>1
<1>7. Partition(MembersIn(a) \cup {a.residual}, ids)
  BY <1>1, <1>3, <1>6 DEF MembersIn
<1>8. ASSUME NEW g \in a.groups
      PROVE  /\ g = Group(rows, ids, g.seed, g.members, a.doubled)
             /\ \/ \E t \in DOMAIN pairs.groups : g.seed = t /\ g.members = pairs.groups[t]
                \/ \E t \in DOMAIN words.groups : g.seed = t /\ g.members = words.groups[t]
  <2>1. CASE g \in groups(pairs.groups, a.doubled)
    BY <1>5, <2>1
  <2>2. CASE g \in groups(words.groups, a.doubled)
    BY <1>5, <2>2
  <2> QED
    BY <1>1, <2>1, <2>2
<1>9. ASSUME NEW g \in a.groups, NEW h \in a.groups, g # h
      PROVE  g.members \cap h.members = {}
  <2>1. \A t \in DOMAIN pairs.groups : pairs.groups[t] \subseteq ids \ pairs.left
    BY <1>4 DEF Parts
  <2>2. \A t \in DOMAIN words.groups : words.groups[t] \subseteq pairs.left
    BY <1>4 DEF Parts
  <2>3. g.seed # h.seed \/ g.members # h.members
    <3>1. g = Group(rows, ids, g.seed, g.members, a.doubled)
      BY <1>8
    <3>2. h = Group(rows, ids, h.seed, h.members, a.doubled)
      BY <1>8
    <3> QED
      BY <1>9, <3>1, <3>2
  <2>4. CASE \E t \in DOMAIN pairs.groups : g.seed = t /\ g.members = pairs.groups[t]
    <3>1. CASE \E t \in DOMAIN pairs.groups : h.seed = t /\ h.members = pairs.groups[t]
      BY <1>4, <2>3, <2>4, <3>1 DEF Apart
    <3>2. CASE \E t \in DOMAIN words.groups : h.seed = t /\ h.members = words.groups[t]
      BY <2>1, <2>2, <2>4, <3>2
    <3> QED
      BY <1>8, <3>1, <3>2
  <2>5. CASE \E t \in DOMAIN words.groups : g.seed = t /\ g.members = words.groups[t]
    <3>1. CASE \E t \in DOMAIN pairs.groups : h.seed = t /\ h.members = pairs.groups[t]
      BY <2>1, <2>2, <2>5, <3>1
    <3>2. CASE \E t \in DOMAIN words.groups : h.seed = t /\ h.members = words.groups[t]
      BY <1>4, <2>3, <2>5, <3>2 DEF Apart
    <3> QED
      BY <1>8, <3>1, <3>2
  <2> QED
    BY <1>8, <2>4, <2>5
<1>10. ASSUME NEW g \in a.groups
       PROVE  (\E n \in {1, 2} : g.seed \in AllTerms(Read(rows), ids, n)) /\ g.members \subseteq ids
  <2>1. AllTerms(Read(rows), pairs.left, 1) \subseteq AllTerms(Read(rows), ids, 1)
    BY <1>2 DEF AllTerms
  <2>2. CASE \E t \in DOMAIN pairs.groups : g.seed = t /\ g.members = pairs.groups[t]
    BY <1>4, <2>2 DEF Parts
  <2>3. CASE \E t \in DOMAIN words.groups : g.seed = t /\ g.members = words.groups[t]
    BY <1>2, <1>4, <2>1, <2>3 DEF Parts
  <2> QED
    BY <1>8, <2>2, <2>3
<1> QED
  BY <1>7, <1>8, <1>9, <1>10 DEF GroupsOf

\* A group that is split, and what it offers.
SplitWell(g) ==
  /\ Apart(g.children) /\ UNION Parts(g.children) \subseteq g.members
  /\ g.split => Partition(Parts(g.children) \cup {g.rest}, g.members)

LEMMA GroupIs ==
    ASSUME NEW rows, NEW ids, NEW seed, NEW members, NEW doubled,
           NEW g, g = Group(rows, ids, seed, members, doubled)
    PROVE  SplitWell(g)
<1>. DEFINE inside == Inside(rows, ids, members, seed)
<1>0. inside = Gathered(Read(rows), members, 2, MinChild, {seed})
  BY DEF Inside
<1>1. /\ g.seed = seed /\ g.members = members /\ g.split \in BOOLEAN
      /\ g.split => g.children = inside.groups /\ g.rest = inside.left
      /\ ~ g.split => g.children = <<>>
  BY DEF Group
<1>. HIDE DEF inside
<1>2. /\ Apart(inside.groups) /\ UNION Parts(inside.groups) \subseteq members
      /\ Partition(Parts(inside.groups) \cup {inside.left}, members)
  <2>1. Apart(inside.groups) /\ UNION Parts(inside.groups) \subseteq members
    BY <1>0, GatheredIs
  <2>2. Partition(Parts(inside.groups) \cup {inside.left}, members)
    BY <1>0, GatheredPartition
  <2> QED
    BY <2>1, <2>2
<1>3. Apart(<<>>) /\ Parts(<<>>) = {}
  BY DEF Apart, Parts
<1> QED
  BY <1>1, <1>2, <1>3 DEF SplitWell

\* So are the groups of version 2.
LEMMA GroupsSplitWell ==
    ASSUME NEW rows, NEW ids, NEW a, a = Version2(rows, ids), NEW g \in a.groups
    PROVE  SplitWell(g)
<1>1. GroupsOf(rows, ids, a)
  BY Version2Groups
<1>2. g = Group(rows, ids, g.seed, g.members, a.doubled)
  BY <1>1 DEF GroupsOf
<1> QED
  BY <1>2, GroupIs

LEMMA OfferedIs ==
    ASSUME NEW g, Apart(g.children), UNION Parts(g.children) \subseteq g.members, NEW generic
    PROVE  /\ \A s \in Offered(generic, g) : s \subseteq g.members
           /\ \A s, t \in Offered(generic, g) : s # t => s \cap t = {}
BY DEF Offered, Apart, Parts

LEMMA ActionableApart ==
    ASSUME NEW rows, NEW ids, NEW a, a = Version2(rows, ids),
           NEW s \in Actionable(rows, ids, a), NEW t \in Actionable(rows, ids, a), s # t
    PROVE  s \cap t = {}
<1>. DEFINE offers(g) == Offered(Generic(rows, ids, g, a.doubled), g)
<1>1. PICK g \in a.groups : s \in offers(g)
  BY DEF Actionable
<1>2. PICK h \in a.groups : t \in offers(h)
  BY DEF Actionable
<1>3. \A x \in a.groups : Apart(x.children) /\ UNION Parts(x.children) \subseteq x.members
  BY GroupsSplitWell DEF SplitWell
<1>4. s \subseteq g.members /\ t \subseteq h.members
  BY <1>1, <1>2, <1>3, OfferedIs
<1>5. CASE g = h
  BY <1>1, <1>2, <1>3, <1>5, OfferedIs
<1>6. CASE g # h
  <2>1. g.members \cap h.members = {}
    <3>1. GroupsOf(rows, ids, a)
      BY Version2Groups
    <3> QED
      BY <1>6, <3>1 DEF GroupsOf
  <2> QED
    BY <1>4, <2>1
<1> QED
  BY <1>5, <1>6

\* The two reports, of any references.
LEMMA WordsCountOnce ==
    ASSUME NEW rows, NEW a, a = Version1(rows, Remainder(rows))
    PROVE  Partition(Parts(Known(rows)) \cup Parts(a.groups) \cup {a.left}, DOMAIN rows)
<1>1. Partition(Parts(a.groups) \cup {a.left}, Remainder(rows))
  BY GatheredPartition DEF Version1
<1>2. Partition(Parts(Known(rows)), DOMAIN rows \ Remainder(rows))
  BY KnownPartition, ApartIsPartition
<1>3. DOMAIN rows = (DOMAIN rows \ Remainder(rows)) \cup Remainder(rows)
  BY KnownPartition
<1>4. Partition(Parts(Known(rows)) \cup (Parts(a.groups) \cup {a.left}),
                (DOMAIN rows \ Remainder(rows)) \cup Remainder(rows))
  BY <1>1, <1>2, JoinedPartitions
<1>5. Parts(Known(rows)) \cup Parts(a.groups) \cup {a.left}
        = Parts(Known(rows)) \cup (Parts(a.groups) \cup {a.left})
  OBVIOUS
<1> QED
  BY <1>3, <1>4, <1>5

PairsCounted(rows, ids, a) ==
  /\ Partition(Parts(Known(rows)) \cup MembersIn(a) \cup {a.residual}, DOMAIN rows)
  /\ \A g \in a.groups : g.split => Partition(Parts(g.children) \cup {g.rest}, g.members)
  /\ \A f, g \in Actionable(rows, ids, a) : f # g => f \cap g = {}

LEMMA PairsCountOnce ==
    ASSUME NEW rows, NEW ids, ids = Remainder(rows), NEW a, a = Version2(rows, ids)
    PROVE  PairsCounted(rows, ids, a)
<1>. DEFINE members == MembersIn(a)
<1>1. Partition(members \cup {a.residual}, ids)
  BY Version2Groups DEF GroupsOf
<1>2. Partition(Parts(Known(rows)), DOMAIN rows \ ids)
  BY KnownPartition, ApartIsPartition
<1>. HIDE DEF members
<1>3. DOMAIN rows = (DOMAIN rows \ ids) \cup ids
  BY KnownPartition
<1>4. Partition(Parts(Known(rows)) \cup (members \cup {a.residual}), (DOMAIN rows \ ids) \cup ids)
  BY <1>1, <1>2, JoinedPartitions
<1>5. Parts(Known(rows)) \cup members \cup {a.residual}
        = Parts(Known(rows)) \cup (members \cup {a.residual})
  OBVIOUS
<1>6. Partition(Parts(Known(rows)) \cup members \cup {a.residual}, DOMAIN rows)
  BY <1>3, <1>4, <1>5
<1>7. \A g \in a.groups : g.split => Partition(Parts(g.children) \cup {g.rest}, g.members)
  BY GroupsSplitWell DEF SplitWell
<1>8. \A f, g \in Actionable(rows, ids, a) : f # g => f \cap g = {}
  BY ActionableApart
<1> QED
  BY <1>6, <1>7, <1>8 DEF members, PairsCounted

-----------------------------------------------------------------------------
(* What the commands keep *)

Ids == Nat \cup UNION {DOMAIN t : t \in Tables}
Rows == {r \in UNION {[d -> Reference] : d \in SUBSET Ids} : IsFiniteSet(DOMAIN r)}
Moments == {"start", "outer", "read", "check", "outer check", "issued", "refused"}
Tools == [command : Commands \cup {"none"}, at : Moments, outer : Rows, rows : Rows]
StateOK ==
  /\ table \in Rows /\ tool \in Tools /\ changes \in Nat
  /\ tool.at \in {"outer", "outer check"} => tool.command = "consolidate"

LEMMA RowsAre ==
    /\ Tables \subseteq Rows /\ <<>> \in Rows
    /\ \A r \in Rows : IsFiniteSet(DOMAIN r) /\ DOMAIN r \subseteq Ids /\ r \in [DOMAIN r -> Reference]
<1>1. Tables \subseteq Rows
  BY DataAssumption DEF Rows, Ids
<1>2. <<>> \in Rows
  <2>1. <<>> \in [{} -> Reference] /\ DOMAIN <<>> = {}
    OBVIOUS
  <2> QED
    BY <2>1, FS_EmptySet DEF Rows
<1>3. \A r \in Rows : IsFiniteSet(DOMAIN r) /\ DOMAIN r \subseteq Ids /\ r \in [DOMAIN r -> Reference]
  BY DEF Rows
<1> QED
  BY <1>1, <1>2, <1>3

LEMMA RowsOf ==
    ASSUME NEW r, IsFiniteSet(DOMAIN r), DOMAIN r \subseteq Ids, r \in [DOMAIN r -> Reference]
    PROVE  r \in Rows
BY DEF Rows

LEMMA ChangeKeepsRows == ASSUME StateOK, Change PROVE table' \in Rows /\ changes' \in Nat
<1>1. IsFiniteSet(DOMAIN table) /\ DOMAIN table \subseteq Ids /\ table \in [DOMAIN table -> Reference]
  BY RowsAre DEF StateOK
<1>2. changes \in Nat /\ changes' \in Nat /\ NewId \in Ids
  <2>1. changes \in Nat /\ changes' = changes + 1
    BY DEF StateOK, Change
  <2>2. changes' \in Nat /\ NewId \in Nat
    BY <2>1 DEF NewId
  <2>3. Nat \subseteq Ids
    BY DEF Ids
  <2> QED
    BY <2>1, <2>2, <2>3
<1>3. CASE \E i \in DOMAIN table : \E p \in {"p", None} \ {table[i].product} :
             table' = [table EXCEPT ![i].product = p]
  <2>1. DOMAIN table' = DOMAIN table /\ table' \in [DOMAIN table -> Reference]
    <3>1. PICK i \in DOMAIN table, p \in {"p", None} : table' = [table EXCEPT ![i].product = p]
      BY <1>3
    <3>2. table[i] \in Reference /\ [table[i] EXCEPT !.product = p] \in Reference
      BY <1>1, <3>1 DEF Reference
    <3>3. table' = [table EXCEPT ![i] = [table[i] EXCEPT !.product = p]]
      BY <3>1
    <3> QED
      BY <1>1, <3>2, <3>3
  <2> QED
    BY <1>1, <1>2, <2>1, RowsOf
<1>4. CASE \E i \in DOMAIN table : \E d \in Renamed \ {table[i].text} :
             table' = [table EXCEPT ![i].text = d]
  <2>1. DOMAIN table' = DOMAIN table /\ table' \in [DOMAIN table -> Reference]
    <3>1. PICK i \in DOMAIN table, d \in Designations : table' = [table EXCEPT ![i].text = d]
      BY <1>4, DataAssumption
    <3>2. table[i] \in Reference /\ [table[i] EXCEPT !.text = d] \in Reference
      BY <1>1, <3>1 DEF Reference
    <3>3. table' = [table EXCEPT ![i] = [table[i] EXCEPT !.text = d]]
      BY <3>1
    <3> QED
      BY <1>1, <3>2, <3>3
  <2> QED
    BY <1>1, <1>2, <2>1, RowsOf
<1>5. CASE \E d \in Renamed : table' =
             [j \in DOMAIN table \cup {NewId} |->
                IF j \in DOMAIN table THEN table[j] ELSE [text |-> d, product |-> None]]
  <2>1. DOMAIN table' = DOMAIN table \cup {NewId} /\ table' \in [DOMAIN table' -> Reference]
    BY <1>1, <1>5, DataAssumption DEF Reference
  <2>2. IsFiniteSet(DOMAIN table')
    BY <1>1, <2>1, FS_AddElement
  <2> QED
    BY <1>1, <1>2, <2>1, <2>2, RowsOf
<1>6. CASE \E i \in DOMAIN table : table' = [j \in DOMAIN table \ {i} |-> table[j]]
  <2>1. DOMAIN table' \subseteq DOMAIN table /\ table' \in [DOMAIN table' -> Reference]
    BY <1>1, <1>6
  <2>2. IsFiniteSet(DOMAIN table')
    BY <1>1, <2>1, FS_Subset
  <2> QED
    BY <1>1, <1>2, <2>1, <2>2, RowsOf
<1> QED
  BY <1>2, <1>3, <1>4, <1>5, <1>6 DEF Change

LEMMA StateOKInit == ASSUME Init PROVE StateOK
BY RowsAre DEF Init, StateOK, Tools, Moments

LEMMA StateOKNext == ASSUME StateOK, [Next]_vars PROVE StateOK'
<1>. USE DEF StateOK
<1>1. ASSUME NEW c \in Commands, Begin(c) PROVE StateOK'
  BY <1>1 DEF Begin, Step, Tools, Moments
<1>2. CASE ReadOuter
  BY <1>2 DEF ReadOuter, Step, Tools, Moments
<1>3. CASE Analyse
  BY <1>3 DEF Analyse, Step, Tools, Moments
<1>4. CASE Check
  BY <1>4 DEF Check, Step, Tools, Moments
<1>5. CASE CheckOuter
  BY <1>5 DEF CheckOuter, Step, Tools, Moments
<1>6. CASE Change
  BY <1>6, ChangeKeepsRows DEF Change
<1>7. CASE UNCHANGED vars
  BY <1>7 DEF vars
<1> QED
  BY <1>1, <1>2, <1>3, <1>4, <1>5, <1>6, <1>7 DEF Next

-----------------------------------------------------------------------------
(* A report that is issued is current *)

LEMMA SameSnapshot ==
    ASSUME NEW r, NEW s, Snapshot(r) = Snapshot(s)
    PROVE  /\ DOMAIN r = DOMAIN s
           /\ {i \in DOMAIN r : r[i].product # None} = {i \in DOMAIN s : s[i].product # None}
<1>1. DOMAIN Snapshot(r) = DOMAIN r /\ DOMAIN Snapshot(s) = DOMAIN s
  BY DEF Snapshot
<1>2. DOMAIN r = DOMAIN s
  BY <1>1
<1>3. \A i \in DOMAIN r : Snapshot(r)[i] = r[i].product /\ Snapshot(s)[i] = s[i].product
  BY <1>2 DEF Snapshot
<1> QED
  BY <1>2, <1>3

-----------------------------------------------------------------------------
(* Each reference is counted once *)

LEMMA CountedNext == ASSUME StateOK, CountedOnce, [Next]_vars PROVE CountedOnce'
<1>1. ASSUME report' = report, tool'.rows = tool.rows PROVE CountedOnce'
  BY <1>1 DEF CountedOnce
<1>2. ASSUME NEW c \in Commands, Begin(c) PROVE CountedOnce'
  BY <1>1, <1>2 DEF StateOK, Begin, Tools
<1>3. CASE ReadOuter
  BY <1>1, <1>3 DEF StateOK, ReadOuter, Tools
<1>4. CASE Analyse
  <2>. DEFINE ids == Remainder(table)
  <2>1. tool'.rows = table
    BY <1>4 DEF Analyse, StateOK, Tools
  <2>2. CASE tool.command = "discover 1"
    <3>1. PICK a : a = Version1(table, ids)
      OBVIOUS
    <3>2. report' = [kind |-> "words", known |-> Known(table), groups |-> a.groups,
                     residual |-> a.left]
      BY <1>4, <2>2, <3>1 DEF Analyse
    <3>3. Partition(Parts(Known(table)) \cup Parts(a.groups) \cup {a.left}, DOMAIN table)
      BY <3>1, WordsCountOnce
    <3> QED
      BY <2>1, <3>2, <3>3 DEF CountedOnce, Parts
  <2>3. CASE tool.command = "discover 2"
    <3>1. PICK a : a = Version2(table, ids)
      OBVIOUS
    <3>2. /\ report'.kind = "pairs" /\ report'.known = Known(table)
          /\ report'.groups = a.groups /\ report'.residual = a.residual
          /\ report'.actionable = Actionable(table, ids, a)
      BY <1>4, <2>3, <3>1 DEF Analyse
    <3>3. PairsCounted(table, ids, a)
      BY <3>1, PairsCountOnce
    <3> QED
      BY <2>1, <3>2, <3>3 DEF CountedOnce, PairsCounted, Parts, MembersIn
  <2>4. CASE tool.command \notin {"discover 1", "discover 2"}
    <3>1. report'.kind = "families"
      BY <1>4, <2>4 DEF Analyse
    <3> QED
      BY <3>1 DEF CountedOnce
  <2> QED
    BY <2>2, <2>3, <2>4
<1>5. CASE Check
  <2>1. CASE report' = report
    BY <1>1, <1>5, <2>1 DEF StateOK, Check, Tools
  <2>2. CASE report'.kind \in {"none", "merged"}
    BY <2>2 DEF CountedOnce
  <2>3. \/ report' = report
        \/ report' = NoReport
        \/ \E candidates, families : report' = Merge(tool.outer, candidates, families)
    BY <1>5 DEF Check
  <2>4. NoReport.kind = "none" /\ \A o, c, f : Merge(o, c, f).kind = "merged"
    BY DEF NoReport, Merge
  <2> QED
    BY <2>1, <2>2, <2>3, <2>4
<1>6. CASE CheckOuter
  <2>1. CASE report' = report
    BY <1>1, <1>6, <2>1 DEF StateOK, CheckOuter, Tools
  <2>2. CASE report'.kind = "none"
    BY <2>2 DEF CountedOnce
  <2> QED
    BY <1>6, <2>1, <2>2 DEF CheckOuter, NoReport
<1>7. CASE Change
  BY <1>1, <1>7 DEF Change
<1>8. CASE UNCHANGED vars
  BY <1>1, <1>8 DEF vars
<1> QED
  BY <1>2, <1>3, <1>4, <1>5, <1>6, <1>7, <1>8 DEF Next

-----------------------------------------------------------------------------
(* The consolidation: every name is in a component, and stands for a family *)

LEMMA LinksAreMutual ==
    ASSUME NEW candidates, NEW m, NEW n
    PROVE  LinkedNames(candidates, m, n) <=> LinkedNames(candidates, n, m)
BY DEF LinkedNames

\* Around a name: what is in every closed set of names that holds it. It is a
\* component: a smaller one without the name would leave a closed rest with it.
LEMMA ComponentsCover ==
    ASSUME NEW candidates, NEW names, NEW n \in names
    PROVE  \E c \in Components(candidates, names) : n \in c
<1>. DEFINE closed(d) == Closed(candidates, names, d)
            around == {m \in names : \A d \in SUBSET names : n \in d /\ closed(d) => m \in d}
<1>1. n \in around /\ around \subseteq names
  OBVIOUS
<1>2. closed(around)
  <2>. SUFFICES ASSUME NEW m \in around, NEW k \in names \ around
                PROVE  ~LinkedNames(candidates, m, k)
    BY DEF Closed
  <2>1. PICK d \in SUBSET names : n \in d /\ closed(d) /\ k \notin d
    OBVIOUS
  <2>2. m \in d
    BY <2>1
  <2> QED
    BY <2>1, <2>2 DEF Closed
<1>3. ASSUME NEW d \in SUBSET around, d # {}, d # around, closed(d)
      PROVE  FALSE
  <2>1. CASE n \in d
    <3>1. d \in SUBSET names
      BY <1>1
    <3>2. around \subseteq d
      BY <1>3, <2>1, <3>1
    <3> QED
      BY <1>3, <3>2
  <2>2. CASE n \notin d
    <3>. DEFINE others == names \ d
    <3>1. closed(others)
      <4>. SUFFICES ASSUME NEW m \in others, NEW k \in names \ others
                    PROVE  ~LinkedNames(candidates, m, k)
        BY DEF Closed
      <4>1. k \in d
        OBVIOUS
      <4>2. ~LinkedNames(candidates, k, m)
        BY <1>3, <4>1 DEF Closed
      <4> QED
        BY <4>2, LinksAreMutual
    <3>2. n \in others /\ others \in SUBSET names
      BY <2>2
    <3>. HIDE DEF others
    <3>3. around \subseteq others
      BY <3>1, <3>2
    <3> QED
      BY <1>3, <3>3 DEF others
  <2> QED
    BY <2>1, <2>2
<1>. HIDE DEF around
<1>4. around \in Components(candidates, names)
  BY <1>1, <1>2, <1>3 DEF Components
<1> QED
  BY <1>1, <1>4

\* What batch-discover says of a family.
Term == UNION {[1..n -> Wording] : n \in {1, 2}}
Sized(rows, f) == f.members \subseteq DOMAIN rows /\ (f.parent = NoTerm \/ f.parent \in Term)

LEMMA TermsAre ==
    ASSUME NEW rows \in Rows, NEW ids, ids \subseteq DOMAIN rows, NEW n \in {1, 2},
           NEW t \in AllTerms(Read(rows), ids, n)
    PROVE  t \in Term
<1>1. PICK i \in ids : t \in Terms(Read(rows)[i], n)
  BY DEF AllTerms
<1>2. rows[i] \in Reference /\ Read(rows)[i] = rows[i].text
  BY RowsAre DEF Read
<1>3. PICK text \in Designations : t \in Terms(text, n)
  BY <1>1, <1>2 DEF Reference
<1>4. text \in Seq(Wording)
  BY DataAssumption
<1>5. Len(text) \in Nat /\ \A j \in 1..Len(text) : text[j] \in Wording
  BY <1>4
<1>6. PICK j \in 1..(Len(text) - n + 1) : t = [k \in 1..n |-> text[j + k - 1]]
  BY <1>3 DEF Terms
<1>7. \A k \in 1..n : j + k - 1 \in 1..Len(text)
  BY <1>5
<1>8. t \in [1..n -> Wording]
  BY <1>5, <1>6, <1>7
<1> QED
  BY <1>8 DEF Term

LEMMA TermIs ==
    ASSUME NEW t \in Term
    PROVE  /\ Len(t) \in {1, 2} /\ DOMAIN t = 1..Len(t)
           /\ t[1] \in Wording /\ t[Len(t)] \in Wording
<1>1. PICK n \in {1, 2} : t \in [1..n -> Wording]
  BY DEF Term
<1>2. t \in Seq(Wording) /\ Len(t) = n
  BY <1>1, SeqDef, LenProperties
<1> QED
  BY <1>1, <1>2

LEMMA PositionIs ==
    ASSUME NEW w \in Wording
    PROVE  Position(w) \in 1..Len(Words) /\ Len(Words) \in Nat
<1>1. Len(Words) \in Nat /\ DOMAIN Words = 1..Len(Words)
  BY DataAssumption
<1>2. \E i \in DOMAIN Words : Words[i] = w
  BY DEF Wording, ToSet
<1> QED
  BY <1>1, <1>2 DEF Position

\* A name stands for one family: the order of the report has a last one.
LEMMA ByNameIs ==
    ASSUME NEW rows \in Rows, NEW candidates, \A f \in candidates : Sized(rows, f),
           NEW n \in Names(candidates)
    PROVE  ByName(rows, candidates, n) \in candidates /\ ByName(rows, candidates, n).name = n
<1>. DEFINE named == {f \in candidates : f.name = n}
            unmapped == [f \in named |-> Cardinality(Unmapped(rows, f.members))]
            all == [f \in named |-> Cardinality(f.members)]
<1>1. named # {}
  BY DEF Names
<1>2. \A f \in named : unmapped[f] \in Nat /\ all[f] \in Nat
  <2>. SUFFICES ASSUME NEW f \in named PROVE unmapped[f] \in Nat /\ all[f] \in Nat
    OBVIOUS
  <2>1. IsFiniteSet(f.members)
    BY RowsAre, FS_Subset DEF Sized
  <2>2. IsFiniteSet(Unmapped(rows, f.members))
    BY <2>1, FS_Subset DEF Unmapped
  <2> QED
    BY <2>1, <2>2, FS_CardinalityType
<1>3. \A f, g \in named : LaterIn(rows, g, f) <=>
        \/ unmapped[g] < unmapped[f]
        \/ unmapped[g] = unmapped[f] /\ all[g] < all[f]
        \/ /\ unmapped[g] = unmapped[f] /\ all[g] = all[f] /\ g.parent # NoTerm /\ f.parent # NoTerm
           /\ \/ Len(g.parent) < Len(f.parent)
              \/ Len(g.parent) = Len(f.parent) /\ Before(f.parent, g.parent)
  BY DEF LaterIn
<1>4. \A f \in named : f.parent = NoTerm \/ f.parent \in Term
  BY DEF Sized
<1>. SUFFICES \E f \in named : \A g \in named \ {f} : ~LaterIn(rows, g, f)
  BY DEF ByName
<1>. HIDE DEF named, unmapped, all
<1>5. PICK f1 \in named : \A g \in named : unmapped[f1] <= unmapped[g]
  BY <1>1, <1>2, LeastOf
<1>. DEFINE few == {g \in named : unmapped[g] = unmapped[f1]}
<1>6. PICK f2 \in few : \A g \in few : all[f2] <= all[g]
  <2>1. few # {} /\ \A g \in few : all[g] \in Nat
    BY <1>2
  <2>. HIDE DEF few
  <2> QED
    BY <2>1, LeastOf
<1>. DEFINE small == {g \in few : all[g] = all[f2]}
<1>7. \A f \in small, g \in named \ small :
        unmapped[f] < unmapped[g] \/ (unmapped[f] = unmapped[g] /\ all[f] < all[g])
  <2>. SUFFICES ASSUME NEW f \in small, NEW g \in named \ small, ~ (unmapped[f] < unmapped[g])
                PROVE  unmapped[f] = unmapped[g] /\ all[f] < all[g]
    OBVIOUS
  <2>1. unmapped[f] = unmapped[f1] /\ all[f] = all[f2]
    OBVIOUS
  <2>2. unmapped[f1] <= unmapped[g] /\ unmapped[f1] \in Nat /\ unmapped[g] \in Nat
    BY <1>2, <1>5
  <2>3. unmapped[g] = unmapped[f1]
    BY <2>1, <2>2
  <2>4. g \in few /\ all[g] # all[f2]
    BY <2>3
  <2>5. all[f2] <= all[g] /\ all[f2] \in Nat /\ all[g] \in Nat
    BY <1>2, <1>6, <2>4
  <2> QED
    BY <2>1, <2>3, <2>4, <2>5
<1>8. CASE \E f \in small : f.parent = NoTerm
  <2>1. PICK f \in small : f.parent = NoTerm
    BY <1>8
  <2>2. ASSUME NEW g \in named \ {f} PROVE ~LaterIn(rows, g, f)
    <3>1. /\ f \in named /\ unmapped[f] \in Nat /\ all[f] \in Nat
          /\ unmapped[g] \in Nat /\ all[g] \in Nat
      BY <1>2
    <3>2. CASE g \in small
      <4>1. unmapped[g] = unmapped[f] /\ all[g] = all[f]
        BY <3>2
      <4> QED
        BY <1>3, <2>1, <3>1, <4>1
    <3>3. CASE g \notin small
      <4>1. unmapped[f] < unmapped[g] \/ (unmapped[f] = unmapped[g] /\ all[f] < all[g])
        BY <1>7, <3>3
      <4> QED
        BY <1>3, <3>1, <4>1
    <3> QED
      BY <3>2, <3>3
  <2> QED
    BY <2>2
<1>9. CASE \A f \in small : f.parent # NoTerm
  <2>. DEFINE long == [f \in small |-> Len(f.parent)]
              one == [f \in small |-> Len(Words) - Position(f.parent[1])]
              two == [f \in small |-> Len(Words) - Position(f.parent[Len(f.parent)])]
  <2>1. small # {} /\ small \subseteq named
    BY <1>6
  <2>2. \A f \in small : f.parent \in Term
    BY <1>4, <1>9, <2>1
  <2>3. \A f \in small : long[f] \in Nat /\ one[f] \in Nat /\ two[f] \in Nat
    <3>. SUFFICES ASSUME NEW f \in small PROVE long[f] \in Nat /\ one[f] \in Nat /\ two[f] \in Nat
      OBVIOUS
    <3>1. Len(f.parent) \in {1, 2} /\ f.parent[1] \in Wording /\ f.parent[Len(f.parent)] \in Wording
      BY <2>2, TermIs
    <3> QED
      BY <3>1, PositionIs
  <2>4. \A f, g \in small : LaterIn(rows, g, f) =>
          \/ long[g] < long[f]
          \/ long[g] = long[f] /\ one[g] < one[f]
          \/ long[g] = long[f] /\ one[g] = one[f] /\ two[g] < two[f]
    <3>. SUFFICES ASSUME NEW f \in small, NEW g \in small, LaterIn(rows, g, f), ~ (long[g] < long[f])
                  PROVE  long[g] = long[f] /\ (one[g] < one[f] \/ (one[g] = one[f] /\ two[g] < two[f]))
      OBVIOUS
    <3>1. Len(g.parent) = Len(f.parent) /\ Before(f.parent, g.parent)
      BY <1>2, <1>3, <2>1
    <3>2. /\ Len(f.parent) \in {1, 2} /\ DOMAIN f.parent = 1..Len(f.parent)
          /\ f.parent[1] \in Wording /\ f.parent[Len(f.parent)] \in Wording
      BY <2>2, TermIs
    <3>3. g.parent[1] \in Wording /\ g.parent[Len(g.parent)] \in Wording
      BY <2>2, TermIs
    <3>4. PICK i \in 1..Len(f.parent) :
            /\ Position(f.parent[i]) < Position(g.parent[i])
            /\ \A j \in 1..(i - 1) : f.parent[j] = g.parent[j]
      BY <3>1, <3>2 DEF Before
    <3>5. /\ Position(f.parent[1]) \in Nat /\ Position(g.parent[1]) \in Nat /\ Len(Words) \in Nat
          /\ Position(f.parent[Len(f.parent)]) \in Nat /\ Position(g.parent[Len(g.parent)]) \in Nat
      BY <3>2, <3>3, PositionIs
    <3>6. CASE i = 1
      BY <3>1, <3>4, <3>5, <3>6
    <3>7. CASE i = 2 /\ Len(f.parent) = 2
      BY <3>1, <3>4, <3>5, <3>7
    <3> QED
      BY <3>2, <3>4, <3>6, <3>7
  <2>. HIDE DEF small, long, one, two
  <2>5. PICK f3 \in small : \A g \in small : long[f3] <= long[g]
    BY <2>1, <2>3, LeastOf
  <2>. DEFINE short == {g \in small : long[g] = long[f3]}
  <2>6. PICK f4 \in short : \A g \in short : one[f4] <= one[g]
    <3>1. short # {} /\ \A g \in short : one[g] \in Nat
      BY <2>3
    <3>. HIDE DEF short
    <3> QED
      BY <3>1, LeastOf
  <2>. DEFINE first == {g \in short : one[g] = one[f4]}
  <2>7. PICK f5 \in first : \A g \in first : two[f5] <= two[g]
    <3>1. first # {} /\ \A g \in first : two[g] \in Nat
      BY <2>3, <2>6
    <3>. HIDE DEF first
    <3> QED
      BY <3>1, LeastOf
  <2>8. \A g \in small : ~LaterIn(rows, g, f5)
    BY <2>3, <2>4, <2>5, <2>6, <2>7
  <2>9. \A g \in named \ small : ~LaterIn(rows, g, f5)
    BY <1>2, <1>3, <1>7, <2>1
  <2> QED
    BY <2>1, <2>8, <2>9
<1> QED
  BY <1>8, <1>9

\* What batch-discover calls ready is about the references it has read.
LEMMA FamiliesAreSized ==
    ASSUME NEW rows \in Rows, NEW a, a = Version2(rows, Remainder(rows)),
           NEW f \in Families(rows, Remainder(rows), a)
    PROVE  Sized(rows, f) /\ f.unmapped = Unmapped(rows, f.members)
<1>. DEFINE ids == Remainder(rows)
<1>0. ids \subseteq DOMAIN rows
  BY KnownPartition
<1>1. PICK g \in a.groups : f \in FamiliesOf(rows, ids, g, a.doubled)
  BY DEF Families
<1>. HIDE DEF ids
<1>2. /\ \E n \in {1, 2} : g.seed \in AllTerms(Read(rows), ids, n)
      /\ g.members \subseteq ids
  BY Version2Groups DEF GroupsOf, ids
<1>3. g.seed \in Term
  BY <1>0, <1>2, TermsAre
<1>4. \A t \in DOMAIN g.children : g.children[t] \subseteq g.members
  <2>1. SplitWell(g)
    BY GroupsSplitWell
  <2> QED
    BY <2>1 DEF SplitWell, Parts
<1>5. /\ \/ \E t \in DOMAIN g.children : f.members = g.children[t] /\ f.parent = g.seed
         \/ f.members = g.members /\ f.parent = NoTerm
      /\ f.unmapped = Unmapped(rows, f.members)
  <2>. DEFINE large == {c \in DOMAIN g.children : Cardinality(g.children[c]) >= MinFamily}
  <2>1. CASE \E t \in large : f = Family(rows, t, g.seed, g.children[t], FALSE)
    BY <2>1 DEF Family
  <2>2. CASE f = Family(rows, g.seed, NoTerm, g.members, Noisy(rows, ids, g, a.doubled))
    BY <2>2 DEF Family
  <2> QED
    BY <1>1, <2>1, <2>2 DEF FamiliesOf
<1> QED
  BY <1>0, <1>2, <1>3, <1>4, <1>5 DEF Sized

\* The families of a component hold the name of every attribute of it, and are
\* made of families of it, which they name.
LEMMA AroundFirst ==
    ASSUME NEW model, NEW parts, NEW first \in parts,
           NEW m \in FamiliesAround(model, parts, first)
    PROVE  /\ m.model = model
           /\ \A i \in m.members : \E f \in parts : i \in f.members /\ f.name \in m.sources \cup m.attached
<1>. DEFINE others == Roots(parts) \ {first}
            attached == {f \in parts : Nature(f.name) = "attribute"}
                        \cup {f \in others : Inner(f, first)}
<1>1. others \subseteq parts /\ attached \subseteq parts
  BY DEF Roots
<1>. HIDE DEF others, attached
<1>2. CASE \E f \in others : m = Alone(model, f)
  BY <1>1, <1>2 DEF Alone, Merged
<1>3. CASE m = Merged(model, first.name, first.members \cup UNION {f.members : f \in attached},
                      {first.name} \cup Names(others \ attached), Names(attached))
  <2>1. /\ m.model = model /\ m.members = first.members \cup UNION {f.members : f \in attached}
        /\ m.sources = {first.name} \cup Names(others \ attached) /\ m.attached = Names(attached)
    BY <1>3 DEF Merged
  <2>2. ASSUME NEW i \in m.members
        PROVE  \E f \in parts : i \in f.members /\ f.name \in m.sources \cup m.attached
    <3>1. CASE i \in first.members
      BY <2>1, <3>1
    <3>2. CASE i \in UNION {f.members : f \in attached}
      <4>1. PICK f \in attached : i \in f.members
        BY <3>2
      <4>2. f.name \in Names(attached)
        BY DEF Names
      <4> QED
        BY <1>1, <2>1, <4>1, <4>2
    <3> QED
      BY <2>1, <2>2, <3>1, <3>2
  <2> QED
    BY <2>1, <2>2
<1> QED
  BY <1>2, <1>3 DEF FamiliesAround, others, attached

LEMMA AttributesAreKept ==
    ASSUME NEW model, NEW parts, NEW first, NEW f \in parts, Nature(f.name) = "attribute"
    PROVE  \E m \in FamiliesAround(model, parts, first) : f.name \in m.attached
<1>. DEFINE others == Roots(parts) \ {first}
            attached == {g \in parts : Nature(g.name) = "attribute"}
                        \cup {g \in others : Inner(g, first)}
            m == Merged(model, first.name, first.members \cup UNION {g.members : g \in attached},
                        {first.name} \cup Names(others \ attached), Names(attached))
<1>1. f \in attached
  OBVIOUS
<1>2. m \in FamiliesAround(model, parts, first)
  BY DEF FamiliesAround
<1>3. f.name \in m.attached
  <2>. HIDE DEF attached, others
  <2> QED
    BY <1>1 DEF Merged, Names
<1> QED
  BY <1>2, <1>3

LEMMA PartsAre ==
    ASSUME NEW rows \in Rows, NEW candidates, \A f \in candidates : Sized(rows, f),
           NEW first \in Firsts(rows, candidates),
           NEW model \in Models(candidates), NEW parts \in PartsOf(rows, candidates, model)
    PROVE  parts \subseteq candidates /\ first[parts] \in parts
<1>. DEFINE mine == Mine(candidates, model)
<1>1. PICK c \in Components(mine, Names(mine)) : parts = {ByName(rows, candidates, n) : n \in c}
  BY DEF PartsOf
<1>2. c \subseteq Names(mine) /\ Names(mine) \subseteq Names(candidates)
  BY DEF Components, Mine, Names
<1>3. parts \subseteq candidates
  BY <1>1, <1>2, ByNameIs
<1>4. first[parts] \in Largest(Roots(parts))
  BY DEF Firsts
<1>5. Largest(Roots(parts)) \subseteq parts
  BY DEF Largest, Roots
<1> QED
  BY <1>3, <1>4, <1>5

\* Whose name a model has is in a family of the model.
LEMMA ModelKeeps ==
    ASSUME NEW rows \in Rows, NEW candidates, \A f \in candidates : Sized(rows, f),
           NEW first \in Firsts(rows, candidates),
           NEW f \in candidates
    PROVE  \E m \in OfModel(rows, candidates, f.model, first) :
             m.model = f.model /\ f.name \in m.sources \cup m.attached
<1>. DEFINE model == f.model
            mine == Mine(candidates, model)
            around == UNION {FamiliesAround(model, parts, first[parts]) :
                               parts \in PartsOf(rows, candidates, model)}
<1>1. model \in Models(candidates) /\ f \in mine /\ f.name \in Names(mine)
  BY DEF Models, Mine, Names
<1>2. OfModel(rows, candidates, model, first) = around \cup Unplaced(model, mine, around)
  BY DEF OfModel
<1>3. \A m \in around : m.model = model
  <2>. SUFFICES ASSUME NEW parts \in PartsOf(rows, candidates, model),
                       NEW m \in FamiliesAround(model, parts, first[parts])
                PROVE  m.model = model
    OBVIOUS
  <2>1. first[parts] \in parts
    BY <1>1, PartsAre
  <2> QED
    BY <2>1, AroundFirst
<1>4. CASE f.name \in NamesIn(around)
  BY <1>2, <1>3, <1>4 DEF NamesIn
<1>5. CASE f.name \notin NamesIn(around) /\ Nature(f.name) # "attribute"
  <2>1. Alone(model, f) \in Unplaced(model, mine, around)
    BY <1>1, <1>5 DEF Unplaced
  <2>2. Alone(model, f).model = model /\ f.name \in Alone(model, f).sources
    BY DEF Alone, Merged
  <2> QED
    BY <1>2, <2>1, <2>2
<1>6. CASE Nature(f.name) = "attribute"
  <2>1. PICK c \in Components(mine, Names(mine)) : f.name \in c
    BY <1>1, ComponentsCover
  <2>. DEFINE parts == {ByName(rows, candidates, n) : n \in c}
              g == ByName(rows, candidates, f.name)
  <2>2. parts \in PartsOf(rows, candidates, model) /\ g \in parts
    BY <2>1 DEF PartsOf
  <2>3. g.name = f.name
    <3>1. f.name \in Names(candidates)
      BY DEF Names
    <3> QED
      BY <3>1, ByNameIs
  <2>. HIDE DEF parts, g
  <2>4. PICK m \in FamiliesAround(model, parts, first[parts]) : g.name \in m.attached
    BY <1>6, <2>2, <2>3, AttributesAreKept
  <2>5. m \in around
    BY <2>2, <2>4
  <2> QED
    BY <1>2, <1>3, <2>3, <2>4, <2>5
<1> QED
  BY <1>4, <1>5, <1>6

\* A family has references of families it names, and of no other.
LEMMA ModelInvents ==
    ASSUME NEW rows \in Rows, NEW candidates, \A f \in candidates : Sized(rows, f),
           NEW first \in Firsts(rows, candidates),
           NEW model \in Models(candidates), NEW m \in OfModel(rows, candidates, model, first),
           NEW i \in m.members
    PROVE  \E f \in candidates : i \in f.members /\ f.name \in m.sources \cup m.attached
<1>. DEFINE mine == Mine(candidates, model)
            around == UNION {FamiliesAround(model, parts, first[parts]) :
                               parts \in PartsOf(rows, candidates, model)}
<1>1. OfModel(rows, candidates, model, first) = around \cup Unplaced(model, mine, around)
  BY DEF OfModel
<1>2. CASE m \in around
  <2>1. PICK parts \in PartsOf(rows, candidates, model) :
               m \in FamiliesAround(model, parts, first[parts])
    BY <1>2
  <2>2. parts \subseteq candidates /\ first[parts] \in parts
    BY PartsAre
  <2>3. \E f \in parts : i \in f.members /\ f.name \in m.sources \cup m.attached
    BY <2>1, <2>2, AroundFirst
  <2> QED
    BY <2>2, <2>3
<1>3. CASE m \in Unplaced(model, mine, around)
  <2>1. PICK f \in mine : m = Alone(model, f)
    BY <1>3 DEF Unplaced
  <2>2. f \in candidates /\ m.members = f.members /\ m.sources = {f.name}
    BY <2>1 DEF Mine, Alone, Merged
  <2> QED
    BY <2>2
<1> QED
  BY <1>1, <1>2, <1>3

LEMMA ConsolidatedKeeps ==
    ASSUME NEW rows \in Rows, NEW candidates, \A f \in candidates : Sized(rows, f),
           NEW first \in Firsts(rows, candidates),
           NEW families, families = Consolidated(rows, candidates, first)
    PROVE  /\ \A f \in candidates : \E m \in families :
                m.model = f.model /\ f.name \in m.sources \cup m.attached
           /\ UNION {m.members : m \in families} \subseteq TotalOf(candidates, families)
           /\ TotalOf(candidates, families) \subseteq UNION {f.members : f \in candidates}
<1>1. ASSUME NEW f \in candidates
      PROVE  \E m \in families : m.model = f.model /\ f.name \in m.sources \cup m.attached
  <2>1. f.model \in Models(candidates)
    BY DEF Models
  <2>2. PICK m \in OfModel(rows, candidates, f.model, first) :
               m.model = f.model /\ f.name \in m.sources \cup m.attached
    BY ModelKeeps
  <2> QED
    BY <2>1, <2>2 DEF Consolidated
<1>2. ASSUME NEW m \in families, NEW i \in m.members
      PROVE  i \in TotalOf(candidates, families)
  <2>1. PICK model \in Models(candidates) : m \in OfModel(rows, candidates, model, first)
    BY DEF Consolidated
  <2>2. PICK f \in candidates : i \in f.members /\ f.name \in m.sources \cup m.attached
    BY <2>1, ModelInvents
  <2>3. f.name \in NamesIn(families)
    BY <2>2 DEF NamesIn
  <2> QED
    BY <2>2, <2>3 DEF TotalOf
<1>3. TotalOf(candidates, families) \subseteq UNION {f.members : f \in candidates}
  BY DEF TotalOf
<1> QED
  BY <1>1, <1>2, <1>3

-----------------------------------------------------------------------------
(* The inductive invariant, and what it says of the reports *)

\* What batch-discover has found is about what was read.
FamiliesOK ==
  tool.at = "check" /\ report.kind = "families" =>
    \A f \in report.families :
      Sized(tool.rows, f) /\ f.unmapped = Unmapped(tool.rows, f.members)
\* Which report is compared with the table, and of what it speaks.
AuditOK ==
  /\ tool.at = "check" =>
       /\ report.kind \in {"words", "pairs", "families"}
       /\ tool.command = "consolidate" => report.kind = "families"
  /\ tool.at = "outer check" =>
       /\ report.kind = "merged"
       /\ \A f \in report.families : report.audited[f] = f.members \cap DOMAIN tool.outer
Inv == StateOK /\ TypeOK /\ FamiliesOK /\ AuditOK /\ CountedOnce /\ NoneLost /\ IssuedIsCurrent

LEMMA FamiliesNext == ASSUME StateOK, FamiliesOK, [Next]_vars PROVE FamiliesOK'
<1>1. ASSUME NEW c \in Commands, Begin(c) PROVE FamiliesOK'
  BY <1>1 DEF Begin, StateOK, Tools, FamiliesOK
<1>2. CASE ReadOuter
  BY <1>2 DEF ReadOuter, StateOK, Tools, FamiliesOK
<1>3. CASE Analyse
  <2>. SUFFICES ASSUME report'.kind = "families", NEW f \in report'.families
                PROVE  Sized(tool'.rows, f) /\ f.unmapped = Unmapped(tool'.rows, f.members)
    BY DEF FamiliesOK
  <2>1. tool.command \notin {"discover 1", "discover 2"} /\ tool'.rows = table
    BY <1>3 DEF Analyse, StateOK, Tools
  <2>2. PICK a : a = Version2(table, Remainder(table))
    OBVIOUS
  <2>3. report'.families = Families(table, Remainder(table), a)
    BY <1>3, <2>1, <2>2 DEF Analyse
  <2>4. PICK rows \in Rows : rows = table
    BY DEF StateOK
  <2>5. Sized(rows, f) /\ f.unmapped = Unmapped(rows, f.members)
    BY <2>2, <2>3, <2>4, FamiliesAreSized
  <2> QED
    BY <2>1, <2>4, <2>5
<1>4. CASE Check
  BY <1>4 DEF Check, StateOK, Tools, FamiliesOK
<1>5. CASE CheckOuter
  BY <1>5 DEF CheckOuter, StateOK, Tools, FamiliesOK
<1>6. CASE Change
  BY <1>6 DEF Change, FamiliesOK
<1>7. CASE UNCHANGED vars
  BY <1>7 DEF vars, FamiliesOK
<1> QED
  BY <1>1, <1>2, <1>3, <1>4, <1>5, <1>6, <1>7 DEF Next

LEMMA AuditNext == ASSUME StateOK, AuditOK, [Next]_vars PROVE AuditOK'
<1>1. ASSUME NEW c \in Commands, Begin(c) PROVE AuditOK'
  BY <1>1 DEF Begin, StateOK, Tools, AuditOK
<1>2. CASE ReadOuter
  BY <1>2 DEF ReadOuter, StateOK, Tools, AuditOK
<1>3. CASE Analyse
  <2>1. /\ report'.kind \in {"words", "pairs", "families"}
        /\ tool.command = "consolidate" => report'.kind = "families"
    BY <1>3 DEF Analyse
  <2>2. tool'.at = "check" /\ tool'.command = tool.command
    BY <1>3 DEF Analyse, StateOK, Tools
  <2> QED
    BY <2>1, <2>2 DEF AuditOK
<1>4. CASE Check
  <2>1. CASE tool'.at \in {"refused", "issued"}
    BY <2>1 DEF AuditOK
  <2>2. CASE /\ tool' = [tool EXCEPT !.at = "outer check"]
             /\ \E c, f : report' = Merge(tool.outer, c, f)
    <3>1. PICK c, f : report' = Merge(tool.outer, c, f)
      BY <2>2
    <3>2. /\ report'.kind = "merged" /\ report'.families = f
          /\ report'.audited = [x \in f |-> Audited(tool.outer, x)]
      BY <3>1 DEF Merge
    <3>3. tool'.at = "outer check" /\ tool'.outer = tool.outer
      BY <2>2 DEF StateOK, Tools
    <3> QED
      BY <3>2, <3>3 DEF AuditOK, Audited
  <2>3. tool \in Tools
    BY DEF StateOK
  <2> QED
    BY <1>4, <2>1, <2>2, <2>3 DEF Check, Tools
<1>5. CASE CheckOuter
  BY <1>5 DEF CheckOuter, StateOK, Tools, AuditOK
<1>6. CASE Change
  BY <1>6 DEF Change, AuditOK
<1>7. CASE UNCHANGED vars
  BY <1>7 DEF vars, AuditOK
<1> QED
  BY <1>1, <1>2, <1>3, <1>4, <1>5, <1>6, <1>7 DEF Next

LEMMA CurrentNext ==
    ASSUME StateOK, FamiliesOK, AuditOK, CountedOnce, IssuedIsCurrent, [Next]_vars
    PROVE  IssuedIsCurrent'
<1>1. ASSUME NEW c \in Commands, Begin(c) PROVE IssuedIsCurrent'
  BY <1>1 DEF StateOK, Begin, Tools, IssuedIsCurrent
<1>2. CASE ReadOuter
  BY <1>2 DEF StateOK, ReadOuter, Tools, IssuedIsCurrent
<1>3. CASE Analyse
  BY <1>3 DEF StateOK, Analyse, Tools, IssuedIsCurrent
<1>4. CASE Check
  <2>. SUFFICES ASSUME tool'.at = "issued" PROVE IssuedIsCurrent'
    BY DEF IssuedIsCurrent
  <2>1. /\ Snapshot(tool.rows) = Snapshot(table) /\ tool.at = "check"
        /\ report' = report /\ table' = table
    BY <1>4 DEF Check, Step, StateOK, Tools
  <2>2. /\ DOMAIN tool.rows = DOMAIN table
        /\ {i \in DOMAIN tool.rows : tool.rows[i].product # None}
             = {i \in DOMAIN table : table[i].product # None}
    BY <2>1, SameSnapshot
  <2>3. report.kind \in {"words", "pairs", "families"}
    BY <2>1 DEF AuditOK
  <2>4. CASE report.kind = "words"
    <3>1. UNION ({report.known[c] : c \in DOMAIN report.known}
                 \cup {report.groups[t] : t \in DOMAIN report.groups} \cup {report.residual})
            = DOMAIN table
      BY <2>2, <2>4 DEF CountedOnce, Partition
    <3> QED
      BY <2>1, <2>4, <3>1 DEF IssuedIsCurrent
  <2>5. CASE report.kind = "pairs"
    <3>1. UNION ({report.known[c] : c \in DOMAIN report.known}
                 \cup {g.members : g \in report.groups} \cup {report.residual})
            = DOMAIN table
      BY <2>2, <2>5 DEF CountedOnce, Partition
    <3> QED
      BY <2>1, <2>5, <3>1 DEF IssuedIsCurrent
  <2>6. CASE report.kind = "families"
    <3>. SUFFICES ASSUME NEW f \in report.families
                  PROVE  f.members \subseteq DOMAIN table /\ f.unmapped = Unmapped(table, f.members)
      BY <2>1, <2>6 DEF IssuedIsCurrent
    <3>1. Sized(tool.rows, f) /\ f.unmapped = Unmapped(tool.rows, f.members)
      BY <2>1, <2>6 DEF FamiliesOK
    <3>2. f.members \subseteq DOMAIN tool.rows
      BY <3>1 DEF Sized
    <3>3. Unmapped(tool.rows, f.members) = Unmapped(table, f.members)
      BY <2>2, <3>2 DEF Unmapped
    <3> QED
      BY <2>2, <3>1, <3>2, <3>3
  <2> QED
    BY <2>3, <2>4, <2>5, <2>6
<1>5. CASE CheckOuter
  <2>. SUFFICES ASSUME tool'.at = "issued" PROVE IssuedIsCurrent'
    BY DEF IssuedIsCurrent
  <2>1. /\ Snapshot(tool.outer) = Snapshot(table) /\ tool.at = "outer check"
        /\ report' = report /\ table' = table
    BY <1>5 DEF CheckOuter, Step, StateOK, Tools
  <2>2. DOMAIN tool.outer = DOMAIN table
    BY <2>1, SameSnapshot
  <2>3. /\ report.kind = "merged"
        /\ \A f \in report.families : report.audited[f] = f.members \cap DOMAIN tool.outer
    BY <2>1 DEF AuditOK
  <2> QED
    BY <2>1, <2>2, <2>3 DEF IssuedIsCurrent
<1>6. CASE Change
  BY <1>6 DEF Change, IssuedIsCurrent
<1>7. CASE UNCHANGED vars
  BY <1>7 DEF vars, IssuedIsCurrent
<1> QED
  BY <1>1, <1>2, <1>3, <1>4, <1>5, <1>6, <1>7 DEF Next

LEMMA NoneLostNext == ASSUME StateOK, FamiliesOK, AuditOK, NoneLost, [Next]_vars PROVE NoneLost'
<1>1. CASE report' = report
  BY <1>1 DEF NoneLost
<1>2. CASE report'.kind # "merged"
  BY <1>2 DEF NoneLost
<1>3. ASSUME NEW c \in Commands, Begin(c) PROVE NoneLost'
  BY <1>1, <1>3 DEF Begin
<1>4. CASE ReadOuter
  BY <1>1, <1>4 DEF ReadOuter
<1>5. CASE Analyse
  BY <1>2, <1>5 DEF Analyse
<1>6. CASE Check
  <2>1. CASE report' = report \/ report' = NoReport
    BY <1>1, <1>2, <2>1 DEF NoReport
  <2>2. CASE /\ tool.at = "check" /\ tool.command = "consolidate"
             /\ \E first \in Firsts(tool.rows, Ready(report.families)) :
                  report' = Merge(tool.outer, Ready(report.families),
                                  Consolidated(tool.rows, Ready(report.families), first))
    <3>1. PICK candidates : candidates = Ready(report.families)
      OBVIOUS
    <3>2. PICK rows \in Rows : rows = tool.rows
      BY DEF StateOK, Tools
    <3>3. PICK first \in Firsts(rows, candidates) :
                 report' = Merge(tool.outer, candidates, Consolidated(rows, candidates, first))
      BY <2>2, <3>1, <3>2
    <3>4. PICK families : families = Consolidated(rows, candidates, first)
      OBVIOUS
    <3>5. \A f \in candidates : Sized(rows, f)
      BY <2>2, <3>1, <3>2 DEF FamiliesOK, AuditOK, Ready
    <3>6. /\ report'.candidates = candidates /\ report'.families = families
          /\ report'.total = TotalOf(candidates, families)
      BY <3>3, <3>4 DEF Merge
    <3>7. /\ \A f \in candidates : \E m \in families :
               m.model = f.model /\ f.name \in m.sources \cup m.attached
          /\ UNION {m.members : m \in families} \subseteq TotalOf(candidates, families)
          /\ TotalOf(candidates, families) \subseteq UNION {f.members : f \in candidates}
      BY <3>4, <3>5, ConsolidatedKeeps
    <3> QED
      BY <3>6, <3>7 DEF NoneLost
  <2> QED
    BY <1>6, <2>1, <2>2 DEF Check, Step
<1>7. CASE CheckOuter
  BY <1>1, <1>2, <1>7 DEF CheckOuter, NoReport
<1>8. CASE Change
  BY <1>1, <1>8 DEF Change
<1>9. CASE UNCHANGED vars
  BY <1>1, <1>9 DEF vars
<1> QED
  BY <1>3, <1>4, <1>5, <1>6, <1>7, <1>8, <1>9 DEF Next

LEMMA TypeNext == ASSUME StateOK, TypeOK, [Next]_vars PROVE TypeOK'
<1>. DEFINE ReportOK ==
       /\ report.kind \in {"none", "words", "pairs", "families", "merged"}
       /\ report.kind = "pairs" =>
            /\ \A g \in report.groups : \A t \in DOMAIN g.children : g.children[t] \subseteq g.members
            /\ \A c \in DOMAIN report.known : report.known[c] \subseteq DOMAIN tool.rows
<1>0. StateOK' /\ ReportOK
  BY StateOKNext DEF TypeOK
<1>. SUFFICES ReportOK'
  <2>1. /\ tool'.command \in Commands \cup {"none"} /\ tool'.at \in Moments
        /\ table' \in [DOMAIN table' -> Reference]
    BY <1>0, RowsAre DEF StateOK, Tools
  <2> QED
    BY <2>1 DEF TypeOK, Moments
<1>1. ASSUME report' = report, tool'.rows = tool.rows PROVE ReportOK'
  BY <1>0, <1>1
<1>2. CASE report'.kind \in {"none", "words", "families", "merged"}
  BY <1>2
<1>. HIDE DEF ReportOK
<1>3. ASSUME NEW c \in Commands, Begin(c) PROVE ReportOK'
  BY <1>1, <1>3 DEF StateOK, Begin, Tools
<1>4. CASE ReadOuter
  BY <1>1, <1>4 DEF StateOK, ReadOuter, Tools
<1>5. CASE Analyse
  <2>. DEFINE ids == Remainder(table)
  <2>1. tool'.rows = table
    BY <1>5 DEF Analyse, StateOK, Tools
  <2>2. CASE tool.command = "discover 2"
    <3>1. PICK a : a = Version2(table, ids)
      OBVIOUS
    <3>2. /\ report'.kind = "pairs" /\ report'.known = Known(table) /\ report'.groups = a.groups
      BY <1>5, <2>2, <3>1 DEF Analyse
    <3>3. \A g \in a.groups : SplitWell(g)
      BY <3>1, GroupsSplitWell
    <3>4. \A g \in a.groups : \A t \in DOMAIN g.children : g.children[t] \subseteq g.members
      BY <3>3 DEF SplitWell, Parts
    <3>5. \A c \in DOMAIN Known(table) : Known(table)[c] \subseteq DOMAIN table
      BY DEF Known
    <3> QED
      BY <2>1, <3>2, <3>4, <3>5 DEF ReportOK
  <2>3. CASE tool.command # "discover 2"
    <3>1. report'.kind \in {"words", "families"}
      BY <1>5, <2>3 DEF Analyse
    <3> QED
      BY <1>2, <3>1
  <2> QED
    BY <2>2, <2>3
<1>6. CASE Check
  <2>1. CASE report' = report
    BY <1>1, <1>6, <2>1 DEF StateOK, Check, Tools
  <2>2. \/ report' = report
        \/ report' = NoReport
        \/ \E candidates, families : report' = Merge(tool.outer, candidates, families)
    BY <1>6 DEF Check
  <2>3. NoReport.kind = "none" /\ \A o, c, f : Merge(o, c, f).kind = "merged"
    BY DEF NoReport, Merge
  <2> QED
    BY <1>2, <2>1, <2>2, <2>3
<1>7. CASE CheckOuter
  <2>1. CASE report' = report
    BY <1>1, <1>7, <2>1 DEF StateOK, CheckOuter, Tools
  <2> QED
    BY <1>2, <1>7, <2>1 DEF CheckOuter, NoReport
<1>8. CASE Change
  BY <1>1, <1>8 DEF Change
<1>9. CASE UNCHANGED vars
  BY <1>1, <1>9 DEF vars
<1> QED
  BY <1>3, <1>4, <1>5, <1>6, <1>7, <1>8, <1>9 DEF Next

LEMMA InvInit == ASSUME Init PROVE Inv
<1>1. StateOK /\ FamiliesOK /\ AuditOK /\ CountedOnce /\ NoneLost /\ IssuedIsCurrent
  BY StateOKInit DEF Init, NoReport, FamiliesOK, AuditOK, CountedOnce, NoneLost, IssuedIsCurrent
<1>2. table \in [DOMAIN table -> Reference]
  BY <1>1, RowsAre DEF StateOK
<1>3. TypeOK
  BY <1>2 DEF Init, NoReport, TypeOK
<1> QED
  BY <1>1, <1>3 DEF Inv

LEMMA InvNext == ASSUME Inv, [Next]_vars PROVE Inv'
BY StateOKNext, TypeNext, FamiliesNext, AuditNext, CountedNext, NoneLostNext, CurrentNext DEF Inv

\* The inductive invariant holds in every state.
THEOREM ReportsInvariant == Spec => []Inv
BY InvInit, InvNext, PTL DEF Spec

\* Every state has its type: the children of a group are references of the
\* group, and the categories hold references that were read.
THEOREM TypeCorrect == Spec => []TypeOK
<1>1. Inv => TypeOK
  BY DEF Inv
<1> QED
  BY <1>1, ReportsInvariant, PTL

\* The reports about words and about pairs count every reference that was read
\* once, whatever the words, the rules and the thresholds (assign_clusters,
\* assign_clusters_v2, build_actionable_families).
THEOREM ReferencesCountedOnce == Spec => []CountedOnce
<1>1. Inv => CountedOnce
  BY DEF Inv
<1> QED
  BY <1>1, ReportsInvariant, PTL

\* The consolidation keeps every ready family, under its name, and its total
\* holds the references of all its families and of no other, whatever is linked
\* with what and whichever root comes first (consolidate_candidates).
THEOREM ConsolidationLosesNone == Spec => []NoneLost
<1>1. Inv => NoneLost
  BY DEF Inv
<1> QED
  BY <1>1, ReportsInvariant, PTL

\* However many references others map, rename, import or delete meanwhile, a
\* report that is issued is about those there are: the words and the pairs place
\* each of them and no other, no family holds one that is gone or takes a mapped
\* one for a free one, and what is said of a consolidated family is said of
\* those of its references that are there (batch_discover.py and
\* batch_consolidate.py, the comparison of the snapshots and what it covers).
THEOREM IssuedReportsAreCurrent == Spec => []IssuedIsCurrent
<1>1. Inv => IssuedIsCurrent
  BY DEF Inv
<1> QED
  BY <1>1, ReportsInvariant, PTL
=============================================================================
