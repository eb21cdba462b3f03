----------------------------- MODULE Clustering -----------------------------
(***************************************************************************)
(* How the references of a catalogue are grouped into families by the      *)
(* words of their designations (services/product_mapping/                  *)
(* catalog_discover.py). A term is one word <<w>> or two words that follow *)
(* each other <<v, w>>. The four passes of the code, the words of version  *)
(* 1, then the pairs, the words of what is left and the pairs inside a     *)
(* group of version 2, are one scheme with other terms and thresholds:     *)
(* Gathered.                                                               *)
(***************************************************************************)
EXTENDS Integers, Sequences, FiniteSets

CONSTANTS Words,      \* the words that count, in alphabetical order
          Attributes, \* colours and finishes: never a family by themselves
          NoTerm

Position(w) == CHOOSE i \in DOMAIN Words : Words[i] = w
Both(t) == {t[i] : i \in DOMAIN t}
Terms(text, n) == {[k \in 1..n |-> text[i + k - 1]] : i \in 1..(Len(text) - n + 1)}

\* Alphabetical order of terms of the same length.
Before(s, t) ==
  \E i \in DOMAIN s : /\ Position(s[i]) < Position(t[i])
                      /\ \A j \in 1..(i - 1) : s[j] = t[j]

\* rows: what each reference says. In how many of them a term occurs.
Df(rows, ids, t) == Cardinality({r \in ids : t \in Terms(rows[r], Len(t))})
AllTerms(rows, ids, n) == UNION {Terms(rows[r], n) : r \in ids}

Eligible(t) == ~(Both(t) \subseteq Attributes)
Pure(t) == Both(t) \cap Attributes = {}
\* The order in which a reference chooses among the seeds it has: no attribute
\* first, then the most frequent, then the alphabet.
Sooner(rows, ids, s, t) ==
  \/ Pure(s) /\ ~Pure(t)
  \/ /\ Pure(s) = Pure(t)
     /\ \/ Df(rows, ids, s) > Df(rows, ids, t)
        \/ Df(rows, ids, s) = Df(rows, ids, t) /\ Before(s, t)

Seeds(rows, ids, n, min, barred) ==
  {t \in AllTerms(rows, ids, n) \ barred : Df(rows, ids, t) >= min /\ Eligible(t)}

\* The seed a reference joins.
Joined(rows, ids, seeds, n, r) ==
  LET present == seeds \cap Terms(rows[r], n)
  IN IF present = {} THEN NoTerm
     ELSE CHOOSE t \in present : \A s \in present \ {t} : Sooner(rows, ids, t, s)

\* Groups around seeds; those too small are dissolved.
Members(rows, ids, seeds, n) ==
  [t \in seeds |-> {r \in ids : Joined(rows, ids, seeds, n, r) = t}]
LargeEnough(groups, min) == {t \in DOMAIN groups : Cardinality(groups[t]) >= min}
\* A mutant of Left: who joined no seed, and not who joined a dissolved group.
LeftWithoutSeed(rows, ids, groups, kept) == ids \ UNION {groups[t] : t \in DOMAIN groups}
Left(rows, ids, groups, kept) == ids \ UNION {groups[t] : t \in kept}
Gathered(rows, ids, n, min, barred) ==
  LET seeds == Seeds(rows, ids, n, min, barred)
      groups == Members(rows, ids, seeds, n)
      kept == LargeEnough(groups, min)
  IN [groups |-> [t \in kept |-> groups[t]],
      left |-> Left(rows, ids, groups, kept),
      seeds |-> Cardinality(seeds)]
=============================================================================
