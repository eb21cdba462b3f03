-------------------------- MODULE TourOrder_proofs --------------------------
(***************************************************************************)
(* Proofs about TourOrder, for any layout and any finite set of stops.     *)
(*                                                                         *)
(* The permutations and the table of Held and Karp give the same tour, the *)
(* least by time, by distance and by the order of the keys: a first path   *)
(* is a first path to the stop before and one leg more, for paths that go  *)
(* on from one stop to another keep their order (RankAppend).  The time    *)
(* and the distance agree on what is short, but for the two minutes that a *)
(* leg between two stops of one place does not take; these are visited     *)
(* one after the other (BestWithTwin).  A tour of fewer stops is not       *)
(* longer, which the proofs about the strategies need (TourShrinks).       *)
(*                                                                         *)
(* Induction is over sets of naturals, by the least member of the rest.    *)
(***************************************************************************)
EXTENDS TourOrder, FiniteSetTheorems, SequenceTheorems, WellFoundedInduction, TLAPS

\* The least number of a set of naturals.
LEMMA LeastNatural ==
    ASSUME NEW T \in SUBSET Nat, T # {}
    PROVE  \E m \in T : \A n \in T : m <= n
<1>1. PICK m \in T : \A n \in T : ~ (<<n, m>> \in OpToRel(<, Nat))
  BY NatLessThanWellFounded, WFMin
<1>2. \A n \in T : ~ (n < m)
  BY <1>1 DEF OpToRel
<1> QED
  BY <1>2

\* A set of naturals with 0 and with the successor of each of its members.
LEMMA Induction ==
    ASSUME NEW T \in SUBSET Nat, 0 \in T, \A n \in T : n + 1 \in T
    PROVE  T = Nat
<1> SUFFICES ASSUME Nat \ T # {} PROVE FALSE
  OBVIOUS
<1>1. PICK m \in Nat \ T : \A n \in Nat \ T : m <= n
  BY LeastNatural
<1>2. m - 1 \in Nat /\ m - 1 \notin Nat \ T
  BY <1>1
<1> QED
  BY <1>2

Some(s) == CHOOSE x \in s : TRUE

\* One step of the sum of f over s, from the sums g over smaller sets.
OneMore(f, g, s) == IF s = {} THEN 0 ELSE f[Some(s)] + g[s \ {Some(s)}]

\* The sums of f over the subsets of S.
Partial(f, S) == CHOOSE g : g = [s \in SUBSET S |-> OneMore(f, g, s)]

\* The sum over S is the last of the partial ones.
LEMMA SumIsPartial ==
    ASSUME NEW f, NEW S
    PROVE  SumFunctionOnSet(f, S) = Partial(f, S)[S]
  BY DEF SumFunctionOnSet, FoldFunctionOnSet, MapThenFoldSet, Partial, OneMore, Some

\* Each partial sum is made of those over smaller sets, which exist together.
LEMMA PartialStep ==
    ASSUME NEW f, NEW S, IsFiniteSet(S)
    PROVE  \A s \in SUBSET S : Partial(f, S)[s] = OneMore(f, Partial(f, S), s)
<1>. DEFINE Upto(n) == {s \in SUBSET S : Cardinality(s) <= n}
            Good(n) == \E g : g = [s \in Upto(n) |-> OneMore(f, g, s)]
            Goods == {n \in Nat : Good(n)}
<1>1. \A s \in SUBSET S : /\ IsFiniteSet(s) /\ Cardinality(s) \in Nat
                          /\ Cardinality(s) <= Cardinality(S)
  BY FS_Subset, FS_CardinalityType
<1>2. \A s \in SUBSET S : s # {} =>
        /\ Some(s) \in s
        /\ s \ {Some(s)} \in SUBSET S
        /\ Cardinality(s \ {Some(s)}) = Cardinality(s) - 1
        /\ Cardinality(s) > 0
  <2> SUFFICES ASSUME NEW s \in SUBSET S, s # {}
               PROVE  /\ Some(s) \in s
                      /\ s \ {Some(s)} \in SUBSET S
                      /\ Cardinality(s \ {Some(s)}) = Cardinality(s) - 1
                      /\ Cardinality(s) > 0
    OBVIOUS
  <2>1. Some(s) \in s
    BY DEF Some
  <2>2. Cardinality(s \ {Some(s)}) = Cardinality(s) - 1
    BY <2>1, <1>1, FS_RemoveElement
  <2>3. Cardinality(s) # 0
    BY <1>1, FS_EmptySet
  <2> QED
    BY <2>1, <2>2, <2>3, <1>1
<1>3. Good(0)
  <2>. DEFINE g == [s \in Upto(0) |-> 0]
  <2>1. \A s \in Upto(0) : s = {}
    BY <1>1, FS_EmptySet
  <2>2. g = [s \in Upto(0) |-> OneMore(f, g, s)]
    BY <2>1 DEF OneMore
  <2> QED
    BY <2>2
<1>4. ASSUME NEW n \in Nat, Good(n) PROVE Good(n + 1)
  <2>1. PICK h : h = [s \in Upto(n) |-> OneMore(f, h, s)]
    BY <1>4
  <2>. DEFINE g == [s \in Upto(n + 1) |-> OneMore(f, h, s)]
  <2>2. \A s \in Upto(n) : s \in Upto(n + 1) /\ g[s] = h[s]
    BY <2>1, <1>1
  <2>3. \A s \in Upto(n + 1) : s # {} => s \ {Some(s)} \in Upto(n)
    BY <1>1, <1>2
  <2>4. \A s \in Upto(n + 1) : OneMore(f, h, s) = OneMore(f, g, s)
    BY <2>2, <2>3 DEF OneMore
  <2>5. g = [s \in Upto(n + 1) |-> OneMore(f, g, s)]
    BY <2>4
  <2> QED
    BY <2>5
<1>5. Goods = Nat
  <2> HIDE DEF Good
  <2>1. 0 \in Goods /\ \A n \in Goods : n + 1 \in Goods
    BY <1>3, <1>4
  <2> QED
    BY <2>1, Induction
<1>6. Good(Cardinality(S)) /\ Upto(Cardinality(S)) = SUBSET S
  BY <1>5, <1>1
<1>. DEFINE P == Partial(f, S)
<1>7. P = [s \in SUBSET S |-> OneMore(f, P, s)]
  BY <1>6 DEF Partial
<1> HIDE DEF P
<1>8. \A s \in SUBSET S : P[s] = OneMore(f, P, s)
  BY <1>7
<1> QED
  BY <1>8 DEF P

\* What is left of a set after its first member.
LEMMA OneLess ==
    ASSUME NEW S, IsFiniteSet(S), NEW s \in SUBSET S, NEW n \in Nat, Cardinality(s) = n + 1
    PROVE  /\ s # {} /\ IsFiniteSet(s) /\ Some(s) \in s
           /\ \A x \in s : s \ {x} \in SUBSET S /\ Cardinality(s \ {x}) = n
<1>1. IsFiniteSet(s)
  BY FS_Subset
<1>2. s # {}
  BY FS_EmptySet
<1>3. Some(s) \in s
  BY <1>2 DEF Some
<1>4. ASSUME NEW x \in s PROVE s \ {x} \in SUBSET S /\ Cardinality(s \ {x}) = n
  <2>1. Cardinality(s \ {x}) = Cardinality(s) - 1
    BY <1>1, FS_RemoveElement
  <2> QED
    BY <2>1
<1> QED
  BY <1>1, <1>2, <1>3, <1>4

\* A set of naturals that is closed under addition holds the sums of its members.
LEMMA PartialIn ==
    ASSUME NEW V, 0 \in V, \A a, b \in V : a + b \in V,
           NEW f, NEW S, IsFiniteSet(S), \A x \in S : f[x] \in V
    PROVE  \A s \in SUBSET S : Partial(f, S)[s] \in V
<1>. DEFINE P == Partial(f, S)
            T == {n \in Nat : \A s \in SUBSET S : Cardinality(s) = n => P[s] \in V}
<1>1. \A s \in SUBSET S : P[s] = OneMore(f, P, s)
  BY PartialStep
<1> HIDE DEF P
<1>2. 0 \in T
  <2>1. \A s \in SUBSET S : Cardinality(s) = 0 => s = {}
    BY FS_Subset, FS_EmptySet
  <2>2. P[{}] = OneMore(f, P, {})
    BY <1>1
  <2> QED
    BY <2>2, <2>1 DEF OneMore
<1>3. ASSUME NEW n \in T PROVE n + 1 \in T
  <2> SUFFICES ASSUME NEW s \in SUBSET S, Cardinality(s) = n + 1 PROVE P[s] \in V
    OBVIOUS
  <2>1. s # {} /\ Some(s) \in s
        /\ s \ {Some(s)} \in SUBSET S /\ Cardinality(s \ {Some(s)}) = n
    BY OneLess
  <2>2. P[s \ {Some(s)}] \in V
    BY <2>1
  <2> QED
    BY <2>1, <2>2, <1>1 DEF OneMore
<1>4. T = Nat
  BY <1>2, <1>3, Induction
<1>5. \A s \in SUBSET S : Cardinality(s) \in Nat
  BY FS_Subset, FS_CardinalityType
<1> QED
  BY <1>4, <1>5 DEF P

\* Sums of numbers are numbers.
LEMMA PartialType ==
    ASSUME NEW f, NEW S, IsFiniteSet(S), \A x \in S : f[x] \in Int
    PROVE  \A s \in SUBSET S : Partial(f, S)[s] \in Int
<1>1. 0 \in Int /\ \A a, b \in Int : a + b \in Int
  OBVIOUS
<1> QED
  BY <1>1, PartialIn

\* Whichever member is taken first.
LEMMA PartialAny ==
    ASSUME NEW f, NEW S, IsFiniteSet(S), \A x \in S : f[x] \in Int
    PROVE  \A s \in SUBSET S : \A x \in s : Partial(f, S)[s] = f[x] + Partial(f, S)[s \ {x}]
<1>. DEFINE P == Partial(f, S)
            Good(s) == \A x \in s : P[s] = f[x] + P[s \ {x}]
            T == {n \in Nat : \A s \in SUBSET S : Cardinality(s) = n => Good(s)}
<1>1. \A s \in SUBSET S : P[s] = OneMore(f, P, s) /\ P[s] \in Int
  BY PartialStep, PartialType
<1> HIDE DEF P
<1>2. 0 \in T
  BY FS_Subset, FS_EmptySet
<1>3. ASSUME NEW n \in T PROVE n + 1 \in T
  <2> SUFFICES ASSUME NEW s \in SUBSET S, Cardinality(s) = n + 1, NEW x \in s
               PROVE  P[s] = f[x] + P[s \ {x}]
    OBVIOUS
  <2>. DEFINE y == Some(s)
  <2>1. s # {} /\ \A z \in s : s \ {z} \in SUBSET S /\ Cardinality(s \ {z}) = n
    BY OneLess
  <2>2. y \in s
    BY <2>1 DEF Some
  <2>3. P[s] = f[y] + P[s \ {y}]
    BY <2>1, <1>1 DEF OneMore
  <2>4. CASE x = y
    BY <2>3, <2>4
  <2>5. CASE x # y
    <3>1. x \in s \ {y} /\ y \in s \ {x}
      BY <2>2, <2>5
    <3>2. /\ s \ {y} \in SUBSET S /\ s \ {x} \in SUBSET S
          /\ Cardinality(s \ {y}) = n /\ Cardinality(s \ {x}) = n
      BY <2>1, <2>2
    <3>3. Good(s \ {y}) /\ Good(s \ {x})
      BY <3>2
    <3>4. P[s \ {y}] = f[x] + P[(s \ {y}) \ {x}] /\ P[s \ {x}] = f[y] + P[(s \ {x}) \ {y}]
      BY <3>1, <3>3
    <3>5. (s \ {y}) \ {x} = (s \ {x}) \ {y} /\ (s \ {x}) \ {y} \in SUBSET S
      OBVIOUS
    <3>6. f[x] \in Int /\ f[y] \in Int
      BY <2>2
    <3>7. P[(s \ {x}) \ {y}] \in Int
      BY <3>5, <1>1
    <3>8. P[s \ {y}] = f[x] + P[(s \ {x}) \ {y}]
      BY <3>4, <3>5
    <3> HIDE DEF y
    <3> QED
      BY <3>4, <3>6, <3>7, <3>8, <2>3
  <2> QED
    BY <2>4, <2>5
<1>4. T = Nat
  BY <1>2, <1>3, Induction
<1>5. \A s \in SUBSET S : Cardinality(s) \in Nat
  BY FS_Subset, FS_CardinalityType
<1> QED
  BY <1>4, <1>5 DEF P

\* A sum depends on the values over the set summed, and grows with them.
LEMMA PartialMonotone ==
    ASSUME NEW f, NEW g, NEW S, NEW R, NEW D, D \subseteq S, D \subseteq R,
           IsFiniteSet(S), IsFiniteSet(R),
           \A x \in S : f[x] \in Int, \A x \in R : g[x] \in Int,
           \A x \in D : f[x] <= g[x]
    PROVE  Partial(f, S)[D] <= Partial(g, R)[D]
<1>. DEFINE P == Partial(f, S)
            Q == Partial(g, R)
            T == {n \in Nat : \A s \in SUBSET D : Cardinality(s) = n => P[s] <= Q[s]}
<1>1. \A s \in SUBSET D : /\ s \in SUBSET S /\ s \in SUBSET R
                          /\ P[s] = OneMore(f, P, s) /\ P[s] \in Int
                          /\ Q[s] = OneMore(g, Q, s) /\ Q[s] \in Int
  BY PartialStep, PartialType
<1> HIDE DEF P, Q
<1>0. IsFiniteSet(D)
  BY FS_Subset
<1>2. 0 \in T
  <2>1. \A s \in SUBSET D : Cardinality(s) = 0 => s = {}
    BY <1>0, FS_Subset, FS_EmptySet
  <2>2. P[{}] = OneMore(f, P, {}) /\ Q[{}] = OneMore(g, Q, {})
    BY <1>1
  <2> QED
    BY <2>2, <2>1 DEF OneMore
<1>3. ASSUME NEW n \in T PROVE n + 1 \in T
  <2> SUFFICES ASSUME NEW s \in SUBSET D, Cardinality(s) = n + 1 PROVE P[s] <= Q[s]
    OBVIOUS
  <2>. DEFINE y == Some(s)
  <2>1. s # {} /\ \A z \in s : s \ {z} \in SUBSET D /\ Cardinality(s \ {z}) = n
    BY <1>0, OneLess
  <2>2. y \in s
    BY <2>1 DEF Some
  <2>3. Cardinality(s \ {y}) = n /\ s \ {y} \in SUBSET D
    BY <2>1, <2>2
  <2>4. P[s \ {y}] <= Q[s \ {y}]
    BY <2>3
  <2>5. P[s] = f[y] + P[s \ {y}] /\ Q[s] = g[y] + Q[s \ {y}]
    BY <1>1, <2>1 DEF OneMore
  <2>6. f[y] \in Int /\ g[y] \in Int /\ f[y] <= g[y]
    BY <2>2
  <2>7. P[s \ {y}] \in Int /\ Q[s \ {y}] \in Int
    BY <1>1, <2>3
  <2> HIDE DEF y
  <2> QED
    BY <2>4, <2>5, <2>6, <2>7
<1>4. T = Nat
  BY <1>2, <1>3, Induction
<1>5. \A s \in SUBSET D : Cardinality(s) \in Nat
  BY <1>0, FS_Subset, FS_CardinalityType
<1> QED
  BY <1>4, <1>5 DEF P, Q

-----------------------------------------------------------------------------
(* Sums *)

LEMMA SumEmpty ==
    ASSUME NEW f, DOMAIN f = {} PROVE SumFunction(f) = 0
<1>1. IsFiniteSet({}) /\ {} \in SUBSET {}
  BY FS_EmptySet
<1>2. Partial(f, {})[{}] = 0
  BY <1>1, PartialStep DEF OneMore
<1> QED
  BY <1>2, SumIsPartial DEF SumFunction

LEMMA SumType ==
    ASSUME NEW f, IsFiniteSet(DOMAIN f), \A x \in DOMAIN f : f[x] \in Int
    PROVE  SumFunction(f) \in Int
  BY SumIsPartial, PartialType DEF SumFunction

LEMMA SumNatural ==
    ASSUME NEW f, IsFiniteSet(DOMAIN f), \A x \in DOMAIN f : f[x] \in Nat
    PROVE  SumFunction(f) \in Nat
<1>1. 0 \in Nat /\ \A a, b \in Nat : a + b \in Nat
  OBVIOUS
<1>2. \A s \in SUBSET DOMAIN f : Partial(f, DOMAIN f)[s] \in Nat
  BY <1>1, PartialIn
<1> QED
  BY <1>2, SumIsPartial DEF SumFunction

LEMMA SumMonotone ==
    ASSUME NEW f, NEW g, IsFiniteSet(DOMAIN f), DOMAIN f = DOMAIN g,
           \A x \in DOMAIN f : f[x] \in Int /\ g[x] \in Int /\ f[x] <= g[x]
    PROVE  SumFunction(f) <= SumFunction(g)
<1>. DEFINE S == DOMAIN f
<1>1. Partial(f, S)[S] <= Partial(g, S)[S]
  BY PartialMonotone
<1> QED
  BY <1>1, SumIsPartial DEF SumFunction

LEMMA SumEqual ==
    ASSUME NEW f, NEW g, IsFiniteSet(DOMAIN f), DOMAIN f = DOMAIN g,
           \A x \in DOMAIN f : f[x] \in Int /\ f[x] = g[x]
    PROVE  SumFunction(f) = SumFunction(g)
<1>1. SumFunction(f) <= SumFunction(g) /\ SumFunction(g) <= SumFunction(f)
  BY SumMonotone
<1>2. SumFunction(f) \in Int /\ SumFunction(g) \in Int
  BY SumType
<1> QED
  BY <1>1, <1>2

\* One term less.
LEMMA SumRemove ==
    ASSUME NEW f, IsFiniteSet(DOMAIN f), \A x \in DOMAIN f : f[x] \in Int,
           NEW x \in DOMAIN f, NEW g, DOMAIN g = DOMAIN f \ {x},
           \A y \in DOMAIN g : g[y] = f[y]
    PROVE  SumFunction(f) = f[x] + SumFunction(g)
<1>. DEFINE S == DOMAIN f
            R == DOMAIN g
<1>1. IsFiniteSet(R)
  BY FS_RemoveElement
<1>2. SumFunction(g) = Partial(g, R)[R]
  BY SumIsPartial DEF SumFunction
<1>3. SumFunction(f) = f[x] + Partial(f, S)[R]
  BY SumIsPartial, PartialAny DEF SumFunction
<1>4. \A y \in R : f[y] <= g[y] /\ g[y] <= f[y] /\ g[y] \in Int
  OBVIOUS
<1>5. R \subseteq S /\ IsFiniteSet(S) /\ \A y \in S : f[y] \in Int
  OBVIOUS
<1> HIDE DEF S, R
<1>6. Partial(f, S)[R] <= Partial(g, R)[R]
  BY <1>1, <1>4, <1>5, PartialMonotone
<1>7. Partial(g, R)[R] <= Partial(f, S)[R]
  BY <1>1, <1>4, <1>5, PartialMonotone
<1>8. Partial(f, S)[R] \in Int /\ Partial(g, R)[R] \in Int
  BY <1>1, <1>4, <1>5, PartialType
<1> QED
  BY <1>2, <1>3, <1>6, <1>7, <1>8

\* An interval is finite.
LEMMA FiniteInterval == \A n \in Int : IsFiniteSet(1..n)
  BY FS_Interval

\* The sum of one term more.
LEMMA SumAppend ==
    ASSUME NEW n \in Nat, NEW f, DOMAIN f = 1..(n + 1), \A i \in 1..(n + 1) : f[i] \in Int,
           NEW g, DOMAIN g = 1..n, \A i \in 1..n : g[i] = f[i]
    PROVE  SumFunction(f) = SumFunction(g) + f[n + 1]
<1>1. DOMAIN g = DOMAIN f \ {n + 1} /\ n + 1 \in DOMAIN f
      /\ (\A y \in DOMAIN g : g[y] = f[y]) /\ (\A x \in DOMAIN f : f[x] \in Int)
  OBVIOUS
<1>2. IsFiniteSet(DOMAIN g) /\ IsFiniteSet(DOMAIN f)
  BY FiniteInterval
<1>3. SumFunction(f) = f[n + 1] + SumFunction(g)
  BY <1>1, <1>2, SumRemove
<1>4. SumFunction(g) \in Int
  BY <1>1, <1>2, SumType
<1> QED
  BY <1>3, <1>4

\* The first k terms.
Upto(f, k) == [i \in 1..k |-> f[i]]

\* The sum of the first terms, the last of them apart.
LEMMA SumNext ==
    ASSUME NEW f, NEW k \in Nat, \A i \in 1..(k + 1) : f[i] \in Int
    PROVE  SumFunction(Upto(f, k + 1)) = SumFunction(Upto(f, k)) + f[k + 1]
<1>. DEFINE a == Upto(f, k + 1)
            b == Upto(f, k)
<1>1. /\ DOMAIN a = 1..(k + 1) /\ \A i \in 1..(k + 1) : a[i] \in Int
      /\ DOMAIN b = 1..k /\ \A i \in 1..k : b[i] = a[i]
      /\ a[k + 1] = f[k + 1]
  BY DEF Upto
<1> HIDE DEF a, b
<1>2. SumFunction(a) = SumFunction(b) + a[k + 1]
  BY <1>1, SumAppend
<1> QED
  BY <1>1, <1>2 DEF a, b

\* The same for the first terms of n.
LEMMA SumUpto ==
    ASSUME NEW n \in Nat, NEW f, \A i \in 1..n : f[i] \in Int, NEW k \in Nat, k + 1 <= n
    PROVE  SumFunction(Upto(f, k + 1)) = SumFunction(Upto(f, k)) + f[k + 1]
<1>1. \A i \in 1..(k + 1) : i \in 1..n
  OBVIOUS
<1> QED
  BY <1>1, SumNext

\* f is g, of m terms, and then h, of n.
Joined(f, g, m, h, n) ==
    /\ m \in Nat /\ n \in Nat
    /\ DOMAIN f = 1..(m + n) /\ \A i \in 1..(m + n) : f[i] \in Int
    /\ DOMAIN g = 1..m /\ \A i \in 1..m : g[i] = f[i]
    /\ DOMAIN h = 1..n /\ \A i \in 1..n : h[i] = f[m + i]

\* The sum of some terms and then of others.
LEMMA SumConcat ==
    ASSUME NEW f, NEW g, NEW m, NEW h, NEW n, Joined(f, g, m, h, n)
    PROVE  SumFunction(f) = SumFunction(g) + SumFunction(h)
<1>. USE DEF Joined
<1>. DEFINE F(k) == Upto(f, k)
            H(k) == Upto(h, k)
            T == {k \in Nat : k <= n =>
                     SumFunction(F(m + k)) = SumFunction(F(m)) + SumFunction(H(k))}
<1>0. \A i \in 1..m : i \in 1..(m + n)
  OBVIOUS
<1>a. \A i \in 1..n : m + i \in 1..(m + n)
  OBVIOUS
<1>b. \A i \in 1..n : h[i] \in Int
  BY <1>a
<1>c. \A i \in 1..m : g[i] \in Int
  BY <1>0
<1>1. \A k \in 0..(m + n) : SumFunction(F(k)) \in Int
  <2> SUFFICES ASSUME NEW k \in 0..(m + n) PROVE SumFunction(F(k)) \in Int
    OBVIOUS
  <2>1. IsFiniteSet(DOMAIN F(k)) /\ \A i \in DOMAIN F(k) : F(k)[i] \in Int
    BY FiniteInterval DEF Upto
  <2> HIDE DEF F
  <2> QED
    BY <2>1, SumType
<1>2. \A k \in 0..n : SumFunction(H(k)) \in Int
  <2> SUFFICES ASSUME NEW k \in 0..n PROVE SumFunction(H(k)) \in Int
    OBVIOUS
  <2>1. IsFiniteSet(DOMAIN H(k)) /\ \A i \in DOMAIN H(k) : H(k)[i] \in Int
    BY <1>b, FiniteInterval DEF Upto
  <2> HIDE DEF H
  <2> QED
    BY <2>1, SumType
<1>3. 0 \in T
  <2>1. SumFunction(H(0)) = 0
    BY SumEmpty DEF Upto
  <2> QED
    BY <2>1, <1>1
<1>4. ASSUME NEW k \in T PROVE k + 1 \in T
  <2> SUFFICES ASSUME k + 1 <= n
               PROVE  SumFunction(F(m + (k + 1))) = SumFunction(F(m)) + SumFunction(H(k + 1))
    OBVIOUS
  <2>1. SumFunction(F((m + k) + 1)) = SumFunction(F(m + k)) + f[(m + k) + 1]
    <3>. DEFINE j == m + k
    <3>1. j \in Nat /\ \A i \in 1..(j + 1) : f[i] \in Int
      OBVIOUS
    <3>2. SumFunction(Upto(f, j + 1)) = SumFunction(Upto(f, j)) + f[j + 1]
      BY ONLY <3>1, SumNext
    <3> QED
      BY <3>2
  <2>2. SumFunction(H(k + 1)) = SumFunction(H(k)) + h[k + 1]
    BY <1>b, SumUpto
  <2>3. SumFunction(F(m + k)) = SumFunction(F(m)) + SumFunction(H(k))
    OBVIOUS
  <2>4. (m + k) + 1 = m + (k + 1) /\ f[m + (k + 1)] \in Int /\ h[k + 1] = f[m + (k + 1)]
    OBVIOUS
  <2>5. m \in 0..(m + n) /\ k \in 0..n
    OBVIOUS
  <2> HIDE DEF F, H
  <2>6. SumFunction(F(m)) \in Int /\ SumFunction(H(k)) \in Int
    BY <1>1, <1>2, <2>5
  <2> QED
    BY <2>1, <2>2, <2>3, <2>4, <2>6
<1>5. T = Nat
  BY <1>3, <1>4, Induction
<1>6. n \in T
  BY <1>5
<1>7. SumFunction(F(m + n)) = SumFunction(F(m)) + SumFunction(H(n))
  BY <1>6
<1>8. SumFunction(F(m + n)) = SumFunction(f)
  <2>1. /\ DOMAIN f = DOMAIN F(m + n) /\ IsFiniteSet(DOMAIN f)
        /\ \A i \in DOMAIN f : f[i] \in Int /\ f[i] = F(m + n)[i]
    BY FiniteInterval DEF Upto
  <2> HIDE DEF F
  <2> QED
    BY <2>1, SumEqual
<1>9. SumFunction(F(m)) = SumFunction(g)
  <2>1. /\ DOMAIN g = DOMAIN F(m) /\ IsFiniteSet(DOMAIN g)
        /\ \A i \in DOMAIN g : g[i] \in Int /\ g[i] = F(m)[i]
    BY <1>c, FiniteInterval DEF Upto
  <2> HIDE DEF F
  <2> QED
    BY <2>1, SumEqual
<1>10. SumFunction(H(n)) = SumFunction(h)
  <2>1. /\ DOMAIN h = DOMAIN H(n) /\ IsFiniteSet(DOMAIN h)
        /\ \A i \in DOMAIN h : h[i] \in Int /\ h[i] = H(n)[i]
    BY <1>b, FiniteInterval DEF Upto
  <2> HIDE DEF H
  <2> QED
    BY <2>1, SumEqual
<1> QED
  BY <1>7, <1>8, <1>9, <1>10

\* Tuples of integers that can be compared: those equal up to place h have one length.
Ranks(K, h) ==
    /\ h \in Nat \ {0}
    /\ \A s \in K : s \in Seq(Int) /\ h <= Len(s)
    /\ \A s, t \in K : s[h] = t[h] => Len(s) = Len(t)

\* <= between natural numbers is transitive.
LEMMA AtMostTransitive ==
    ASSUME NEW x \in Nat, NEW y \in Nat, NEW z \in Nat, x <= y, y <= z
    PROVE  x <= z
  OBVIOUS

\* An index up to n + 1 other than n + 1, and the indices before it, are up to n.
LEMMA IndexBelow ==
    ASSUME NEW n \in Nat, NEW i \in 1..(n + 1), i # n + 1
    PROVE  i \in 1..n /\ \A j \in 1..(i - 1) : j \in 1..n
  OBVIOUS

\* Before orders the tuples strictly,
LEMMA BeforeTransitive ==
    ASSUME NEW K, NEW h, Ranks(K, h), NEW s \in K, NEW t \in K, NEW u \in K,
           Before(s, t), Before(t, u)
    PROVE  Before(s, u)
<1>1. /\ s \in Seq(Int) /\ t \in Seq(Int) /\ u \in Seq(Int) /\ h \in Nat \ {0}
      /\ h <= Len(s) /\ h <= Len(t) /\ h <= Len(u)
      /\ s[h] = t[h] => Len(s) = Len(t)
      /\ t[h] = u[h] => Len(t) = Len(u)
  BY DEF Ranks
<1>2. DOMAIN s = 1..Len(s) /\ DOMAIN t = 1..Len(t) /\ DOMAIN u = 1..Len(u)
      /\ Len(s) \in Nat /\ Len(t) \in Nat /\ Len(u) \in Nat
  BY <1>1
<1>3. PICK i \in 1..Len(s) : (\A j \in 1..(i - 1) : s[j] = t[j]) /\ s[i] < t[i]
  BY <1>2 DEF Before
<1>4. PICK k \in 1..Len(t) : (\A j \in 1..(k - 1) : t[j] = u[j]) /\ t[k] < u[k]
  BY <1>2 DEF Before
<1>a. h \in Nat /\ 1 <= h /\ h <= Len(s) /\ h <= Len(t) /\ h <= Len(u)
  BY <1>1
<1>b. (s[h] = t[h] => Len(s) = Len(t)) /\ (t[h] = u[h] => Len(t) = Len(u))
  BY <1>1
<1>c. Len(s) \in Nat /\ Len(t) \in Nat /\ Len(u) \in Nat
  BY <1>2
<1>5. i \in 1..Len(t)
  <2>1. i <= h => i \in 1..Len(t)
    BY <1>a, <1>c
  <2>2. i > h => h \in 1..(i - 1)
    BY <1>a
  <2>3. i > h => s[h] = t[h]
    BY <2>2, <1>3
  <2> QED
    BY <2>1, <2>3, <1>a, <1>b, <1>c
<1>6. k \in 1..Len(u)
  <2>1. k <= h => k \in 1..Len(u)
    BY <1>a, <1>c
  <2>2. k > h => h \in 1..(k - 1)
    BY <1>a
  <2>3. k > h => t[h] = u[h]
    BY <2>2, <1>4
  <2> QED
    BY <2>1, <2>3, <1>a, <1>b, <1>c
<1>7. s[i] \in Int /\ t[i] \in Int /\ t[k] \in Int /\ u[k] \in Int
  BY <1>1, <1>5, <1>6, ElementOfSeq
<1>8. CASE i <= k
  <2>1. \A j \in 1..(i - 1) : s[j] = u[j]
    BY <1>3, <1>4, <1>8, <1>2
  <2>2. t[i] = u[i] \/ i = k
    BY <1>4, <1>8, <1>2
  <2>3. s[i] < u[i]
    BY <2>2, <1>3, <1>4, <1>7
  <2> QED
    BY <2>1, <2>3, <1>2 DEF Before
<1>9. CASE k < i
  <2>1. \A j \in 1..(k - 1) : s[j] = u[j]
    BY <1>3, <1>4, <1>9, <1>2
  <2>2. s[k] = t[k]
    BY <1>3, <1>9, <1>2
  <2>3. s[k] < u[k] /\ k \in 1..Len(s)
    BY <2>2, <1>3, <1>4, <1>9, <1>2
  <2> QED
    BY <2>1, <2>3, <1>2 DEF Before
<1> QED
  BY <1>8, <1>9, <1>2

LEMMA BeforeIrreflexive ==
    ASSUME NEW s \in Seq(Int) PROVE ~ Before(s, s)
<1>1. \A i \in DOMAIN s : s[i] \in Int
  BY ElementOfSeq, LenProperties
<1> QED
  BY <1>1 DEF Before

\* and of two different ones puts one first.
LEMMA BeforeTotal ==
    ASSUME NEW K, NEW h, Ranks(K, h), NEW s \in K, NEW t \in K, s # t
    PROVE  Before(s, t) \/ Before(t, s)
<1>1. /\ s \in Seq(Int) /\ t \in Seq(Int) /\ h \in Nat \ {0}
      /\ h <= Len(s) /\ h <= Len(t)
      /\ s[h] = t[h] => Len(s) = Len(t)
  BY DEF Ranks
<1>2. DOMAIN s = 1..Len(s) /\ DOMAIN t = 1..Len(t) /\ Len(s) \in Nat /\ Len(t) \in Nat
  BY <1>1
<1>a. h \in Nat /\ 1 <= h /\ h <= Len(s) /\ h <= Len(t)
  BY <1>1
<1>c. Len(s) \in Nat /\ Len(t) \in Nat
  BY <1>2
<1>. DEFINE T == {i \in Nat : i \in DOMAIN s /\ i \in DOMAIN t /\ s[i] # t[i]}
<1>3. T # {}
  <2>1. CASE s[h] # t[h]
    <3>1. h \in Nat /\ h \in 1..Len(s) /\ h \in 1..Len(t)
      BY <1>a, <1>c
    <3> QED
      BY <3>1, <2>1, <1>2
  <2>2. CASE s[h] = t[h]
    <3>1. Len(s) = Len(t)
      BY <2>2, <1>1
    <3>2. \E i \in 1..Len(s) : s[i] # t[i]
      BY <3>1, <1>1, SeqEqual
    <3> QED
      BY <3>1, <3>2, <1>2
  <2> QED
    BY <2>1, <2>2
<1>4. PICK i \in T : \A j \in T : i <= j
  BY <1>3, LeastNatural
<1>5. \A j \in 1..(i - 1) : s[j] = t[j]
  BY <1>4, <1>2
<1>6. s[i] \in Int /\ t[i] \in Int
  BY <1>1, <1>2, <1>4, ElementOfSeq
<1>7. s[i] < t[i] \/ t[i] < s[i]
  BY <1>6, <1>4
<1> QED
  BY <1>5, <1>7 DEF Before

\* A finite set of tuples has a least one.
LEMMA LeastExists ==
    ASSUME NEW S, IsFiniteSet(S), S # {}, NEW k, NEW h, Ranks({k[x] : x \in S}, h)
    PROVE  \E x \in S : \A y \in S : ~ Before(k[y], k[x])
<1>. DEFINE Good(s) == \E x \in s : \A y \in s : ~ Before(k[y], k[x])
            T == {n \in Nat : \A s \in SUBSET S : Cardinality(s) = n + 1 => Good(s)}
            K == {k[x] : x \in S}
<1>1. \A x \in S : k[x] \in Seq(Int) /\ ~ Before(k[x], k[x])
  BY BeforeIrreflexive DEF Ranks
<1>2. \A x, y, z \in S : Before(k[x], k[y]) /\ Before(k[y], k[z]) => Before(k[x], k[z])
  <2> SUFFICES ASSUME NEW x \in S, NEW y \in S, NEW z \in S,
                      Before(k[x], k[y]), Before(k[y], k[z])
               PROVE  Before(k[x], k[z])
    OBVIOUS
  <2>1. k[x] \in K /\ k[y] \in K /\ k[z] \in K
    OBVIOUS
  <2> QED
    BY <2>1, BeforeTransitive
<1>3. 0 \in T
  <2> SUFFICES ASSUME NEW s \in SUBSET S, Cardinality(s) = 1 PROVE Good(s)
    OBVIOUS
  <2>1. PICK x : s = {x}
    BY FS_Subset, FS_Singleton
  <2> QED
    BY <2>1, <1>1
<1>4. ASSUME NEW n \in T PROVE n + 1 \in T
  <2> SUFFICES ASSUME NEW s \in SUBSET S, Cardinality(s) = (n + 1) + 1 PROVE Good(s)
    OBVIOUS
  <2>1. s # {} /\ \A x \in s : s \ {x} \in SUBSET S /\ Cardinality(s \ {x}) = n + 1
    BY OneLess
  <2>2. PICK x : x \in s
    BY <2>1
  <2>3. Good(s \ {x})
    BY <2>1, <2>2
  <2>4. PICK m \in s \ {x} : \A y \in s \ {x} : ~ Before(k[y], k[m])
    BY <2>3
  <2>5. CASE Before(k[x], k[m])
    <3>1. \A y \in s : ~ Before(k[y], k[x])
      BY <1>1, <1>2, <2>2, <2>4, <2>5
    <3> QED
      BY <3>1, <2>2
  <2>6. CASE ~ Before(k[x], k[m])
    BY <2>4, <2>6
  <2> QED
    BY <2>5, <2>6
<1>5. T = Nat
  BY <1>3, <1>4, Induction
<1>6. Cardinality(S) \in Nat /\ Cardinality(S) # 0
  BY FS_CardinalityType, FS_EmptySet
<1>7. Cardinality(S) - 1 \in T /\ (Cardinality(S) - 1) + 1 = Cardinality(S)
  BY <1>5, <1>6
<1> QED
  BY <1>7

\* The values of a function on a finite set.
LEMMA FiniteValues ==
    ASSUME NEW f, IsFiniteSet(DOMAIN f), NEW T, \A y \in T : \E x \in DOMAIN f : y = f[x]
    PROVE  IsFiniteSet(T)
<1>. DEFINE R == {f[x] : x \in DOMAIN f}
            g == [x \in DOMAIN f |-> f[x]]
<1>1. g \in Surjection(DOMAIN f, R)
  BY DEF Surjection
<1>2. IsFiniteSet(R)
  BY <1>1, FS_Surjection
<1>3. T \subseteq R
  OBVIOUS
<1> HIDE DEF R
<1> QED
  BY <1>2, <1>3, FS_Subset

\* The keys of a function can be compared.
Ranked(key, h) == Ranks({key[x] : x \in DOMAIN key}, h)

LEMMA RankedType ==
    ASSUME NEW key, NEW h, Ranked(key, h)
    PROVE  \A x \in DOMAIN key : key[x] \in Seq(Int) /\ h <= Len(key[x]) /\ h \in Nat \ {0}
  BY DEF Ranked, Ranks

LEMMA RankedIs ==
    ASSUME NEW key, NEW h \in Nat \ {0},
           \A x \in DOMAIN key : key[x] \in Seq(Int) /\ h <= Len(key[x]),
           \A x, y \in DOMAIN key : key[x][h] = key[y][h] => Len(key[x]) = Len(key[y])
    PROVE  Ranked(key, h)
  BY DEF Ranked, Ranks

LEMMA RankedAlike ==
    ASSUME NEW key, NEW n \in Nat, \A x \in DOMAIN key : key[x] \in Seq(Int) /\ Len(key[x]) = n,
           NEW h \in 1..n
    PROVE  Ranked(key, h)
  BY DEF Ranked, Ranks

\* Least gives a member that none comes before.
LEMMA LeastIs ==
    ASSUME NEW key, NEW h, IsFiniteSet(DOMAIN key), DOMAIN key # {}, Ranked(key, h)
    PROVE  /\ Least(key) \in DOMAIN key
           /\ \A y \in DOMAIN key : ~ Before(key[y], key[Least(key)])
           /\ \A y \in DOMAIN key : key[y] = key[Least(key)] \/ Before(key[Least(key)], key[y])
<1>0. Ranks({key[x] : x \in DOMAIN key}, h)
  BY DEF Ranked
<1>1. \E x \in DOMAIN key : \A y \in DOMAIN key : ~ Before(key[y], key[x])
  BY <1>0, LeastExists
<1>2. Least(key) \in DOMAIN key /\ \A y \in DOMAIN key : ~ Before(key[y], key[Least(key)])
  BY <1>1 DEF Least
<1>. DEFINE K == {key[x] : x \in DOMAIN key}
<1>3. \A y \in DOMAIN key : key[y] \in K
  OBVIOUS
<1> HIDE DEF K
<1>4. \A y \in DOMAIN key : key[y] = key[Least(key)] \/ Before(key[Least(key)], key[y])
  BY <1>0, <1>2, <1>3, BeforeTotal DEF K
<1> QED
  BY <1>2, <1>4

LEMMA RanksSubset ==
    ASSUME NEW K, NEW L, L \subseteq K, NEW h, Ranks(K, h)
    PROVE  Ranks(L, h)
  BY DEF Ranks

\* The members of s in the order of their keys.
Order(key, s, q) ==
    /\ q \in [1..Cardinality(s) -> s]
    /\ \A i, j \in 1..Cardinality(s) : i < j => Before(key[q[i]], key[q[j]])
    /\ \A x \in s : \E i \in 1..Cardinality(s) : q[i] = x

\* A finite set has an order by keys.
LEMMA OrderExists ==
    ASSUME NEW key, NEW h, IsFiniteSet(DOMAIN key), Ranks({key[x] : x \in DOMAIN key}, h),
           \A x, y \in DOMAIN key : key[x] = key[y] => x = y
    PROVE  \E q : Order(key, DOMAIN key, q)
<1>. DEFINE S == DOMAIN key
            T == {n \in Nat : \A s \in SUBSET S : Cardinality(s) = n => \E q : Order(key, s, q)}
            K == {key[x] : x \in S}
<1>1. 0 \in T
  <2> SUFFICES ASSUME NEW s \in SUBSET S, Cardinality(s) = 0 PROVE \E q : Order(key, s, q)
    OBVIOUS
  <2>1. s = {}
    BY FS_Subset, FS_EmptySet
  <2>2. Order(key, s, [i \in 1..0 |-> 0])
    BY <2>1 DEF Order
  <2> QED
    BY <2>2
<1>2. ASSUME NEW n \in T PROVE n + 1 \in T
  <2> SUFFICES ASSUME NEW s \in SUBSET S, Cardinality(s) = n + 1
               PROVE  \E q : Order(key, s, q)
    OBVIOUS
  <2>1. /\ s # {} /\ IsFiniteSet(s)
        /\ \A x \in s : s \ {x} \in SUBSET S /\ Cardinality(s \ {x}) = n
    BY OneLess
  <2>2. Ranks({key[x] : x \in s}, h)
    BY RanksSubset, {key[x] : x \in s} \subseteq K
  <2>3. PICK x \in s : \A y \in s : ~ Before(key[y], key[x])
    BY <2>1, <2>2, LeastExists
  <2>4. \A y \in s \ {x} : Before(key[x], key[y])
    <3> SUFFICES ASSUME NEW y \in s \ {x} PROVE Before(key[x], key[y])
      OBVIOUS
    <3>1. key[x] \in K /\ key[y] \in K /\ key[x] # key[y]
      OBVIOUS
    <3>2. Before(key[x], key[y]) \/ Before(key[y], key[x])
      BY <3>1, BeforeTotal
    <3> QED
      BY <3>2, <2>3
  <2>5. PICK r : Order(key, s \ {x}, r)
    BY <2>1
  <2>6. /\ r \in [1..n -> s \ {x}]
        /\ \A i, j \in 1..n : i < j => Before(key[r[i]], key[r[j]])
        /\ \A y \in s \ {x} : \E i \in 1..n : r[i] = y
    BY <2>1, <2>5 DEF Order
  <2>. DEFINE q == [i \in 1..(n + 1) |-> IF i = 1 THEN x ELSE r[i - 1]]
  <2>7. q \in [1..(n + 1) -> s]
    <3> SUFFICES ASSUME NEW i \in 1..(n + 1) PROVE q[i] \in s
      OBVIOUS
    <3>1. i # 1 => i - 1 \in 1..n
      OBVIOUS
    <3> QED
      BY <3>1, <2>6
  <2>8. ASSUME NEW i \in 1..(n + 1), NEW j \in 1..(n + 1), i < j
        PROVE  Before(key[q[i]], key[q[j]])
    <3>1. j - 1 \in 1..n /\ q[j] = r[j - 1]
      BY <2>8
    <3>2. CASE i = 1
      BY <3>1, <3>2, <2>4, <2>6
    <3>3. CASE i # 1
      <4>1. i - 1 \in 1..n /\ q[i] = r[i - 1] /\ i - 1 < j - 1
        BY <3>3, <2>8
      <4> QED
        BY <3>1, <4>1, <2>6
    <3> QED
      BY <3>2, <3>3
  <2>9. ASSUME NEW y \in s PROVE \E i \in 1..(n + 1) : q[i] = y
    <3>1. CASE y = x
      <4>1. 1 \in 1..(n + 1) /\ q[1] = x
        OBVIOUS
      <4> QED
        BY <4>1, <3>1
    <3>2. CASE y # x
      <4>1. PICK i \in 1..n : r[i] = y
        BY <2>6, <3>2
      <4>2. i + 1 \in 1..(n + 1) /\ q[i + 1] = y
        BY <4>1
      <4> QED
        BY <4>2
    <3> QED
      BY <3>1, <3>2
  <2> HIDE DEF q
  <2>10. Order(key, s, q)
    BY <2>7, <2>8, <2>9 DEF Order
  <2> QED
    BY <2>10
<1>3. T = Nat
  BY <1>1, <1>2, Induction
<1>4. Cardinality(S) \in Nat
  BY FS_CardinalityType
<1> QED
  BY <1>3, <1>4

\* sorted gives each member once.
LEMMA SortedIs ==
    ASSUME NEW key, NEW h, IsFiniteSet(DOMAIN key), Ranked(key, h),
           \A x, y \in DOMAIN key : key[x] = key[y] => x = y
    PROVE  /\ Sorted(key) \in Seq(DOMAIN key)
           /\ Len(Sorted(key)) = Cardinality(DOMAIN key)
           /\ \A x \in DOMAIN key : \E i \in DOMAIN Sorted(key) : Sorted(key)[i] = x
           /\ \A i, j \in DOMAIN Sorted(key) : i < j =>
                  Before(key[Sorted(key)[i]], key[Sorted(key)[j]])
<1>. DEFINE S == DOMAIN key
            n == Cardinality(S)
            Right(s) == \A i, j \in DOMAIN s : i < j => Before(key[s[i]], key[s[j]])
<1>0. n \in Nat
  BY FS_CardinalityType
<1>1. PICK q : Order(key, S, q)
  BY OrderExists DEF Ranked
<1>2. q \in [1..n -> S] /\ DOMAIN q = 1..n /\ Right(q)
  BY <1>1 DEF Order
<1>3. \A x \in S : key[x] \in Seq(Int)
  BY RankedType
<1>4. \A i, j \in 1..n : i # j => q[i] # q[j]
  <2> SUFFICES ASSUME NEW i \in 1..n, NEW j \in 1..n, i # j PROVE q[i] # q[j]
    OBVIOUS
  <2>1. Before(key[q[i]], key[q[j]]) \/ Before(key[q[j]], key[q[i]])
    <3>1. i < j \/ j < i
      BY <1>0
    <3> QED
      BY <3>1, <1>2
  <2>2. q[i] \in S
    BY <1>2
  <2> QED
    BY <2>1, <2>2, <1>3, BeforeIrreflexive
<1>5. q \in SetToSeqs(S)
  BY <1>2, <1>4 DEF SetToSeqs
<1>. DEFINE s == Sorted(key)
<1>6. s \in SetToSeqs(S) /\ Right(s)
  BY <1>5, <1>2 DEF Sorted
<1> HIDE DEF s
<1>7. s \in [1..n -> S] /\ \A i, j \in 1..n : i # j => s[i] # s[j]
  BY <1>6 DEF SetToSeqs
<1>8. s \in Seq(S) /\ Len(s) = n /\ DOMAIN s = 1..n
  BY <1>7, <1>0
<1>9. s \in Injection(1..n, S)
  BY <1>7 DEF Injection, IsInjective
<1>10. Cardinality(1..n) = n
  BY <1>0, FS_Interval
<1>11. s \in Surjection(1..n, S)
  BY <1>9, <1>10, FS_Injection
<1>12. \A x \in S : \E i \in 1..n : s[i] = x
  BY <1>11 DEF Surjection
<1> QED
  BY <1>6, <1>8, <1>12 DEF s

-----------------------------------------------------------------------------
(* Walks *)

\* A weight of the legs between the members of N, with the triangle inequality.
Metric(w, N) ==
    /\ w \in [N \X N -> Nat]
    /\ \A i, j, k \in N : w[<<i, j>>] <= w[<<i, k>>] + w[<<k, j>>]

\* The weights of the legs of s.
Legs(w, s) == [i \in 1..(Len(s) - 1) |-> w[<<s[i], s[i + 1]>>]]

Walk(w, s) == SumFunction(Legs(w, s))

LEMMA LegsType ==
    ASSUME NEW N, NEW w \in [N \X N -> Nat], NEW s \in Seq(N)
    PROVE  /\ DOMAIN Legs(w, s) = 1..(Len(s) - 1) /\ IsFiniteSet(DOMAIN Legs(w, s))
           /\ \A i \in DOMAIN Legs(w, s) : Legs(w, s)[i] \in Nat
<1>1. Len(s) \in Nat /\ DOMAIN Legs(w, s) = 1..(Len(s) - 1)
  BY LenProperties DEF Legs
<1>2. ASSUME NEW i \in DOMAIN Legs(w, s) PROVE Legs(w, s)[i] \in Nat
  <2>1. i \in 1..Len(s) /\ i + 1 \in 1..Len(s)
    BY <1>1
  <2>2. s[i] \in N /\ s[i + 1] \in N
    BY <2>1, ElementOfSeq
  <2> QED
    BY <2>2, <1>1 DEF Legs
<1> QED
  BY <1>1, <1>2, FiniteInterval

\* The length of a walk is a natural.
LEMMA WalkType ==
    ASSUME NEW N, NEW w \in [N \X N -> Nat], NEW s \in Seq(N)
    PROVE  Walk(w, s) \in Nat
<1>1. \A i \in DOMAIN Legs(w, s) : Legs(w, s)[i] \in Nat
  BY LegsType
<1>2. IsFiniteSet(DOMAIN Legs(w, s))
  BY LegsType
<1> QED
  BY <1>1, <1>2, SumNatural DEF Walk

\* Nobody walks anywhere with one stop.
LEMMA WalkShort ==
    ASSUME NEW w, NEW s, Len(s) \in 0..1 PROVE Walk(w, s) = 0
<1>1. \A n \in 0..1 : 1..(n - 1) = {}
  OBVIOUS
<1>2. DOMAIN Legs(w, s) = 1..(Len(s) - 1)
  BY DEF Legs
<1> QED
  BY <1>1, <1>2, SumEmpty DEF Walk

\* One stop more.
LEMMA WalkAppend ==
    ASSUME NEW N, NEW w \in [N \X N -> Nat], NEW s \in Seq(N), s # <<>>, NEW x \in N
    PROVE  Walk(w, Append(s, x)) = Walk(w, s) + w[<<s[Len(s)], x>>]
<1>. DEFINE t == Append(s, x)
            n == Len(s) - 1
            f == Legs(w, t)
            g == Legs(w, s)
<1>1. /\ t \in Seq(N) /\ Len(t) = Len(s) + 1 /\ \A i \in 1..Len(s) : t[i] = s[i]
      /\ t[Len(s) + 1] = x
  BY AppendProperties
<1>2. Len(s) \in Nat /\ Len(s) > 0
  BY EmptySeq, LenProperties
<1>3. n \in Nat /\ n + 1 = Len(s) /\ n + 1 = Len(t) - 1
  BY <1>1, <1>2
<1> HIDE DEF t
<1>4. DOMAIN f = 1..(n + 1) /\ \A i \in 1..(n + 1) : f[i] \in Int
  <2>1. DOMAIN f = 1..(Len(t) - 1) /\ \A i \in DOMAIN f : f[i] \in Nat
    BY <1>1, LegsType
  <2> HIDE DEF f, n
  <2> QED
    BY <2>1, <1>3
<1>5. DOMAIN g = 1..n
  BY DEF Legs
<1>6. \A i \in 1..n : g[i] = f[i]
  <2> SUFFICES ASSUME NEW i \in 1..n PROVE g[i] = f[i]
    OBVIOUS
  <2>1. i \in 1..Len(s) /\ i + 1 \in 1..Len(s) /\ i \in 1..(Len(s) - 1) /\ i \in 1..(Len(t) - 1)
    BY <1>2, <1>3, <1>1
  <2>2. t[i] = s[i] /\ t[i + 1] = s[i + 1]
    BY <1>1, <2>1
  <2> QED
    BY <2>1, <2>2 DEF Legs
<1>7. f[n + 1] = w[<<s[Len(s)], x>>]
  <2>1. n + 1 \in 1..(Len(t) - 1) /\ n + 1 \in 1..Len(s) /\ n + 1 = Len(s) /\ (n + 1) + 1 = Len(s) + 1
    BY <1>2, <1>3
  <2>2. t[n + 1] = s[Len(s)] /\ t[(n + 1) + 1] = x
    BY <1>1, <2>1
  <2> HIDE DEF n
  <2> QED
    BY <2>1, <2>2 DEF Legs
<1> HIDE DEF f, g, n
<1>8. SumFunction(f) = SumFunction(g) + f[n + 1]
  BY <1>3, <1>4, <1>5, <1>6, SumAppend
<1> QED
  BY <1>7, <1>8 DEF f, g, t, Walk

\* One walk after another.
LEMMA WalkJoin ==
    ASSUME NEW N, NEW w \in [N \X N -> Nat], NEW s \in Seq(N), s # <<>>, NEW t \in Seq(N), t # <<>>
    PROVE  Walk(w, s \o t) = Walk(w, s) + w[<<s[Len(s)], t[1]>>] + Walk(w, t)
<1>. DEFINE u == s \o t
            n == Len(t) - 1
            m == Len(s)
            f == Legs(w, u)
            e == [i \in 1..m |-> f[i]]
            g == Legs(w, s)
            h == Legs(w, t)
<1>1. /\ u \in Seq(N) /\ Len(u) = Len(s) + Len(t)
      /\ \A i \in 1..(Len(s) + Len(t)) : u[i] = IF i <= Len(s) THEN s[i] ELSE t[i - Len(s)]
  BY ConcatProperties
<1>2. Len(s) \in Nat /\ Len(s) > 0 /\ Len(t) \in Nat /\ Len(t) > 0
  BY EmptySeq, LenProperties
<1>3. m \in Nat /\ m > 0 /\ n \in Nat /\ m + n = Len(u) - 1 /\ Len(t) = n + 1
  BY <1>1, <1>2
<1> HIDE DEF u
<1>4. DOMAIN f = 1..(m + n) /\ \A i \in 1..(m + n) : f[i] \in Int
  <2>1. DOMAIN f = 1..(Len(u) - 1) /\ \A i \in DOMAIN f : f[i] \in Nat
    BY <1>1, LegsType
  <2> HIDE DEF f, n, m
  <2> QED
    BY <2>1, <1>3
<1>5. DOMAIN g = 1..(m - 1) /\ DOMAIN h = 1..n
  BY DEF Legs
<1>6. \A i \in 1..(m - 1) : g[i] = f[i]
  <2> SUFFICES ASSUME NEW i \in 1..(m - 1) PROVE g[i] = f[i]
    OBVIOUS
  <2>1. i <= Len(s) /\ i + 1 <= Len(s) /\ i \in 1..(Len(s) + Len(t)) /\ i + 1 \in 1..(Len(s) + Len(t))
        /\ i \in 1..(Len(s) - 1) /\ i \in 1..(Len(u) - 1)
    BY <1>2, <1>3
  <2>2. u[i] = s[i] /\ u[i + 1] = s[i + 1]
    BY <1>1, <2>1
  <2> QED
    BY <2>1, <2>2 DEF Legs
<1>7. f[m] = w[<<s[Len(s)], t[1]>>]
  <2>1. m \in 1..(Len(u) - 1) /\ m <= Len(s) /\ m \in 1..(Len(s) + Len(t)) /\ ~ (m + 1 <= Len(s))
        /\ m + 1 \in 1..(Len(s) + Len(t)) /\ (m + 1) - Len(s) = 1 /\ m = Len(s)
    BY <1>2, <1>3
  <2>2. u[m] = s[Len(s)] /\ u[m + 1] = t[1]
    BY <1>1, <2>1
  <2> HIDE DEF m
  <2> QED
    BY <2>1, <2>2 DEF Legs
<1>8. \A i \in 1..n : h[i] = f[m + i]
  <2> SUFFICES ASSUME NEW i \in 1..n PROVE h[i] = f[m + i]
    OBVIOUS
  <2>1. m + i \in 1..(Len(u) - 1) /\ ~ (m + i <= Len(s)) /\ m + i \in 1..(Len(s) + Len(t))
        /\ ~ ((m + i) + 1 <= Len(s))
        /\ (m + i) + 1 \in 1..(Len(s) + Len(t)) /\ (m + i) - Len(s) = i /\ (m + i + 1) - Len(s) = i + 1
        /\ i \in 1..(Len(t) - 1)
    BY <1>2, <1>3
  <2>2. u[m + i] = t[i] /\ u[(m + i) + 1] = t[i + 1]
    BY <1>1, <2>1
  <2>3. f[m + i] = w[<<u[m + i], u[(m + i) + 1]>>] /\ h[i] = w[<<t[i], t[i + 1]>>]
    BY <2>1 DEF Legs
  <2> QED
    BY <2>2, <2>3
<1>9. DOMAIN e = 1..m /\ \A i \in 1..m : e[i] = f[i] /\ e[i] \in Int
  BY <1>4, <1>3
<1>10. (m - 1) \in Nat /\ (m - 1) + 1 = m
  BY <1>3
<1> HIDE DEF f, g, h, e, m, n
<1>11. SumFunction(f) = SumFunction(e) + SumFunction(h)
  <2>1. DOMAIN e = 1..m /\ \A i \in 1..m : e[i] = f[i]
    BY <1>9
  <2>2. m \in Nat /\ n \in Nat /\ DOMAIN h = 1..n
    BY <1>3, <1>5
  <2>3. Joined(f, e, m, h, n)
    BY <2>1, <2>2, <1>4, <1>8 DEF Joined
  <2> QED
    BY <2>3, SumConcat
<1>12. SumFunction(e) = SumFunction(g) + f[m]
  <2>. DEFINE k == m - 1
  <2>1. k \in Nat /\ k + 1 = m
    BY <1>10
  <2>2. DOMAIN e = 1..(k + 1) /\ (\A i \in 1..(k + 1) : e[i] \in Int) /\ DOMAIN g = 1..k
        /\ \A i \in 1..k : i \in 1..m
    BY <2>1, <1>9, <1>5
  <2>3. \A i \in 1..k : g[i] = e[i]
    BY <2>2, <1>6, <1>9
  <2>4. e[k + 1] = f[m]
    BY <2>1, <1>9, <1>3
  <2> HIDE DEF k
  <2>5. SumFunction(e) = SumFunction(g) + e[k + 1]
    BY <2>1, <2>2, <2>3, SumAppend
  <2> QED
    BY <2>4, <2>5
<1>13. SumFunction(g) \in Int /\ SumFunction(h) \in Int /\ f[m] \in Int
  <2>1. m \in 1..(m + n)
    BY <1>3
  <2>2. SumFunction(g) \in Nat /\ SumFunction(h) \in Nat
    BY WalkType DEF g, h, Walk
  <2> QED
    BY <2>1, <2>2, <1>4
<1>14. SumFunction(f) = SumFunction(g) + f[m] + SumFunction(h)
  BY <1>11, <1>12, <1>13
<1> QED
  BY <1>7, <1>14 DEF f, g, h, u, Walk

\* Without a stop a walk is not longer.
LEMMA WalkShortcut ==
    ASSUME NEW N, NEW w, Metric(w, N), NEW s \in Seq(N), s # <<>>, NEW x \in N,
           NEW t \in Seq(N), t # <<>>
    PROVE  /\ Walk(w, s \o t) <= Walk(w, s \o (<<x>> \o t))
           /\ w[<<s[Len(s)], x>>] = 0 /\ w[<<s[Len(s)], t[1]>>] = w[<<x, t[1]>>]
                => Walk(w, s \o t) = Walk(w, s \o (<<x>> \o t))
<1>. DEFINE one == <<x>>
            u == one \o t
            p == s[Len(s)]
            q == t[1]
<1>1. w \in [N \X N -> Nat] /\ \A i, j, k \in N : w[<<i, j>>] <= w[<<i, k>>] + w[<<k, j>>]
  BY DEF Metric
<1>2. one \in Seq(N) /\ Len(one) = 1 /\ one # <<>> /\ one[1] = x /\ one[Len(one)] = x
  OBVIOUS
<1>3. Len(s) \in 1..Len(s) /\ 1 \in 1..Len(t) /\ Len(t) \in Nat /\ Len(t) > 0
  <2>1. Len(s) \in Nat \ {0} /\ Len(t) \in Nat \ {0}
    BY EmptySeq
  <2> QED
    BY <2>1
<1>4. p \in N /\ q \in N
  BY <1>3, ElementOfSeq
<1> HIDE DEF one
<1>5. u \in Seq(N) /\ Len(u) = 1 + Len(t) /\ u[1] = x
  <2>1. /\ u \in Seq(N) /\ Len(u) = Len(one) + Len(t)
        /\ \A i \in 1..(Len(one) + Len(t)) : u[i] = IF i <= Len(one) THEN one[i] ELSE t[i - Len(one)]
    BY <1>2, ConcatProperties
  <2>2. 1 \in 1..(Len(one) + Len(t)) /\ 1 <= Len(one)
    BY <1>2, <1>3
  <2> QED
    BY <2>1, <2>2, <1>2
<1>6. u # <<>>
  BY <1>5, <1>3
<1> HIDE DEF u
<1>7. Walk(w, one) = 0
  BY <1>2, WalkShort
<1>8. Walk(w, u) = Walk(w, one) + w[<<x, q>>] + Walk(w, t)
  <2>1. Walk(w, one \o t) = Walk(w, one) + w[<<one[Len(one)], t[1]>>] + Walk(w, t)
    BY <1>1, <1>2, WalkJoin
  <2> QED
    BY <2>1, <1>2 DEF u
<1>9. Walk(w, s \o u) = Walk(w, s) + w[<<p, x>>] + Walk(w, u)
  BY <1>1, <1>5, <1>6, WalkJoin
<1>10. Walk(w, s \o t) = Walk(w, s) + w[<<p, q>>] + Walk(w, t)
  BY <1>1, WalkJoin
<1>11. Walk(w, s) \in Nat /\ Walk(w, t) \in Nat
  BY <1>1, WalkType
<1>12. w[<<p, q>>] \in Nat /\ w[<<p, x>>] \in Nat /\ w[<<x, q>>] \in Nat
       /\ w[<<p, q>>] <= w[<<p, x>>] + w[<<x, q>>]
  BY <1>1, <1>4
<1> HIDE DEF p, q
<1>13. /\ Walk(w, s \o t) <= Walk(w, s \o u)
       /\ w[<<p, x>>] = 0 /\ w[<<p, q>>] = w[<<x, q>>] => Walk(w, s \o t) = Walk(w, s \o u)
  <2>. DEFINE a == w[<<p, q>>]
              b == w[<<p, x>>]
              c == w[<<x, q>>]
              d == Walk(w, s)
              e == Walk(w, t)
  <2>1. a \in Nat /\ b \in Nat /\ c \in Nat /\ a <= b + c /\ d \in Int /\ e \in Int
    BY <1>11, <1>12
  <2>2. Walk(w, s \o u) = d + b + (0 + c + e) /\ Walk(w, s \o t) = d + a + e
    BY <1>7, <1>8, <1>9, <1>10
  <2> HIDE DEF a, b, c, d, e
  <2>3. /\ Walk(w, s \o t) <= Walk(w, s \o u)
        /\ b = 0 /\ a = c => Walk(w, s \o t) = Walk(w, s \o u)
    BY <2>1, <2>2
  <2> QED
    BY <2>3 DEF a, b, c
<1> QED
  BY <1>13 DEF u, one, p, q

-----------------------------------------------------------------------------
(* Tours *)

\* The stops have places.
Placed(layout, S) ==
    /\ S \subseteq Nat \ {0} /\ IsFiniteSet(S)
    /\ \A a \in S : layout[a] \in Int \X Int

\* The legs between the stops of S and the origin.
Km(layout, S) ==
    [e \in (S \cup {0}) \X (S \cup {0}) |-> Leg(layout, e[1], e[2]).distance]

Minutes(layout, S) ==
    [e \in (S \cup {0}) \X (S \cup {0}) |-> Leg(layout, e[1], e[2]).time]

\* From the origin and back.
Around(order) == (<<0>> \o order) \o <<0>>

\* The places of the stops are pairs of numbers.
LEMMA PlaceType ==
    ASSUME NEW layout, NEW S, Placed(layout, S), NEW i \in S \cup {0}
    PROVE  Place(layout, i) \in Int \X Int
  BY DEF Placed, Place

\* A leg is as long as its places are apart, and takes three minutes a kilometre and two.
LEMMA LegIs ==
    ASSUME NEW layout, NEW S, Placed(layout, S), NEW i \in S \cup {0}, NEW j \in S \cup {0}
    PROVE  /\ Leg(layout, i, j).distance \in Nat
           /\ Leg(layout, i, j).time =
                  3 * Leg(layout, i, j).distance + (IF Leg(layout, i, j).distance = 0 THEN 0 ELSE 2)
           /\ Leg(layout, i, j).distance = 0 <=> Place(layout, i) = Place(layout, j)
           /\ \A k \in S \cup {0} :
                  Leg(layout, i, j).distance <= Leg(layout, i, k).distance + Leg(layout, k, j).distance
<1>. DEFINE P(k) == Place(layout, k)
<1>1. \A k \in S \cup {0} : P(k)[1] \in Int /\ P(k)[2] \in Int /\ P(k) = <<P(k)[1], P(k)[2]>>
  <2> SUFFICES ASSUME NEW k \in S \cup {0}
               PROVE  P(k)[1] \in Int /\ P(k)[2] \in Int /\ P(k) = <<P(k)[1], P(k)[2]>>
    OBVIOUS
  <2>1. P(k) \in Int \X Int
    BY PlaceType
  <2> HIDE DEF P
  <2> QED
    BY <2>1
<1>2. \A k, l \in S \cup {0} : Leg(layout, k, l).distance =
           Absolute(P(l)[1] - P(k)[1]) + Absolute(P(l)[2] - P(k)[2])
  BY DEF Leg
<1>5. Leg(layout, i, j).time =
                  3 * Leg(layout, i, j).distance + (IF Leg(layout, i, j).distance = 0 THEN 0 ELSE 2)
  BY DEF Leg
<1> HIDE DEF P
<1>6. Leg(layout, i, j).distance \in Nat /\ (Leg(layout, i, j).distance = 0 <=> P(i) = P(j))
  <2>. DEFINE a == P(i)[1]
              b == P(i)[2]
              c == P(j)[1]
              d == P(j)[2]
  <2>1. a \in Int /\ b \in Int /\ c \in Int /\ d \in Int /\ P(i) = <<a, b>> /\ P(j) = <<c, d>>
    BY <1>1
  <2>2. Leg(layout, i, j).distance = Absolute(c - a) + Absolute(d - b)
    BY <1>2
  <2> HIDE DEF a, b, c, d
  <2>3. P(i) = P(j) <=> a = c /\ b = d
    BY <2>1
  <2>4. /\ Absolute(c - a) + Absolute(d - b) \in Nat
        /\ Absolute(c - a) + Absolute(d - b) = 0 <=> a = c /\ b = d
    BY <2>1 DEF Absolute
  <2> QED
    BY <2>2, <2>3, <2>4
<1>7. ASSUME NEW k \in S \cup {0}
      PROVE  Leg(layout, i, j).distance <= Leg(layout, i, k).distance + Leg(layout, k, j).distance
  <2>. DEFINE a == P(i)[1]
              b == P(i)[2]
              c == P(j)[1]
              d == P(j)[2]
              e == P(k)[1]
              f == P(k)[2]
  <2>1. a \in Int /\ b \in Int /\ c \in Int /\ d \in Int /\ e \in Int /\ f \in Int
    BY <1>1
  <2>2. /\ Leg(layout, i, j).distance = Absolute(c - a) + Absolute(d - b)
        /\ Leg(layout, i, k).distance = Absolute(e - a) + Absolute(f - b)
        /\ Leg(layout, k, j).distance = Absolute(c - e) + Absolute(d - f)
    BY <1>2
  <2> HIDE DEF a, b, c, d, e, f
  <2>3. Absolute(c - a) + Absolute(d - b) <=
            (Absolute(e - a) + Absolute(f - b)) + (Absolute(c - e) + Absolute(d - f))
    BY <2>1 DEF Absolute
  <2> QED
    BY <2>2, <2>3
<1> QED
  BY <1>5, <1>6, <1>7 DEF P

\* The distances and the times of the legs keep the triangle inequality.
LEMMA LegsAreMetric ==
    ASSUME NEW layout, NEW S, Placed(layout, S)
    PROVE  Metric(Km(layout, S), S \cup {0}) /\ Metric(Minutes(layout, S), S \cup {0})
<1>. DEFINE N == S \cup {0}
            d == Km(layout, S)
            t == Minutes(layout, S)
<1>1. \A i, j \in N : /\ d[<<i, j>>] = Leg(layout, i, j).distance
                      /\ t[<<i, j>>] = Leg(layout, i, j).time
  BY DEF Km, Minutes
<1>2. \A i, j \in N : /\ d[<<i, j>>] \in Nat
                      /\ t[<<i, j>>] = 3 * d[<<i, j>>] + (IF d[<<i, j>>] = 0 THEN 0 ELSE 2)
  <2> SUFFICES ASSUME NEW i \in N, NEW j \in N
               PROVE  /\ d[<<i, j>>] \in Nat
                      /\ t[<<i, j>>] = 3 * d[<<i, j>>] + (IF d[<<i, j>>] = 0 THEN 0 ELSE 2)
    OBVIOUS
  <2>1. d[<<i, j>>] = Leg(layout, i, j).distance /\ t[<<i, j>>] = Leg(layout, i, j).time
    BY <1>1
  <2>2. /\ Leg(layout, i, j).distance \in Nat
        /\ Leg(layout, i, j).time =
               3 * Leg(layout, i, j).distance + (IF Leg(layout, i, j).distance = 0 THEN 0 ELSE 2)
    BY LegIs
  <2> QED
    BY <2>1, <2>2
<1>3. \A i, j, k \in N : d[<<i, j>>] <= d[<<i, k>>] + d[<<k, j>>]
  BY <1>1, LegIs
<1>4. \A a, b, c \in Nat : a <= b + c =>
          /\ 3 * a + (IF a = 0 THEN 0 ELSE 2) \in Nat
          /\ 3 * a + (IF a = 0 THEN 0 ELSE 2) <=
                 (3 * b + (IF b = 0 THEN 0 ELSE 2)) + (3 * c + (IF c = 0 THEN 0 ELSE 2))
  OBVIOUS
<1>5. DOMAIN d = N \X N /\ DOMAIN t = N \X N /\ d = [e \in N \X N |-> d[e]] /\ t = [e \in N \X N |-> t[e]]
  BY DEF Km, Minutes
<1> HIDE DEF d, t, N
<1>6. \A i, j \in N : t[<<i, j>>] \in Nat
  <2> SUFFICES ASSUME NEW i \in N, NEW j \in N PROVE t[<<i, j>>] \in Nat
    OBVIOUS
  <2>1. d[<<i, j>>] \in Nat /\ d[<<i, j>>] <= d[<<i, j>>] + d[<<i, j>>]
    BY <1>2
  <2> QED
    BY <2>1, <1>2, <1>4
<1>7. \A i, j, k \in N : t[<<i, j>>] <= t[<<i, k>>] + t[<<k, j>>]
  <2> SUFFICES ASSUME NEW i \in N, NEW j \in N, NEW k \in N
               PROVE  t[<<i, j>>] <= t[<<i, k>>] + t[<<k, j>>]
    OBVIOUS
  <2>1. /\ d[<<i, j>>] \in Nat /\ d[<<i, k>>] \in Nat /\ d[<<k, j>>] \in Nat
        /\ d[<<i, j>>] <= d[<<i, k>>] + d[<<k, j>>]
    BY <1>2, <1>3
  <2>. DEFINE a == d[<<i, j>>]
              b == d[<<i, k>>]
              c == d[<<k, j>>]
  <2>2. /\ t[<<i, j>>] = 3 * a + (IF a = 0 THEN 0 ELSE 2)
        /\ t[<<i, k>>] = 3 * b + (IF b = 0 THEN 0 ELSE 2)
        /\ t[<<k, j>>] = 3 * c + (IF c = 0 THEN 0 ELSE 2)
    BY <1>2
  <2>3. a \in Nat /\ b \in Nat /\ c \in Nat /\ a <= b + c
    BY <2>1
  <2> HIDE DEF a, b, c
  <2>4. 3 * a + (IF a = 0 THEN 0 ELSE 2) <=
                 (3 * b + (IF b = 0 THEN 0 ELSE 2)) + (3 * c + (IF c = 0 THEN 0 ELSE 2))
    BY <2>3, <1>4
  <2> QED
    BY <2>2, <2>4
<1>8. d \in [N \X N -> Nat] /\ t \in [N \X N -> Nat]
  <2>1. \A e \in N \X N : e[1] \in N /\ e[2] \in N /\ e = <<e[1], e[2]>>
    OBVIOUS
  <2>2. \A e \in N \X N : d[e] \in Nat /\ t[e] \in Nat
    BY <2>1, <1>2, <1>6
  <2> QED
    BY <2>2, <1>5
<1>9. Metric(d, N) /\ Metric(t, N)
  BY <1>3, <1>7, <1>8 DEF Metric
<1> QED
  BY <1>9 DEF d, t, N

\* The points of a tour.
LEMMA AroundIs ==
    ASSUME NEW S, NEW order \in Seq(S)
    PROVE  /\ Around(order) \in Seq(S \cup {0}) /\ Len(Around(order)) = Len(order) + 2
           /\ \A i \in 1..Len(order) : Around(order)[i + 1] = order[i]
           /\ Around(order)[1] = 0 /\ Around(order)[Len(order) + 2] = 0
<1>. DEFINE N == S \cup {0}
            z == <<0>>
            a == z \o order
            n == Len(order)
<1>1. order \in Seq(N)
  BY SeqMonotonic
<1>2. z \in Seq(N) /\ Len(z) = 1 /\ z[1] = 0
  OBVIOUS
<1>3. n \in Nat
  BY LenProperties
<1> HIDE DEF z, N, n
<1>4. /\ a \in Seq(N) /\ Len(a) = 1 + n
      /\ \A i \in 1..(1 + n) : a[i] = IF i <= 1 THEN z[i] ELSE order[i - 1]
  <2>1. /\ a \in Seq(N) /\ Len(a) = Len(z) + Len(order)
        /\ \A i \in 1..(Len(z) + Len(order)) : a[i] = IF i <= Len(z) THEN z[i] ELSE order[i - Len(z)]
    BY <1>1, <1>2, ConcatProperties
  <2>2. Len(z) + Len(order) = 1 + n
    BY <1>2 DEF n
  <2> QED
    BY <2>1, <2>2, <1>2
<1> HIDE DEF a
<1>5. /\ a \o z \in Seq(N) /\ Len(a \o z) = (1 + n) + 1
      /\ \A i \in 1..((1 + n) + 1) : (a \o z)[i] = IF i <= 1 + n THEN a[i] ELSE z[i - (1 + n)]
  <2>1. /\ a \o z \in Seq(N) /\ Len(a \o z) = Len(a) + Len(z)
        /\ \A i \in 1..(Len(a) + Len(z)) : (a \o z)[i] = IF i <= Len(a) THEN a[i] ELSE z[i - Len(a)]
    BY <1>2, <1>4, ConcatProperties
  <2>2. Len(a) + Len(z) = (1 + n) + 1 /\ Len(a) = 1 + n
    BY <1>2, <1>4
  <2> QED
    BY <2>1, <2>2
<1>6. \A i \in 1..n : (a \o z)[i + 1] = order[i]
  <2> SUFFICES ASSUME NEW i \in 1..n PROVE (a \o z)[i + 1] = order[i]
    OBVIOUS
  <2>1. i + 1 \in 1..((1 + n) + 1) /\ i + 1 <= 1 + n /\ i + 1 \in 1..(1 + n) /\ ~ (i + 1 <= 1)
        /\ (i + 1) - 1 = i
    BY <1>3
  <2> QED
    BY <2>1, <1>4, <1>5
<1>7. (a \o z)[1] = 0
  <2>1. 1 \in 1..((1 + n) + 1) /\ 1 <= 1 + n /\ 1 \in 1..(1 + n)
    BY <1>3
  <2> QED
    BY <2>1, <1>2, <1>4, <1>5
<1>8. (a \o z)[n + 2] = 0
  <2>1. n + 2 \in 1..((1 + n) + 1) /\ ~ (n + 2 <= 1 + n) /\ (n + 2) - (1 + n) = 1
    BY <1>3
  <2> QED
    BY <2>1, <1>2, <1>5
<1>9. a \o z = Around(order)
  BY DEF Around, a, z
<1> QED
  BY <1>3, <1>5, <1>6, <1>7, <1>8, <1>9 DEF N, n

\* The time and the distance of a tour are those of its walk.
LEMMA TourIs ==
    ASSUME NEW layout, NEW S, Placed(layout, S), NEW order \in Seq(S)
    PROVE  Tour(layout, order) =
               [order |-> order,
                time |-> Walk(Minutes(layout, S), Around(order)),
                distance |-> Walk(Km(layout, S), Around(order))]
<1>. DEFINE N == S \cup {0}
            points == Around(order)
            legs == [i \in 1..(Len(points) - 1) |-> Leg(layout, points[i], points[i + 1])]
            times == [i \in DOMAIN legs |-> legs[i].time]
            lengths == [i \in DOMAIN legs |-> legs[i].distance]
<1>1. Tour(layout, order) = [order |-> order, time |-> SumFunction(times),
                             distance |-> SumFunction(lengths)]
  BY DEF Tour, Around
<1>2. points \in Seq(N) /\ Len(points) \in Nat
  BY AroundIs, LenProperties
<1>3. \A i \in 1..(Len(points) - 1) : points[i] \in N /\ points[i + 1] \in N
  <2>1. \A i \in 1..(Len(points) - 1) : i \in 1..Len(points) /\ i + 1 \in 1..Len(points)
    BY <1>2
  <2> HIDE DEF points
  <2> QED
    BY <2>1, <1>2, ElementOfSeq
<1> HIDE DEF points
<1>4. times = Legs(Minutes(layout, S), points)
  <2>1. \A i \in 1..(Len(points) - 1) :
            Minutes(layout, S)[<<points[i], points[i + 1]>>] = Leg(layout, points[i], points[i + 1]).time
    BY <1>3 DEF Minutes
  <2> QED
    BY <2>1 DEF Legs
<1>5. lengths = Legs(Km(layout, S), points)
  <2>1. \A i \in 1..(Len(points) - 1) :
            Km(layout, S)[<<points[i], points[i + 1]>>] = Leg(layout, points[i], points[i + 1]).distance
    BY <1>3 DEF Km
  <2> QED
    BY <2>1 DEF Legs
<1> HIDE DEF times, lengths
<1> QED
  BY <1>1, <1>4, <1>5 DEF Walk, points

LEMMA TourType ==
    ASSUME NEW layout, NEW S, Placed(layout, S), NEW order \in Seq(S)
    PROVE  /\ Tour(layout, order).order = order
           /\ Tour(layout, order).time \in Nat /\ Tour(layout, order).distance \in Nat
<1>1. Around(order) \in Seq(S \cup {0})
  BY AroundIs
<1>2. /\ Km(layout, S) \in [(S \cup {0}) \X (S \cup {0}) -> Nat]
      /\ Minutes(layout, S) \in [(S \cup {0}) \X (S \cup {0}) -> Nat]
  BY LegsAreMetric DEF Metric
<1>3. Walk(Km(layout, S), Around(order)) \in Nat /\ Walk(Minutes(layout, S), Around(order)) \in Nat
  BY <1>1, <1>2, WalkType
<1> QED
  BY <1>3, TourIs

-----------------------------------------------------------------------------
(* The orders of some stops *)

IsOrder(s, S) ==
    /\ s \in Seq(S) /\ Len(s) = Cardinality(S)
    /\ \A i, j \in 1..Len(s) : i # j => s[i] # s[j]

\* SetToSeqs gives the orders of the stops.
LEMMA OrdersAre ==
    ASSUME NEW S, IsFiniteSet(S)
    PROVE  /\ \A s : s \in SetToSeqs(S) <=> IsOrder(s, S)
           /\ \A s : IsOrder(s, S) => \A x \in S : \E i \in 1..Len(s) : s[i] = x
<1>. DEFINE n == Cardinality(S)
<1>1. n \in Nat
  BY FS_CardinalityType
<1>2. ASSUME NEW s PROVE s \in SetToSeqs(S) <=> IsOrder(s, S)
  <2>1. s \in SetToSeqs(S) <=> s \in [1..n -> S] /\ \A i, j \in 1..n : i # j => s[i] # s[j]
    BY DEF SetToSeqs
  <2> HIDE DEF n
  <2>2. ASSUME s \in [1..n -> S] PROVE s \in Seq(S) /\ Len(s) = n
    BY <2>2, <1>1
  <2>3. ASSUME s \in Seq(S), Len(s) = n PROVE s \in [1..n -> S]
    BY <2>3, LenProperties
  <2> QED
    BY <2>1, <2>2, <2>3 DEF IsOrder, n
<1>3. ASSUME NEW s, IsOrder(s, S), NEW x \in S PROVE \E i \in 1..Len(s) : s[i] = x
  <2>1. s \in [1..n -> S] /\ Len(s) = n /\ \A i, j \in 1..n : i # j => s[i] # s[j]
    BY <1>3, LenProperties DEF IsOrder
  <2>2. s \in Injection(1..n, S)
    BY <2>1 DEF Injection, IsInjective
  <2>3. Cardinality(1..n) = n
    BY <1>1, FS_Interval
  <2>4. s \in Surjection(1..n, S)
    BY <2>2, <2>3, FS_Injection
  <2> QED
    BY <2>1, <2>4 DEF Surjection
<1> QED
  BY <1>2, <1>3

\* Stops have an order, and finitely many.
LEMMA OrdersExist ==
    ASSUME NEW S, IsFiniteSet(S), S \subseteq Int PROVE \E s : IsOrder(s, S)
<1>. DEFINE key == [x \in S |-> <<x>>]
            n == Cardinality(S)
<1>1. \A x \in S : key[x] \in Seq(Int) /\ Len(key[x]) = 1 /\ key[x][1] = x
  OBVIOUS
<1>2. DOMAIN key = S
  OBVIOUS
<1> HIDE DEF key
<1>3. Ranked(key, 1)
  BY <1>1, <1>2, RankedAlike, 1 \in Nat /\ 1 \in 1..1
<1>4. Ranks({key[x] : x \in DOMAIN key}, 1)
  BY <1>3 DEF Ranked
<1>5. PICK q : Order(key, S, q)
  BY <1>1, <1>2, <1>4, OrderExists
<1>6. n \in Nat
  BY FS_CardinalityType
<1>7. q \in [1..n -> S] /\ \A i, j \in 1..n : i < j => Before(key[q[i]], key[q[j]])
  BY <1>5 DEF Order
<1>8. q \in Seq(S) /\ Len(q) = n
  BY <1>6, <1>7
<1>9. ASSUME NEW i \in 1..n, NEW j \in 1..n, i < j PROVE q[i] # q[j]
  <2>1. Before(key[q[i]], key[q[j]]) /\ q[i] \in S
    BY <1>7, <1>9
  <2> QED
    BY <2>1, <1>1, BeforeIrreflexive
<1>10. ASSUME NEW i \in 1..n, NEW j \in 1..n, i # j PROVE q[i] # q[j]
  <2>1. i < j \/ j < i
    BY <1>6, <1>10
  <2> QED
    BY <2>1, <1>9
<1> QED
  BY <1>8, <1>10 DEF IsOrder

\* A sequence with x in the middle of it.
LEMMA MiddleIs ==
    ASSUME NEW S, NEW x \in S, NEW a \in Seq(S), NEW b \in Seq(S)
    PROVE  LET u == a \o (<<x>> \o b) IN
           /\ u \in Seq(S) /\ Len(u) = Len(a) + 1 + Len(b)
           /\ \A i \in 1..Len(a) : u[i] = a[i]
           /\ u[Len(a) + 1] = x
           /\ \A i \in 1..Len(b) : u[Len(a) + 1 + i] = b[i]
<1>. DEFINE one == <<x>>
            v == one \o b
            u == a \o v
            m == Len(a)
            n == Len(b)
<1>1. one \in Seq(S) /\ Len(one) = 1 /\ one[1] = x
  OBVIOUS
<1>2. m \in Nat /\ n \in Nat
  BY LenProperties
<1> HIDE DEF one
<1>3. /\ v \in Seq(S) /\ Len(v) = 1 + n
      /\ \A i \in 1..(1 + n) : v[i] = IF i <= 1 THEN one[i] ELSE b[i - 1]
  <2>1. /\ v \in Seq(S) /\ Len(v) = Len(one) + Len(b)
        /\ \A i \in 1..(Len(one) + Len(b)) : v[i] = IF i <= Len(one) THEN one[i] ELSE b[i - Len(one)]
    BY <1>1, ConcatProperties
  <2> QED
    BY <1>1, <2>1
<1>4. v[1] = x
  BY <1>1, <1>2, <1>3
<1>5. \A i \in 1..n : v[1 + i] = b[i]
  <2> SUFFICES ASSUME NEW i \in 1..n PROVE v[1 + i] = b[i]
    OBVIOUS
  <2>1. 1 + i \in 1..(1 + n) /\ ~ (1 + i <= 1) /\ (1 + i) - 1 = i
    BY <1>2
  <2> HIDE DEF v
  <2> QED
    BY <2>1, <1>3
<1> HIDE DEF v, m, n
<1>6. /\ u \in Seq(S) /\ Len(u) = m + (1 + n)
      /\ \A i \in 1..(m + (1 + n)) : u[i] = IF i <= m THEN a[i] ELSE v[i - m]
  <2>1. /\ u \in Seq(S) /\ Len(u) = Len(a) + Len(v)
        /\ \A i \in 1..(Len(a) + Len(v)) : u[i] = IF i <= Len(a) THEN a[i] ELSE v[i - Len(a)]
    BY <1>3, ConcatProperties
  <2> QED
    BY <1>3, <2>1 DEF m
<1> HIDE DEF u
<1>7. \A i \in 1..m : u[i] = a[i]
  BY <1>2, <1>6
<1>8. u[m + 1] = x
  <2>1. m + 1 \in 1..(m + (1 + n)) /\ ~ (m + 1 <= m) /\ (m + 1) - m = 1
    BY <1>2
  <2> QED
    BY <2>1, <1>4, <1>6
<1>9. \A i \in 1..n : u[m + 1 + i] = b[i]
  <2> SUFFICES ASSUME NEW i \in 1..n PROVE u[m + 1 + i] = b[i]
    OBVIOUS
  <2>1. m + 1 + i \in 1..(m + (1 + n)) /\ ~ (m + 1 + i <= m) /\ (m + 1 + i) - m = 1 + i
    BY <1>2
  <2>2. u[m + 1 + i] = v[1 + i]
    BY <2>1, <1>6
  <2> QED
    BY <2>2, <1>5
<1>10. m + (1 + n) = m + 1 + n
  BY <1>2
<1> QED
  BY <1>6, <1>7, <1>8, <1>9, <1>10 DEF u, v, one, m, n

\* Two sequences, one after the other.
LEMMA BothAre ==
    ASSUME NEW S, NEW a \in Seq(S), NEW b \in Seq(S)
    PROVE  /\ a \o b \in Seq(S) /\ Len(a \o b) = Len(a) + Len(b)
           /\ \A i \in 1..Len(a) : (a \o b)[i] = a[i]
           /\ \A i \in 1..Len(b) : (a \o b)[Len(a) + i] = b[i]
<1>. DEFINE u == a \o b
            m == Len(a)
            n == Len(b)
<1>1. /\ u \in Seq(S) /\ Len(u) = m + n
      /\ \A i \in 1..(m + n) : u[i] = IF i <= m THEN a[i] ELSE b[i - m]
  BY ConcatProperties
<1>2. m \in Nat /\ n \in Nat
  BY LenProperties
<1> HIDE DEF u, m, n
<1>3. \A i \in 1..n : u[m + i] = b[i]
  <2> SUFFICES ASSUME NEW i \in 1..n PROVE u[m + i] = b[i]
    OBVIOUS
  <2>1. m + i \in 1..(m + n) /\ ~ (m + i <= m) /\ (m + i) - m = i
    BY <1>2
  <2> QED
    BY <2>1, <1>1
<1>4. \A i \in 1..m : u[i] = a[i]
  BY <1>1, <1>2
<1> QED
  BY <1>1, <1>3, <1>4 DEF u, m, n

\* An order with one stop more.
LEMMA InsertStop ==
    ASSUME NEW S, IsFiniteSet(S), NEW x \in S, NEW a \in Seq(S \ {x}), NEW b \in Seq(S \ {x}),
           IsOrder(a \o b, S \ {x})
    PROVE  IsOrder(a \o (<<x>> \o b), S)
<1>. DEFINE R == S \ {x}
            u == a \o (<<x>> \o b)
            v == a \o b
            m == Len(a)
            n == Len(b)
<1>1. a \in Seq(S) /\ b \in Seq(S)
  BY SeqMonotonic
<1>2. m \in Nat /\ n \in Nat /\ \A i \in 1..n : b[i] \in R
  BY LenProperties, ElementOfSeq
<1>3. Cardinality(R) = Cardinality(S) - 1 /\ Cardinality(S) \in Nat
  BY FS_RemoveElement, FS_CardinalityType
<1>4. /\ u \in Seq(S) /\ Len(u) = m + 1 + n
      /\ \A i \in 1..m : u[i] = a[i]
      /\ u[m + 1] = x
      /\ \A i \in 1..n : u[m + 1 + i] = b[i]
  BY <1>1, MiddleIs
<1>5. /\ v \in Seq(R) /\ Len(v) = m + n
      /\ \A i \in 1..m : v[i] = a[i]
      /\ \A i \in 1..n : v[m + i] = b[i]
  BY BothAre
<1>6. Len(v) = Cardinality(R) /\ \A i, j \in 1..Len(v) : i # j => v[i] # v[j]
  BY DEF IsOrder
<1> HIDE DEF u, v, m, n, R
<1>7. Len(u) = Cardinality(S)
  BY <1>2, <1>3, <1>4, <1>5, <1>6
<1>. DEFINE from(i) == IF i <= m THEN i ELSE i - 1
<1>8. ASSUME NEW i \in 1..Len(u), i # m + 1
      PROVE  from(i) \in 1..Len(v) /\ u[i] = v[from(i)] /\ u[i] \in R
  <2>1. CASE i <= m
    <3>1. i \in 1..m /\ from(i) = i /\ i \in 1..Len(v)
      BY <2>1, <1>2, <1>5
    <3>2. v[i] \in R
      BY <3>1, <1>5, ElementOfSeq
    <3> QED
      BY <3>1, <3>2, <1>4, <1>5
  <2>2. CASE ~ (i <= m)
    <3>. DEFINE k == i - (m + 1)
    <3>1. k \in 1..n /\ m + 1 + k = i /\ m + k = i - 1 /\ from(i) = i - 1 /\ i - 1 \in 1..Len(v)
      BY <2>2, <1>8, <1>2, <1>4, <1>5
    <3> HIDE DEF k, from
    <3>2. u[i] = b[k] /\ v[i - 1] = b[k] /\ b[k] \in R
      BY <3>1, <1>2, <1>4, <1>5
    <3> QED
      BY <3>1, <3>2
  <2> QED
    BY <2>1, <2>2
<1>9. \A i, j \in 1..Len(u) : i # j /\ i # m + 1 /\ j # m + 1 => from(i) # from(j)
  BY <1>2, <1>4
<1> HIDE DEF from
<1>10. ASSUME NEW i \in 1..Len(u), NEW j \in 1..Len(u), i # j PROVE u[i] # u[j]
  <2>1. CASE i = m + 1
    <3>1. u[j] \in R /\ u[i] = x
      BY <2>1, <1>10, <1>4, <1>8
    <3> QED
      BY <3>1 DEF R
  <2>2. CASE j = m + 1
    <3>1. u[i] \in R /\ u[j] = x
      BY <2>2, <1>10, <1>4, <1>8
    <3> QED
      BY <3>1 DEF R
  <2>3. CASE i # m + 1 /\ j # m + 1
    <3>1. from(i) # from(j)
      BY <2>3, <1>9, <1>10
    <3>2. from(i) \in 1..Len(v) /\ from(j) \in 1..Len(v) /\ u[i] = v[from(i)] /\ u[j] = v[from(j)]
      BY <2>3, <1>8
    <3> QED
      BY <3>1, <3>2, <1>6
  <2> QED
    BY <2>1, <2>2, <2>3
<1> QED
  BY <1>4, <1>7, <1>10 DEF IsOrder, u

\* An order with one stop less.
LEMMA RemoveStop ==
    ASSUME NEW S, IsFiniteSet(S), NEW s, IsOrder(s, S), NEW x \in S
    PROVE  \E a, b \in Seq(S \ {x}) : s = a \o (<<x>> \o b) /\ IsOrder(a \o b, S \ {x})
<1>. DEFINE R == S \ {x}
            n == Len(s)
<1>1. s \in Seq(S) /\ Len(s) = Cardinality(S) /\ \A i, j \in 1..n : i # j => s[i] # s[j]
  BY DEF IsOrder
<1>2. n \in Nat /\ \A i \in 1..n : s[i] \in S
  BY <1>1, LenProperties, ElementOfSeq
<1>3. PICK k \in 1..n : s[k] = x
  BY OrdersAre
<1>. DEFINE a == SubSeq(s, 1, k - 1)
            b == SubSeq(s, k + 1, n)
            u == a \o (<<x>> \o b)
            v == a \o b
<1>4. \A i \in 1..n : i # k => s[i] \in R
  BY <1>1, <1>2, <1>3
<1> HIDE DEF R, n
<1>5. a \in Seq(R) /\ Len(a) = k - 1 /\ \A i \in 1..(k - 1) : a[i] = s[i]
  <2>1. 1 \in Int /\ k - 1 \in Int /\ \A i \in 1..(k - 1) : s[i] \in R
    BY <1>2, <1>4
  <2>2. /\ a \in Seq(R) /\ Len(a) = IF 1 <= k - 1 THEN (k - 1) - 1 + 1 ELSE 0
        /\ \A i \in 1..((k - 1) - 1 + 1) : a[i] = s[1 + i - 1]
    BY <2>1, SubSeqProperties
  <2>3. (IF 1 <= k - 1 THEN (k - 1) - 1 + 1 ELSE 0) = k - 1 /\ (k - 1) - 1 + 1 = k - 1
        /\ \A i \in 1..(k - 1) : 1 + i - 1 = i
    BY <1>2
  <2> HIDE DEF a
  <2> QED
    BY <2>2, <2>3
<1>6. b \in Seq(R) /\ Len(b) = n - k /\ \A i \in 1..(n - k) : b[i] = s[k + i]
  <2>1. k + 1 \in Int /\ n \in Int /\ \A i \in (k + 1)..n : s[i] \in R
    BY <1>2, <1>4
  <2>2. /\ b \in Seq(R) /\ Len(b) = IF k + 1 <= n THEN n - (k + 1) + 1 ELSE 0
        /\ \A i \in 1..(n - (k + 1) + 1) : b[i] = s[k + 1 + i - 1]
    BY <2>1, SubSeqProperties
  <2>3. (IF k + 1 <= n THEN n - (k + 1) + 1 ELSE 0) = n - k /\ n - (k + 1) + 1 = n - k
        /\ \A i \in 1..(n - k) : k + 1 + i - 1 = k + i
    BY <1>2
  <2> HIDE DEF b
  <2> QED
    BY <2>2, <2>3
<1> HIDE DEF a, b
<1>7. a \in Seq(S) /\ b \in Seq(S)
  BY <1>5, <1>6, SeqMonotonic DEF R
<1>8. /\ u \in Seq(S) /\ Len(u) = Len(a) + 1 + Len(b)
      /\ \A i \in 1..Len(a) : u[i] = a[i]
      /\ u[Len(a) + 1] = x
      /\ \A i \in 1..Len(b) : u[Len(a) + 1 + i] = b[i]
  BY <1>7, MiddleIs
<1>9. /\ v \in Seq(R) /\ Len(v) = Len(a) + Len(b)
      /\ \A i \in 1..Len(a) : v[i] = a[i]
      /\ \A i \in 1..Len(b) : v[Len(a) + i] = b[i]
  <2>1. a \in Seq(R) /\ b \in Seq(R)
    BY <1>5, <1>6
  <2> QED
    BY <2>1, BothAre
<1> HIDE DEF u, v
<1>10. Len(u) = n /\ Len(v) = n - 1
  BY <1>2, <1>5, <1>6, <1>8, <1>9
<1>11. ASSUME NEW i \in 1..n PROVE u[i] = s[i]
  <2>1. CASE i < k
    <3>1. i \in 1..(k - 1)
      BY <2>1
    <3> QED
      BY <3>1, <1>5, <1>8
  <2>2. CASE i = k
    <3>1. (k - 1) + 1 = k
      OBVIOUS
    <3> QED
      BY <2>2, <3>1, <1>3, <1>5, <1>8
  <2>3. CASE i > k
    <3>. DEFINE j == i - k
    <3>1. j \in 1..(n - k) /\ k + j = i /\ (k - 1) + 1 + j = i
      BY <2>3, <1>2
    <3> HIDE DEF j
    <3>2. j \in 1..Len(b) /\ Len(a) + 1 + j = i
      BY <3>1, <1>5, <1>6
    <3>3. u[i] = b[j]
      BY <3>2, <1>8
    <3>4. b[j] = s[i]
      BY <3>1, <1>6
    <3> QED
      BY <3>3, <3>4
  <2> QED
    BY <2>1, <2>2, <2>3, <1>2
<1>12. u = s
  BY <1>1, <1>8, <1>10, <1>11, SeqEqual DEF n
<1>. DEFINE to(i) == IF i < k THEN i ELSE i + 1
<1>13. ASSUME NEW i \in 1..(n - 1) PROVE to(i) \in 1..n /\ v[i] = s[to(i)]
  <2>1. CASE i < k
    <3>1. i \in 1..(k - 1) /\ to(i) = i /\ i \in 1..n
      BY <2>1, <1>2
    <3> QED
      BY <3>1, <1>5, <1>9
  <2>2. CASE ~ (i < k)
    <3>. DEFINE j == i - (k - 1)
    <3>1. j \in 1..(n - k) /\ (k - 1) + j = i /\ k + j = i + 1 /\ to(i) = i + 1 /\ i + 1 \in 1..n
      BY <2>2, <1>2
    <3>2. to(i) = k + j
      BY <3>1
    <3> HIDE DEF j, to
    <3>3. v[Len(a) + j] = b[j]
      BY <3>1, <1>6, <1>9
    <3>4. s[k + j] = b[j]
      BY <3>1, <1>6
    <3> QED
      BY <3>1, <3>2, <3>3, <3>4, <1>5
  <2> QED
    BY <2>1, <2>2
<1>14. \A i, j \in 1..(n - 1) : i # j => to(i) # to(j)
  BY <1>2
<1> HIDE DEF to
<1>15. \A i, j \in 1..(n - 1) : i # j => v[i] # v[j]
  BY <1>1, <1>13, <1>14 DEF n
<1>16. Cardinality(R) = Cardinality(S) - 1
  BY FS_RemoveElement DEF R
<1>17. IsOrder(v, R)
  BY <1>1, <1>9, <1>10, <1>15, <1>16 DEF IsOrder, n
<1> QED
  BY <1>5, <1>6, <1>12, <1>17 DEF u, v, R

\* Where a tour is after the stops of a.
After(a) == IF a = <<>> THEN 0 ELSE a[Len(a)]

\* Without a stop a tour is not longer; it is as long when the stop is where the tour
\* already was.
LEMMA Shortcut ==
    ASSUME NEW layout, NEW S, Placed(layout, S), NEW x \in S, NEW a \in Seq(S), NEW b \in Seq(S)
    PROVE  LET less == Tour(layout, a \o b)
               more == Tour(layout, a \o (<<x>> \o b))
           IN  /\ less.time <= more.time /\ less.distance <= more.distance
               /\ Place(layout, After(a)) = Place(layout, x) =>
                      less.time = more.time /\ less.distance = more.distance
<1>. DEFINE N == S \cup {0}
            z == <<0>>
            one == <<x>>
            s == z \o a
            t == b \o z
            p == After(a)
            q == t[1]
            d == Km(layout, S)
            m == Minutes(layout, S)
<1>1. /\ a \in Seq(N) /\ b \in Seq(N) /\ z \in Seq(N) /\ one \in Seq(N) /\ one \in Seq(S)
      /\ Len(z) = 1 /\ z # <<>>
  BY SeqMonotonic
<1>2. a \o b \in Seq(S) /\ one \o b \in Seq(S) /\ a \o (one \o b) \in Seq(S)
  BY <1>1, ConcatProperties
<1> HIDE DEF z, one, N
<1>3. s \in Seq(N) /\ Len(s) = 1 + Len(a) /\ t \in Seq(N) /\ Len(t) = Len(b) + 1
  <2>1. s \in Seq(N) /\ Len(s) = Len(z) + Len(a)
    BY <1>1, ConcatProperties
  <2>2. t \in Seq(N) /\ Len(t) = Len(b) + Len(z)
    BY <1>1, ConcatProperties
  <2> QED
    BY <2>1, <2>2, <1>1
<1>4. s # <<>> /\ t # <<>> /\ Len(a) \in Nat /\ Len(b) \in Nat
  <2>1. Len(a) \in Nat /\ Len(b) \in Nat /\ Len(<<>>) = 0
    BY LenProperties, EmptySeq
  <2> HIDE DEF s, t
  <2> QED
    BY <2>1, <1>3
<1>5. s[Len(s)] = p
  <2>1. CASE a = <<>>
    <3>1. Len(a) = 0 /\ s = z
      BY <2>1, <1>1, EmptySeq, ConcatEmptySeq
    <3> QED
      BY <3>1, <2>1, <1>1 DEF After, z
  <2>2. CASE a # <<>>
    <3>1. Len(a) \in Nat \ {0}
      BY <2>2, EmptySeq
    <3>2. Len(a) \in 1..Len(a) /\ Len(z) + Len(a) = Len(s)
      BY <3>1, <1>1, <1>3
    <3>3. s[Len(z) + Len(a)] = a[Len(a)]
      <4>1. z \in Seq(N) /\ a \in Seq(N)
        BY <1>1
      <4>2. \A i \in 1..Len(a) : (z \o a)[Len(z) + i] = a[i]
        <5> HIDE DEF z, s, t, p, q, d, m
        <5> QED
          BY <4>1, BothAre, SMTT(30)
      <4> QED
        BY <3>2, <4>2
    <3> QED
      BY <3>2, <3>3, <2>2 DEF After
  <2> QED
    BY <2>1, <2>2
<1>6. Around(a \o b) = s \o t
  <2>0. z \o (a \o b) = (z \o a) \o b
    <3>1. z \in Seq(N) /\ a \in Seq(N) /\ b \in Seq(N)
      BY <1>1
    <3>2. (z \o a) \o b = z \o (a \o b)
      BY <3>1, ConcatAssociative, SMTT(30)
    <3> QED
      BY <3>2
  <2>1. (z \o (a \o b)) \o z = ((z \o a) \o b) \o z
    BY <2>0
  <2>2. ((z \o a) \o b) \o z = (z \o a) \o (b \o z)
    <3>1. s \in Seq(N) /\ b \in Seq(N) /\ z \in Seq(N)
      BY <1>1, <1>3
    <3>2. (s \o b) \o z = s \o (b \o z)
      <4> HIDE DEF s, t, p, q, d, m
      <4> QED
        BY <3>1, ConcatAssociative, SMTT(30)
    <3> QED
      BY <3>2
  <2> QED
    BY <2>1, <2>2 DEF Around, z
<1>7. Around(a \o (one \o b)) = s \o (one \o t)
  <2>1. one \o b \in Seq(N)
    BY <1>1, ConcatProperties
  <2>0. z \o (a \o (one \o b)) = (z \o a) \o (one \o b)
    <3>1. z \in Seq(N) /\ a \in Seq(N)
      BY <1>1
    <3>. DEFINE c == one \o b
    <3>2. c \in Seq(N)
      BY <2>1
    <3> HIDE DEF c
    <3>3. (z \o a) \o c = z \o (a \o c)
      BY <3>1, <3>2, ConcatAssociative, SMTT(30)
    <3> QED
      BY <3>3 DEF c
  <2>2. (z \o (a \o (one \o b))) \o z = ((z \o a) \o (one \o b)) \o z
    BY <2>0
  <2>3. (s \o (one \o b)) \o z = s \o ((one \o b) \o z)
    <3>1. s \in Seq(N) /\ z \in Seq(N)
      BY <1>1, <1>3
    <3>. DEFINE c == one \o b
    <3>2. c \in Seq(N)
      BY <2>1
    <3> HIDE DEF c, s, t, p, q, d, m
    <3>3. (s \o c) \o z = s \o (c \o z)
      BY <3>1, <3>2, ConcatAssociative, SMTT(30)
    <3> QED
      BY <3>3 DEF c
  <2>4. (one \o b) \o z = one \o (b \o z)
    <3>1. one \in Seq(N) /\ b \in Seq(N) /\ z \in Seq(N)
      BY <1>1
    <3> HIDE DEF one, z, s, t, p, q, d, m
    <3> QED
      BY <3>1, ConcatAssociative, SMTT(30)
  <2> QED
    BY <2>2, <2>3, <2>4 DEF Around, z
<1>8. p \in N /\ q \in N /\ x \in N
  <2>1. Len(s) \in 1..Len(s) /\ 1 \in 1..Len(t)
    BY <1>3, <1>4
  <2>2. s[Len(s)] \in N /\ t[1] \in N
    BY <2>1, <1>3, ElementOfSeq
  <2> QED
    BY <2>2, <1>5 DEF N
<1>9. Metric(d, N) /\ Metric(m, N)
  BY LegsAreMetric DEF N
<1>10. /\ Tour(layout, a \o b).time = Walk(m, s \o t)
       /\ Tour(layout, a \o b).distance = Walk(d, s \o t)
       /\ Tour(layout, a \o (one \o b)).time = Walk(m, s \o (one \o t))
       /\ Tour(layout, a \o (one \o b)).distance = Walk(d, s \o (one \o t))
  <2>1. \A order \in Seq(S) : /\ Tour(layout, order).time = Walk(m, Around(order))
                               /\ Tour(layout, order).distance = Walk(d, Around(order))
    BY TourIs
  <2> HIDE DEF m, d, s, t
  <2> QED
    BY <2>1, <1>2, <1>6, <1>7
<1>11. ASSUME NEW w, Metric(w, N)
       PROVE  /\ Walk(w, s \o t) <= Walk(w, s \o (one \o t))
              /\ w[<<p, x>>] = 0 /\ w[<<p, q>>] = w[<<x, q>>] => Walk(w, s \o t) = Walk(w, s \o (one \o t))
  <2> HIDE DEF s, t, p
  <2> QED
    BY <1>11, <1>3, <1>4, <1>5, <1>8, WalkShortcut DEF one
<1>12. ASSUME Place(layout, p) = Place(layout, x)
       PROVE  /\ d[<<p, x>>] = 0 /\ d[<<p, q>>] = d[<<x, q>>]
              /\ m[<<p, x>>] = 0 /\ m[<<p, q>>] = m[<<x, q>>]
  <2>1. Leg(layout, p, q) = Leg(layout, x, q)
    BY <1>12 DEF Leg
  <2>2. Leg(layout, p, x).distance = 0
    <3>1. p \in S \cup {0} /\ x \in S \cup {0}
      BY <1>8 DEF N
    <3> HIDE DEF p
    <3> QED
      BY <3>1, <1>12, LegIs
  <2>3. Leg(layout, p, x).time = 0
    <3>1. Leg(layout, p, x).time =
              3 * Leg(layout, p, x).distance + (IF Leg(layout, p, x).distance = 0 THEN 0 ELSE 2)
      BY <1>8, LegIs DEF N
    <3> QED
      BY <3>1, <2>2
  <2> HIDE DEF p, q
  <2> QED
    BY <2>1, <2>2, <2>3, <1>8 DEF Km, Minutes, N
<1> HIDE DEF s, t, p, q, d, m
<1> QED
  BY <1>9, <1>10, <1>11, <1>12 DEF one, p

\* A walk whose legs all take three minutes a kilometre and two.
LEMMA WalkAffine ==
    ASSUME NEW N, NEW w \in [N \X N -> Nat], NEW v \in [N \X N -> Nat], NEW s \in Seq(N), s # <<>>,
           \A i \in 1..(Len(s) - 1) : w[<<s[i], s[i + 1]>>] = 3 * v[<<s[i], s[i + 1]>>] + 2
    PROVE  Walk(w, s) = 3 * Walk(v, s) + 2 * (Len(s) - 1)
<1>. DEFINE n == Len(s) - 1
            f == Legs(w, s)
            g == Legs(v, s)
            T == {k \in Nat : k <= n => SumFunction(Upto(f, k)) = 3 * SumFunction(Upto(g, k)) + 2 * k}
<1>1. n \in Nat
  BY EmptySeq
<1>2. \A i \in 1..n : f[i] = 3 * g[i] + 2
  BY DEF Legs
<1>3. f = Upto(f, n) /\ g = Upto(g, n)
  BY DEF Legs, Upto
<1>4. \A i \in 1..n : f[i] \in Nat /\ g[i] \in Nat
  BY LegsType
<1>5. \A i \in 1..n : f[i] \in Int /\ g[i] \in Int
  BY <1>4
<1> HIDE DEF f, g, n
<1>6. \A k \in 0..n : SumFunction(Upto(g, k)) \in Nat
  <2> SUFFICES ASSUME NEW k \in 0..n PROVE SumFunction(Upto(g, k)) \in Nat
    OBVIOUS
  <2>1. DOMAIN Upto(g, k) = 1..k /\ IsFiniteSet(1..k)
    BY FiniteInterval DEF Upto
  <2>2. \A i \in 1..k : Upto(g, k)[i] \in Nat
    BY <1>4, <1>1 DEF Upto
  <2> QED
    BY <2>1, <2>2, SumNatural
<1>7. 0 \in T
  <2>1. DOMAIN Upto(f, 0) = {} /\ DOMAIN Upto(g, 0) = {}
    BY DEF Upto
  <2>2. SumFunction(Upto(f, 0)) = 0 /\ SumFunction(Upto(g, 0)) = 0
    BY <2>1, SumEmpty
  <2> QED
    BY <2>2
<1>8. ASSUME NEW k \in T PROVE k + 1 \in T
  <2> SUFFICES ASSUME k + 1 <= n
               PROVE  SumFunction(Upto(f, k + 1)) = 3 * SumFunction(Upto(g, k + 1)) + 2 * (k + 1)
    OBVIOUS
  <2>1. k \in Nat /\ k <= n /\ SumFunction(Upto(f, k)) = 3 * SumFunction(Upto(g, k)) + 2 * k
    BY <1>1
  <2>2. SumFunction(Upto(f, k + 1)) = SumFunction(Upto(f, k)) + f[k + 1]
    BY <1>1, <1>5, <2>1, SumUpto
  <2>3. SumFunction(Upto(g, k + 1)) = SumFunction(Upto(g, k)) + g[k + 1]
    BY <1>1, <1>5, <2>1, SumUpto
  <2>4. f[k + 1] = 3 * g[k + 1] + 2 /\ g[k + 1] \in Nat /\ SumFunction(Upto(g, k)) \in Nat
    BY <1>1, <1>2, <1>4, <1>6, <2>1
  <2> QED
    BY <2>1, <2>2, <2>3, <2>4
<1>9. n \in T
  BY <1>1, <1>7, <1>8, Induction
<1>10. SumFunction(Upto(f, n)) = 3 * SumFunction(Upto(g, n)) + 2 * n
  BY <1>1, <1>9
<1> QED
  BY <1>3, <1>10 DEF f, g, n, Walk

\* Where all stops are apart, and from the origin, the time follows the distance.
LEMMA ApartTime ==
    ASSUME NEW layout, NEW S, Placed(layout, S), S # {}, NEW t, IsOrder(t, S),
           \A x \in S, y \in S \cup {0} : x # y => Place(layout, x) # Place(layout, y)
    PROVE  Tour(layout, t).time = 3 * Tour(layout, t).distance + 2 * (Cardinality(S) + 1)
<1>. DEFINE N == S \cup {0}
            s == Around(t)
            n == Cardinality(S)
            d == Km(layout, S)
            m == Minutes(layout, S)
<1>1. t \in Seq(S) /\ Len(t) = n /\ (\A i, j \in 1..n : i # j => t[i] # t[j]) /\ n \in Nat \ {0}
  BY FS_CardinalityType, FS_EmptySet DEF IsOrder, Placed
<1>2. /\ s \in Seq(N) /\ Len(s) = n + 2
      /\ \A i \in 1..n : s[i + 1] = t[i]
      /\ s[1] = 0 /\ s[n + 2] = 0
  BY <1>1, AroundIs
<1>3. \A i \in 1..n : t[i] \in S /\ t[i] # 0
  BY <1>1, ElementOfSeq DEF Placed
<1> HIDE DEF s, n
<1>4. ASSUME NEW i \in 1..(n + 1)
      PROVE  s[i] \in N /\ s[i + 1] \in N /\ Place(layout, s[i]) # Place(layout, s[i + 1])
  <2>1. CASE i = 1
    <3>1. 1 \in 1..n /\ s[i] = 0 /\ s[1 + 1] = t[1]
      BY <2>1, <1>1, <1>2
    <3> QED
      BY <2>1, <3>1, <1>3
  <2>2. CASE i # 1
    <3>. DEFINE k == i - 1
    <3>1. k \in 1..n /\ k + 1 = i
      BY <2>2, <1>1
    <3>2. s[i] = t[k] /\ t[k] \in S /\ t[k] # 0
      BY <3>1, <1>2, <1>3
    <3>3. CASE i = n + 1
      <4>1. i + 1 = n + 2
        BY <3>3, <1>1
      <4>2. s[i + 1] = 0
        BY <4>1, <1>2
      <4> QED
        BY <4>2, <3>2
    <3>4. CASE i # n + 1
      <4>1. i \in 1..n /\ k # i
        BY <3>4, <3>1, <1>1
      <4>2. s[i + 1] = t[i] /\ t[i] \in S /\ t[k] # t[i]
        BY <4>1, <3>1, <1>1, <1>2, <1>3
      <4> HIDE DEF k
      <4> QED
        BY <4>2, <3>2
    <3> QED
      BY <3>3, <3>4
  <2> QED
    BY <2>1, <2>2
<1>5. ASSUME NEW i \in 1..(n + 1)
      PROVE  m[<<s[i], s[i + 1]>>] = 3 * d[<<s[i], s[i + 1]>>] + 2
  <2>. DEFINE p == s[i]
              q == s[i + 1]
  <2>1. p \in N /\ q \in N /\ Place(layout, p) # Place(layout, q)
    BY <1>4, <1>5
  <2> HIDE DEF p, q
  <2>2. /\ Leg(layout, p, q).distance \in Nat /\ Leg(layout, p, q).distance # 0
        /\ Leg(layout, p, q).time =
               3 * Leg(layout, p, q).distance + (IF Leg(layout, p, q).distance = 0 THEN 0 ELSE 2)
    BY <2>1, LegIs
  <2>3. m[<<p, q>>] = Leg(layout, p, q).time /\ d[<<p, q>>] = Leg(layout, p, q).distance
    BY <2>1 DEF Km, Minutes
  <2>4. m[<<p, q>>] = 3 * d[<<p, q>>] + 2
    BY <2>2, <2>3
  <2> QED
    BY <2>4 DEF p, q
<1>6. m \in [N \X N -> Nat] /\ d \in [N \X N -> Nat]
  BY LegsAreMetric DEF Metric
<1>7. Len(s) - 1 = n + 1 /\ s # <<>>
  BY <1>1, <1>2, EmptySeq
<1> HIDE DEF m, d, N
<1>8. Walk(m, s) = 3 * Walk(d, s) + 2 * (Len(s) - 1)
  <2>1. s \in Seq(N) /\ s # <<>>
    BY <1>2, <1>7
  <2>2. \A i \in 1..(Len(s) - 1) : m[<<s[i], s[i + 1]>>] = 3 * d[<<s[i], s[i + 1]>>] + 2
    BY <1>5, <1>7
  <2> QED
    BY <2>1, <2>2, <1>6, WalkAffine
<1>9. Tour(layout, t).time = Walk(m, s) /\ Tour(layout, t).distance = Walk(d, s)
  BY <1>1, TourIs DEF m, d, s
<1> QED
  BY <1>7, <1>8, <1>9 DEF n

\* A sequence before and after one of its members.
LEMMA SplitAt ==
    ASSUME NEW S, NEW s \in Seq(S), NEW k \in 0..Len(s)
    PROVE  \E a, b \in Seq(S) : a \o b = s /\ Len(a) = k /\ (k > 0 => a[k] = s[k])
<1>. DEFINE n == Len(s)
            a == SubSeq(s, 1, k)
            b == SubSeq(s, k + 1, n)
<1>1. n \in Nat /\ \A i \in 1..n : s[i] \in S
  BY LenProperties, ElementOfSeq
<1>2. a \o b = s
  <2>1. 1 \in 1..(n + 1) /\ k \in (1 - 1)..n /\ n \in k..n
    BY <1>1
  <2>2. a \o b = SubSeq(s, 1, n)
    BY <2>1, ConcatAdjacentSubSeq
  <2> QED
    BY <2>2, SubSeqFull
<1> HIDE DEF n
<1>3. a \in Seq(S) /\ Len(a) = k /\ \A i \in 1..k : a[i] = s[i]
  <2>1. 1 \in Int /\ k \in Int /\ \A i \in 1..k : s[i] \in S
    BY <1>1 DEF n
  <2>2. /\ a \in Seq(S) /\ Len(a) = IF 1 <= k THEN k - 1 + 1 ELSE 0
        /\ \A i \in 1..(k - 1 + 1) : a[i] = s[1 + i - 1]
    BY <2>1, SubSeqProperties
  <2>3. (IF 1 <= k THEN k - 1 + 1 ELSE 0) = k /\ k - 1 + 1 = k /\ \A i \in 1..k : 1 + i - 1 = i
    OBVIOUS
  <2> HIDE DEF a
  <2> QED
    BY <2>2, <2>3
<1>4. b \in Seq(S)
  <2>1. k + 1 \in Int /\ n \in Int /\ \A i \in (k + 1)..n : s[i] \in S
    BY <1>1
  <2> QED
    BY <2>1, SubSeqProperties
<1>5. k > 0 => k \in 1..k
  OBVIOUS
<1> HIDE DEF a, b
<1> QED
  BY <1>2, <1>3, <1>4, <1>5

\* An order of the stops that is best by time and by distance.
Best(layout, S, s) ==
    /\ IsOrder(s, S)
    /\ \A t : IsOrder(t, S) => /\ Tour(layout, s).time <= Tour(layout, t).time
                               /\ Tour(layout, s).distance <= Tour(layout, t).distance

\* Fewer stops have places as well.
LEMMA PlacedSubset ==
    ASSUME NEW layout, NEW S, Placed(layout, S), NEW T, T \subseteq S PROVE Placed(layout, T)
  BY FS_Subset DEF Placed

\* A stop where another one is, or at the origin, is put next to it.
LEMMA BestWithTwin ==
    ASSUME NEW layout, NEW S, Placed(layout, S), NEW x \in S, NEW y \in (S \ {x}) \cup {0},
           Place(layout, x) = Place(layout, y), NEW r, Best(layout, S \ {x}, r)
    PROVE  \E s : Best(layout, S, s)
<1>. DEFINE R == S \ {x}
<1>0. IsFiniteSet(S) /\ IsFiniteSet(R)
  BY FS_RemoveElement DEF Placed
<1>1. IsOrder(r, R) /\ r \in Seq(R) /\ Len(r) \in Nat
  BY LenProperties DEF Best, IsOrder
<1>2. PICK k \in 0..Len(r) : IF k = 0 THEN y = 0 ELSE y = r[k]
  <2>1. CASE y = 0
    <3>1. 0 \in 0..Len(r)
      BY <1>1
    <3> QED
      BY <2>1, <3>1
  <2>2. CASE y \in R
    <3>1. PICK k \in 1..Len(r) : r[k] = y
      BY <2>2, <1>0, <1>1, OrdersAre
    <3>2. k \in 0..Len(r) /\ k # 0
      BY <1>1
    <3> QED
      BY <3>1, <3>2
  <2> QED
    BY <2>1, <2>2
<1> HIDE DEF R
<1>3. \E a, b \in Seq(R) : a \o b = r /\ Len(a) = k /\ (k > 0 => a[k] = r[k])
  <2>1. \A q \in Seq(R) : \A i \in 0..Len(q) :
            \E a, b \in Seq(R) : a \o b = q /\ Len(a) = i /\ (i > 0 => a[i] = q[i])
    BY SplitAt
  <2>2. r \in Seq(R) /\ k \in 0..Len(r)
    BY <1>1
  <2> QED
    BY <2>1, <2>2, Zenon
<1>9. PICK a, b \in Seq(R) : a \o b = r /\ Len(a) = k /\ (k > 0 => a[k] = r[k])
  BY <1>3
<1> USE DEF R
<1>4. After(a) = y
  <2>1. CASE k = 0
    <3>1. a = <<>>
      BY <2>1, <1>9, EmptySeq
    <3> QED
      BY <2>1, <3>1, <1>2 DEF After
  <2>2. CASE k # 0
    <3>1. k > 0 /\ a # <<>>
      BY <2>2, <1>9, EmptySeq
    <3> QED
      BY <2>2, <3>1, <1>2, <1>9 DEF After
  <2> QED
    BY <2>1, <2>2
<1>. DEFINE s == a \o (<<x>> \o b)
<1>5. IsOrder(s, S)
  <2>1. IsOrder(a \o b, S \ {x}) /\ a \in Seq(S \ {x}) /\ b \in Seq(S \ {x})
    BY <1>1, <1>9
  <2> QED
    BY <2>1, <1>0, InsertStop
<1>6. a \in Seq(S) /\ b \in Seq(S)
  BY <1>9, SeqMonotonic
<1>7. Tour(layout, r).time = Tour(layout, s).time /\ Tour(layout, r).distance = Tour(layout, s).distance
  <2>1. Place(layout, After(a)) = Place(layout, x)
    BY <1>4
  <2>2. /\ Tour(layout, a \o b).time = Tour(layout, a \o (<<x>> \o b)).time
        /\ Tour(layout, a \o b).distance = Tour(layout, a \o (<<x>> \o b)).distance
    BY <2>1, <1>6, Shortcut
  <2> QED
    BY <2>2, <1>9
<1>8. ASSUME NEW t, IsOrder(t, S)
      PROVE  /\ Tour(layout, s).time <= Tour(layout, t).time
             /\ Tour(layout, s).distance <= Tour(layout, t).distance
  <2>1. PICK c, e \in Seq(R) : t = c \o (<<x>> \o e) /\ IsOrder(c \o e, R)
    BY <1>0, <1>8, RemoveStop
  <2>. DEFINE u == c \o e
  <2>2. c \in Seq(S) /\ e \in Seq(S)
    BY <2>1, SeqMonotonic
  <2>3. Tour(layout, u).time <= Tour(layout, t).time /\ Tour(layout, u).distance <= Tour(layout, t).distance
    BY <2>1, <2>2, Shortcut
  <2>4. Tour(layout, r).time <= Tour(layout, u).time /\ Tour(layout, r).distance <= Tour(layout, u).distance
    BY <2>1 DEF Best
  <2>5. r \in Seq(R) /\ u \in Seq(R) /\ t \in Seq(S) /\ R \subseteq S
    BY <1>1, <1>8, <2>1 DEF IsOrder
  <2>6. r \in Seq(S) /\ u \in Seq(S)
    BY <2>5, SeqMonotonic
  <2>7. \A q \in Seq(S) : Tour(layout, q).time \in Nat /\ Tour(layout, q).distance \in Nat
    BY TourType
  <2> HIDE DEF u, s
  <2>. DEFINE T(q) == Tour(layout, q)
  <2>8. /\ T(r).time \in Nat /\ T(u).time \in Nat /\ T(t).time \in Nat
        /\ T(r).distance \in Nat /\ T(u).distance \in Nat /\ T(t).distance \in Nat
    BY <2>5, <2>6, <2>7
  <2> HIDE DEF T
  <2>9. /\ T(u).time <= T(t).time /\ T(u).distance <= T(t).distance
        /\ T(r).time <= T(u).time /\ T(r).distance <= T(u).distance
    BY <2>3, <2>4 DEF T
  <2>10. T(r).time <= T(t).time /\ T(r).distance <= T(t).distance
    BY <2>8, <2>9, AtMostTransitive, Zenon
  <2> QED
    BY <1>7, <2>10 DEF T
<1> HIDE DEF s
<1> QED
  BY <1>5, <1>8 DEF Best

\* Where there is no such stop the shortest tour is the fastest.
LEMMA BestApart ==
    ASSUME NEW layout, NEW S, Placed(layout, S), S # {},
           \A x \in S, y \in S \cup {0} : x # y => Place(layout, x) # Place(layout, y)
    PROVE  \E s : Best(layout, S, s)
<1>. DEFINE D == {Tour(layout, t).distance : t \in {t \in Seq(S) : IsOrder(t, S)}}
            n == Cardinality(S)
<1>0. n \in Nat
  BY FS_CardinalityType DEF Placed
<1>1. D \in SUBSET Nat
  BY TourType
<1>2. D # {}
  <2>1. S \subseteq Int /\ IsFiniteSet(S)
    BY DEF Placed
  <2>2. PICK t : IsOrder(t, S)
    BY <2>1, OrdersExist
  <2> QED
    BY <2>2 DEF IsOrder
<1>3. PICK m \in D : \A k \in D : m <= k
  BY <1>1, <1>2, LeastNatural
<1>4. PICK s : IsOrder(s, S) /\ Tour(layout, s).distance = m
  BY <1>3
<1>5. ASSUME NEW t, IsOrder(t, S)
      PROVE  /\ Tour(layout, s).time <= Tour(layout, t).time
             /\ Tour(layout, s).distance <= Tour(layout, t).distance
  <2>1. t \in Seq(S) /\ s \in Seq(S)
    BY <1>4, <1>5 DEF IsOrder
  <2>2. Tour(layout, s).distance <= Tour(layout, t).distance
    BY <2>1, <1>3, <1>4, <1>5
  <2>3. Tour(layout, t).time = 3 * Tour(layout, t).distance + 2 * (n + 1)
    BY <1>5, ApartTime
  <2>4. Tour(layout, s).time = 3 * Tour(layout, s).distance + 2 * (n + 1)
    BY <1>4, ApartTime
  <2>5. Tour(layout, s).distance \in Nat /\ Tour(layout, t).distance \in Nat
    BY <2>1, TourType
  <2> HIDE DEF n
  <2> QED
    BY <2>2, <2>3, <2>4, <2>5, <1>0
<1> QED
  BY <1>4, <1>5 DEF Best

\* There is an order that is best by time and by distance.
LEMMA BestExists ==
    ASSUME NEW layout, NEW S, Placed(layout, S)
    PROVE  \E s : Best(layout, S, s)
<1>. DEFINE T == {n \in Nat : \A R \in SUBSET S : Cardinality(R) = n => \E s : Best(layout, R, s)}
<1>0. \A R \in SUBSET S : Placed(layout, R) /\ IsFiniteSet(R)
  BY PlacedSubset DEF Placed
<1>1. 0 \in T
  <2> SUFFICES ASSUME NEW R \in SUBSET S, Cardinality(R) = 0 PROVE \E s : Best(layout, R, s)
    OBVIOUS
  <2>1. PICK s : IsOrder(s, R)
    BY <1>0, OrdersExist DEF Placed
  <2>2. \A t : IsOrder(t, R) => t = <<>>
    BY EmptySeq DEF IsOrder
  <2>3. s \in Seq(R) /\ s = <<>>
    BY <2>1, <2>2 DEF IsOrder
  <2>4. Tour(layout, s).time \in Nat /\ Tour(layout, s).distance \in Nat
    BY <2>3, <1>0, TourType
  <2>5. \A t : IsOrder(t, R) => /\ Tour(layout, s).time <= Tour(layout, t).time
                                /\ Tour(layout, s).distance <= Tour(layout, t).distance
    BY <2>2, <2>3, <2>4
  <2> QED
    BY <2>1, <2>5 DEF Best
<1>2. ASSUME NEW n \in T PROVE n + 1 \in T
  <2> SUFFICES ASSUME NEW R \in SUBSET S, Cardinality(R) = n + 1 PROVE \E s : Best(layout, R, s)
    OBVIOUS
  <2>1. IsFiniteSet(R) /\ Placed(layout, R) /\ R # {} /\ n \in Nat
    <3>1. IsFiniteSet(R) /\ Placed(layout, R) /\ n \in Nat
      BY <1>0
    <3>2. n + 1 # 0
      BY <3>1
    <3>3. R = {} => Cardinality(R) = 0
      BY FS_EmptySet
    <3>4. R # {}
      BY <3>2, <3>3
    <3> QED
      BY <3>1, <3>4
  <2>2. CASE \E x \in R : \E y \in (R \ {x}) \cup {0} : Place(layout, x) = Place(layout, y)
    <3>1. PICK x \in R : \E y \in (R \ {x}) \cup {0} : Place(layout, x) = Place(layout, y)
      BY <2>2
    <3>4. PICK y \in (R \ {x}) \cup {0} : Place(layout, x) = Place(layout, y)
      BY <3>1
    <3>2. Cardinality(R \ {x}) = n /\ R \ {x} \in SUBSET S
      BY <2>1, FS_RemoveElement
    <3>3. PICK r : Best(layout, R \ {x}, r)
      BY <3>2
    <3> QED
      BY <3>4, <3>3, <2>1, BestWithTwin
  <2>3. CASE ~ \E x \in R : \E y \in (R \ {x}) \cup {0} : Place(layout, x) = Place(layout, y)
    <3>1. \A x \in R, y \in R \cup {0} : x # y => Place(layout, x) # Place(layout, y)
      BY <2>3
    <3> QED
      BY <3>1, <2>1, BestApart
  <2> QED
    BY <2>2, <2>3
<1>3. T = Nat
  BY <1>1, <1>2, Induction
<1>4. Cardinality(S) \in Nat
  BY FS_CardinalityType DEF Placed
<1> QED
  BY <1>3, <1>4

-----------------------------------------------------------------------------
(* Ranks of tours and paths *)

NotAfter(q, r) == q = r \/ Before(q, r)

\* Ranks that do not come after others.
LEMMA NotAfterTransitive ==
    ASSUME NEW n \in Nat \ {0}, NEW s \in Seq(Int), NEW t \in Seq(Int), NEW u \in Seq(Int),
           Len(s) = n, Len(t) = n, Len(u) = n, NotAfter(s, t), NotAfter(t, u)
    PROVE  NotAfter(s, u)
<1>. DEFINE K == {s, t, u}
<1>1. Ranks(K, 1)
  BY DEF Ranks
<1>2. s \in K /\ t \in K /\ u \in K
  OBVIOUS
<1> HIDE DEF K
<1>3. Before(s, t) /\ Before(t, u) => Before(s, u)
  BY <1>1, <1>2, BeforeTransitive
<1> QED
  BY <1>3 DEF NotAfter

LEMMA NotAfterBoth ==
    ASSUME NEW n \in Nat \ {0}, NEW s \in Seq(Int), NEW t \in Seq(Int),
           Len(s) = n, Len(t) = n, NotAfter(s, t), ~ Before(s, t)
    PROVE  s = t
  BY DEF NotAfter

\* The rank of a tour: its time, its distance and its stops.
LEMMA RankIs ==
    ASSUME NEW tour, tour.time \in Int, tour.distance \in Int, NEW S, S \subseteq Int,
           tour.order \in Seq(S)
    PROVE  /\ TourRank(tour) \in Seq(Int) /\ Len(TourRank(tour)) = Len(tour.order) + 2
           /\ TourRank(tour)[1] = tour.time /\ TourRank(tour)[2] = tour.distance
           /\ \A i \in 1..Len(tour.order) : TourRank(tour)[2 + i] = tour.order[i]
<1>. DEFINE a == <<tour.time, tour.distance>>
            b == tour.order
            n == Len(b)
<1>1. a \in Seq(Int) /\ Len(a) = 2 /\ a[1] = tour.time /\ a[2] = tour.distance
  OBVIOUS
<1>2. b \in Seq(Int) /\ n \in Nat
  BY SeqMonotonic, LenProperties
<1> HIDE DEF a, b
<1>3. /\ a \o b \in Seq(Int) /\ Len(a \o b) = 2 + n
      /\ \A i \in 1..2 : (a \o b)[i] = a[i]
      /\ \A i \in 1..n : (a \o b)[2 + i] = b[i]
  <2>1. /\ a \o b \in Seq(Int) /\ Len(a \o b) = Len(a) + Len(b)
        /\ \A i \in 1..Len(a) : (a \o b)[i] = a[i]
        /\ \A i \in 1..Len(b) : (a \o b)[Len(a) + i] = b[i]
    <3>1. a \in Seq(Int) /\ b \in Seq(Int)
      BY <1>1, <1>2
    <3> HIDE DEF n
    <3> QED
      BY <3>1, BothAre, SMTT(30)
  <2> QED
    BY <2>1, <1>1
<1>4. 2 + n = n + 2
  BY <1>2
<1>5. TourRank(tour) = a \o b
  BY DEF TourRank, a, b
<1>6. b = tour.order /\ n = Len(tour.order)
  BY DEF b, n
<1> HIDE DEF n, a, b
<1>7. Len(a \o b) = 2 + n
  BY <1>1, <1>3, <1>4
<1> QED
  BY <1>1, <1>3, <1>4, <1>5, <1>6, <1>7, SMTT(30)

\* p is the rank of a path of rank q and n stops that goes on to stop x.
Grown(q, p, n, a, b, x) ==
    /\ n \in Nat /\ a \in Int /\ b \in Int /\ x \in Int
    /\ q \in Seq(Int) /\ Len(q) = n + 2 /\ p \in Seq(Int) /\ Len(p) = n + 3
    /\ p[1] = q[1] + a /\ p[2] = q[2] + b /\ p[n + 3] = x
    /\ \A i \in 3..(n + 2) : p[i] = q[i]

\* Paths that go on to the same stop keep their order.
LEMMA GrownTogether ==
    ASSUME NEW n, NEW a, NEW b, NEW x, NEW q, NEW p, NEW r, NEW o,
           Grown(q, p, n, a, b, x), Grown(r, o, n, a, b, x), NotAfter(q, r)
    PROVE  NotAfter(p, o)
<1>1. /\ n \in Nat /\ a \in Int /\ b \in Int /\ x \in Int
      /\ q \in Seq(Int) /\ Len(q) = n + 2 /\ p \in Seq(Int) /\ Len(p) = n + 3
      /\ r \in Seq(Int) /\ Len(r) = n + 2 /\ o \in Seq(Int) /\ Len(o) = n + 3
  BY DEF Grown
<1>2. /\ p[1] = q[1] + a /\ p[2] = q[2] + b /\ p[n + 3] = x
      /\ o[1] = r[1] + a /\ o[2] = r[2] + b /\ o[n + 3] = x
  BY DEF Grown
<1>3. \A i \in 3..(n + 2) : p[i] = q[i] /\ o[i] = r[i]
  BY DEF Grown
<1>4. DOMAIN q = 1..(n + 2) /\ DOMAIN r = 1..(n + 2) /\ DOMAIN p = 1..(n + 3) /\ DOMAIN o = 1..(n + 3)
  BY <1>1, LenProperties
<1>5. \A i \in 1..(n + 2) : q[i] \in Int /\ r[i] \in Int
  BY <1>1, ElementOfSeq
<1>6. \A i \in 1..(n + 2) : (q[i] = r[i] => p[i] = o[i]) /\ (q[i] < r[i] => p[i] < o[i])
  <2> SUFFICES ASSUME NEW i \in 1..(n + 2)
               PROVE  (q[i] = r[i] => p[i] = o[i]) /\ (q[i] < r[i] => p[i] < o[i])
    OBVIOUS
  <2>1. CASE i = 1
    <3>1. q[1] \in Int /\ r[1] \in Int
      BY <2>1, <1>5
    <3>. DEFINE g == q[1]
                h == r[1]
    <3>3. p[1] = g + a /\ o[1] = h + a /\ g \in Int /\ h \in Int /\ a \in Int
      BY <3>1, <1>1, <1>2
    <3> HIDE DEF g, h
    <3>4. (g = h => p[1] = o[1]) /\ (g < h => p[1] < o[1])
      BY <3>3
    <3>2. (q[1] = r[1] => p[1] = o[1]) /\ (q[1] < r[1] => p[1] < o[1])
      BY <3>4 DEF g, h
    <3> QED
      BY <3>2, <2>1
  <2>2. CASE i = 2
    <3>1. q[2] \in Int /\ r[2] \in Int
      BY <2>2, <1>5
    <3>. DEFINE g == q[2]
                h == r[2]
    <3>3. p[2] = g + b /\ o[2] = h + b /\ g \in Int /\ h \in Int /\ b \in Int
      BY <3>1, <1>1, <1>2
    <3> HIDE DEF g, h
    <3>4. (g = h => p[2] = o[2]) /\ (g < h => p[2] < o[2])
      BY <3>3
    <3>2. (q[2] = r[2] => p[2] = o[2]) /\ (q[2] < r[2] => p[2] < o[2])
      BY <3>4 DEF g, h
    <3> QED
      BY <3>2, <2>2
  <2>3. CASE i # 1 /\ i # 2
    <3>1. i \in 3..(n + 2)
      BY <2>3, <1>1
    <3> QED
      BY <3>1, <1>3
  <2> QED
    BY <2>1, <2>2, <2>3
<1>7. CASE q = r
  <2>1. \A i \in 1..(n + 3) : p[i] = o[i]
    <3> SUFFICES ASSUME NEW i \in 1..(n + 3) PROVE p[i] = o[i]
      OBVIOUS
    <3>1. CASE i = n + 3
      BY <3>1, <1>2
    <3>2. CASE i # n + 3
      <4>1. i \in 1..(n + 2)
        BY <3>2, <1>1
      <4> QED
        BY <4>1, <1>6, <1>7
    <3> QED
      BY <3>1, <3>2
  <2>2. p = o
    BY <2>1, <1>1, SeqEqual
  <2> QED
    BY <2>2 DEF NotAfter
<1>8. CASE Before(q, r)
  <2>1. PICK i \in 1..(n + 2) : (\A j \in 1..(i - 1) : q[j] = r[j]) /\ q[i] < r[i]
    BY <1>8, <1>4 DEF Before
  <2>2. \A j \in 1..(i - 1) : j \in 1..(n + 2)
    BY <1>1
  <2>3. (\A j \in 1..(i - 1) : p[j] = o[j]) /\ p[i] < o[i]
    BY <2>1, <2>2, <1>6
  <2>4. i \in DOMAIN p
    BY <1>1, <1>4
  <2> QED
    BY <2>3, <2>4 DEF Before, NotAfter
<1> QED
  BY <1>7, <1>8 DEF NotAfter

\* The rank p of a path that returns to the origin, and q that of its tour: the return
\* is the last of p and the rest of p is q.
LEMMA WithoutReturn ==
    ASSUME NEW n \in Nat, NEW q \in Seq(Int), NEW p \in Seq(Int), NEW r \in Seq(Int), NEW o \in Seq(Int),
           Len(q) = n, Len(r) = n, Len(p) = n + 1, Len(o) = n + 1,
           \A i \in 1..n : p[i] = q[i] /\ o[i] = r[i], p[n + 1] = o[n + 1], NotAfter(p, o)
    PROVE  NotAfter(q, r)
<1>1. DOMAIN q = 1..n /\ DOMAIN r = 1..n /\ DOMAIN p = 1..(n + 1) /\ DOMAIN o = 1..(n + 1)
  BY LenProperties
<1>2. p[n + 1] \in Int
  <2>1. n + 1 \in 1..Len(p)
    OBVIOUS
  <2> QED
    BY <2>1, ElementOfSeq
<1>3. CASE p = o
  <2>1. \A i \in 1..n : q[i] = r[i]
    BY <1>3
  <2>2. q = r
    BY <2>1, SeqEqual
  <2> QED
    BY <2>2 DEF NotAfter
<1>4. CASE Before(p, o)
  <2>1. PICK i \in 1..(n + 1) : (\A j \in 1..(i - 1) : p[j] = o[j]) /\ p[i] < o[i]
    BY <1>4, <1>1 DEF Before
  <2>2. i # n + 1
    BY <2>1, <1>2
  <2>3. i \in 1..n /\ \A j \in 1..(i - 1) : j \in 1..n
    BY <2>2, IndexBelow, Zenon
  <2>4. (\A j \in 1..(i - 1) : q[j] = r[j]) /\ q[i] < r[i]
    BY <2>1, <2>3
  <2> QED
    BY <2>3, <2>4, <1>1 DEF Before, NotAfter
<1> QED
  BY <1>3, <1>4 DEF NotAfter

-----------------------------------------------------------------------------
(* Paths from the origin *)

\* The path through the stops of s, in their order.
Trip(layout, S, s) ==
    [time |-> Walk(Minutes(layout, S), <<0>> \o s),
     distance |-> Walk(Km(layout, S), <<0>> \o s),
     order |-> s]

Rank(layout, S, s) == TourRank(Trip(layout, S, s))

\* A path starts at the origin.
LEMMA FromOrigin ==
    ASSUME NEW N, 0 \in N, NEW s \in Seq(N)
    PROVE  /\ <<0>> \o s \in Seq(N) /\ <<0>> \o s # <<>> /\ Len(<<0>> \o s) = Len(s) + 1
           /\ (<<0>> \o s)[Len(s) + 1] = After(s)
<1>. DEFINE z == <<0>>
            u == z \o s
            n == Len(s)
<1>1. z \in Seq(N) /\ Len(z) = 1 /\ z[1] = 0 /\ n \in Nat
  BY LenProperties
<1> HIDE DEF z
<1>2. /\ u \in Seq(N) /\ Len(u) = Len(z) + Len(s)
      /\ \A i \in 1..(Len(z) + Len(s)) : u[i] = IF i <= Len(z) THEN z[i] ELSE s[i - Len(z)]
  BY <1>1, ConcatProperties
<1> HIDE DEF u
<1>3. u \in Seq(N) /\ Len(u) = n + 1 /\ \A i \in 1..(1 + n) : u[i] = IF i <= 1 THEN z[i] ELSE s[i - 1]
  BY <1>1, <1>2
<1>4. u # <<>>
  BY <1>1, <1>3, EmptySeq
<1>5. u[n + 1] = After(s)
  <2>1. CASE s = <<>>
    <3>1. n = 0
      BY <2>1, EmptySeq
    <3> QED
      BY <3>1, <2>1, <1>1, <1>3 DEF After
  <2>2. CASE s # <<>>
    <3>1. n # 0
      BY <2>2, EmptySeq
    <3> HIDE DEF n
    <3>2. n + 1 \in 1..(1 + n) /\ ~ (n + 1 <= 1) /\ (n + 1) - 1 = n
      BY <3>1, <1>1
    <3>3. u[n + 1] = s[n]
      BY <3>2, <1>3
    <3> QED
      BY <3>3, <2>2 DEF After, n
  <2> QED
    BY <2>1, <2>2
<1> QED
  BY <1>3, <1>4, <1>5 DEF u, z

LEMMA AfterType ==
    ASSUME NEW S, NEW s \in Seq(S) PROVE After(s) \in S \cup {0}
<1>1. CASE s = <<>>
  BY <1>1 DEF After
<1>2. CASE s # <<>>
  <2>1. Len(s) \in 1..Len(s)
    BY <1>2, EmptySeq
  <2> QED
    BY <2>1, <1>2, ElementOfSeq DEF After
<1> QED
  BY <1>1, <1>2

\* The time and the distance of a path are numbers.
LEMMA TripType ==
    ASSUME NEW layout, NEW S, Placed(layout, S), NEW s \in Seq(S \cup {0})
    PROVE  /\ Trip(layout, S, s).order = s
           /\ Trip(layout, S, s).time \in Nat /\ Trip(layout, S, s).distance \in Nat
<1>1. <<0>> \o s \in Seq(S \cup {0})
  BY FromOrigin
<1>2. /\ Km(layout, S) \in [(S \cup {0}) \X (S \cup {0}) -> Nat]
      /\ Minutes(layout, S) \in [(S \cup {0}) \X (S \cup {0}) -> Nat]
  BY LegsAreMetric DEF Metric
<1>3. Walk(Km(layout, S), <<0>> \o s) \in Nat /\ Walk(Minutes(layout, S), <<0>> \o s) \in Nat
  BY <1>1, <1>2, WalkType
<1> QED
  BY <1>3 DEF Trip

\* Going on to a stop, or back to the origin.
LEMMA TripAppend ==
    ASSUME NEW layout, NEW S, Placed(layout, S), NEW s \in Seq(S), NEW x \in S \cup {0}
    PROVE  Longer(layout, Trip(layout, S, s), After(s), x) = Trip(layout, S, Append(s, x))
<1>. DEFINE N == S \cup {0}
            z == <<0>>
            u == z \o s
            d == Km(layout, S)
            m == Minutes(layout, S)
            p == After(s)
<1>1. s \in Seq(N) /\ x \in N /\ 0 \in N /\ z \in Seq(N) /\ p \in N
  BY SeqMonotonic, AfterType
<1> HIDE DEF N
<1>2. u \in Seq(N) /\ u # <<>> /\ u[Len(u)] = p
  BY <1>1, FromOrigin
<1>3. z \o Append(s, x) = Append(u, x)
  <2>. DEFINE one == <<x>>
  <2>1. one \in Seq(N)
    BY <1>1
  <2>2. Append(s, x) = s \o one /\ Append(u, x) = u \o one
    BY <1>1, <1>2, AppendIsConcat
  <2> HIDE DEF one, z
  <2>3. (z \o s) \o one = z \o (s \o one)
    <3>1. z \in Seq(N) /\ s \in Seq(N) /\ one \in Seq(N)
      BY <1>1, <2>1
    <3> QED
      BY <3>1, ConcatAssociative, SMTT(30)
  <2> QED
    BY <2>2, <2>3
<1>4. d \in [N \X N -> Nat] /\ m \in [N \X N -> Nat]
  BY LegsAreMetric DEF Metric, N
<1>5. m[<<p, x>>] = Leg(layout, p, x).time /\ d[<<p, x>>] = Leg(layout, p, x).distance
  BY <1>1 DEF Km, Minutes, N
<1> HIDE DEF u, d, m, p
<1>6. Walk(d, Append(u, x)) = Walk(d, u) + d[<<p, x>>] /\ Walk(m, Append(u, x)) = Walk(m, u) + m[<<p, x>>]
  <2>1. ASSUME NEW w \in [N \X N -> Nat]
        PROVE  Walk(w, Append(u, x)) = Walk(w, u) + w[<<u[Len(u)], x>>]
    <3>1. u \in Seq(N) /\ u # <<>> /\ x \in N
      BY <1>1, <1>2
    <3> QED
      BY ONLY <2>1, <3>1, WalkAppend
  <2> QED
    BY <2>1, <1>2, <1>4, Zenon
<1>7. Trip(layout, S, s) = [time |-> Walk(m, u), distance |-> Walk(d, u), order |-> s]
  BY DEF Trip, m, d, u, z
<1>8. Trip(layout, S, Append(s, x)) =
          [time |-> Walk(m, Append(u, x)), distance |-> Walk(d, Append(u, x)), order |-> Append(s, x)]
  BY <1>3 DEF Trip, m, d, z
<1> QED
  BY <1>5, <1>6, <1>7, <1>8 DEF Longer, p

LEMMA RankType ==
    ASSUME NEW layout, NEW S, Placed(layout, S), NEW s \in Seq(S \cup {0})
    PROVE  /\ Rank(layout, S, s) \in Seq(Int) /\ Len(Rank(layout, S, s)) = Len(s) + 2
           /\ Rank(layout, S, s)[1] = Trip(layout, S, s).time
           /\ Rank(layout, S, s)[2] = Trip(layout, S, s).distance
           /\ \A i \in 1..Len(s) : Rank(layout, S, s)[2 + i] = s[i]
<1>. DEFINE tour == Trip(layout, S, s)
<1>1. tour.order = s /\ tour.time \in Int /\ tour.distance \in Int
  BY TripType
<1>2. S \cup {0} \subseteq Int
  BY DEF Placed
<1> HIDE DEF tour
<1>3. /\ TourRank(tour) \in Seq(Int) /\ Len(TourRank(tour)) = Len(tour.order) + 2
      /\ TourRank(tour)[1] = tour.time /\ TourRank(tour)[2] = tour.distance
      /\ \A i \in 1..Len(tour.order) : TourRank(tour)[2 + i] = tour.order[i]
  BY <1>1, <1>2, RankIs
<1> QED
  BY <1>1, <1>3 DEF Rank, tour

\* Both paths go on to the same stop from the same one.
LEMMA RankAppend ==
    ASSUME NEW layout, NEW S, Placed(layout, S), NEW s \in Seq(S), NEW t \in Seq(S),
           Len(s) = Len(t), After(s) = After(t), NEW x \in S \cup {0},
           NotAfter(Rank(layout, S, s), Rank(layout, S, t))
    PROVE  NotAfter(Rank(layout, S, Append(s, x)), Rank(layout, S, Append(t, x)))
<1>. DEFINE n == Len(s)
            p == After(s)
            a == Leg(layout, p, x).time
            b == Leg(layout, p, x).distance
            R(v) == Rank(layout, S, v)
<1>1. n \in Nat /\ x \in Int /\ p \in S \cup {0}
  BY LenProperties, AfterType DEF Placed
<1>2. a \in Int /\ b \in Int
  <2>1. p \in S \cup {0} /\ x \in S \cup {0}
    BY <1>1
  <2>2. p \in S \cup {0} => b \in Nat /\ a = 3 * b + (IF b = 0 THEN 0 ELSE 2)
    <3> HIDE DEF p
    <3> QED
      BY LegIs
  <2> HIDE DEF a, b
  <2> QED
    BY <2>1, <2>2
<1>3. ASSUME NEW v \in Seq(S), Len(v) = n, After(v) = p
      PROVE  Grown(R(v), R(Append(v, x)), n, a, b, x)
  <2>. DEFINE w == Append(v, x)
              q == R(v)
              r == R(w)
  <2>1. v \in Seq(S \cup {0})
    BY SeqMonotonic
  <2>2. /\ w \in Seq(S \cup {0}) /\ Len(w) = n + 1 /\ w[n + 1] = x
        /\ \A i \in 1..n : w[i] = v[i]
    BY <2>1, <1>3, AppendProperties
  <2>3. Trip(layout, S, w).time = Trip(layout, S, v).time + a
        /\ Trip(layout, S, w).distance = Trip(layout, S, v).distance + b
    <3>1. Longer(layout, Trip(layout, S, v), p, x) = Trip(layout, S, w)
      BY <1>3, TripAppend
    <3> QED
      BY <3>1 DEF Longer
  <2> HIDE DEF w, n, a, b, p
  <2>4. /\ q \in Seq(Int) /\ Len(q) = n + 2
        /\ q[1] = Trip(layout, S, v).time /\ q[2] = Trip(layout, S, v).distance
        /\ \A i \in 1..n : q[2 + i] = v[i]
    BY <2>1, <1>3, RankType
  <2>5. /\ r \in Seq(Int) /\ Len(r) = (n + 1) + 2
        /\ r[1] = Trip(layout, S, w).time /\ r[2] = Trip(layout, S, w).distance
        /\ \A i \in 1..(n + 1) : r[2 + i] = w[i]
    <3>1. /\ r \in Seq(Int) /\ Len(r) = Len(w) + 2
          /\ r[1] = Trip(layout, S, w).time /\ r[2] = Trip(layout, S, w).distance
          /\ \A i \in 1..Len(w) : r[2 + i] = w[i]
      <4>1. \A v2 \in Seq(S \cup {0}) :
                /\ R(v2) \in Seq(Int) /\ Len(R(v2)) = Len(v2) + 2
                /\ R(v2)[1] = Trip(layout, S, v2).time /\ R(v2)[2] = Trip(layout, S, v2).distance
                /\ \A i \in 1..Len(v2) : R(v2)[2 + i] = v2[i]
        BY RankType
      <4> HIDE DEF R
      <4> QED
        BY <4>1, <2>2
    <3> QED
      BY <3>1, <2>2
  <2> HIDE DEF q, r
  <2>6. Len(r) = n + 3
    BY <2>5, <1>1
  <2>7. r[n + 3] = x
    <3>1. n + 1 \in 1..(n + 1) /\ 2 + (n + 1) = n + 3
      BY <1>1
    <3> QED
      BY <3>1, <2>2, <2>5
  <2>8. ASSUME NEW i \in 3..(n + 2) PROVE r[i] = q[i]
    <3>. DEFINE k == i - 2
    <3>1. k \in 1..n /\ 2 + k = i /\ k \in 1..(n + 1)
      BY <1>1
    <3> HIDE DEF k
    <3> QED
      BY <3>1, <2>2, <2>4, <2>5
  <2>9. Grown(q, r, n, a, b, x)
    BY <1>1, <1>2, <2>3, <2>4, <2>5, <2>6, <2>7, <2>8 DEF Grown
  <2> QED
    BY <2>9 DEF q, r, w
<1>4. Grown(R(s), R(Append(s, x)), n, a, b, x) /\ Grown(R(t), R(Append(t, x)), n, a, b, x)
  BY <1>3
<1> HIDE DEF n, a, b
<1> QED
  BY <1>4, GrownTogether

-----------------------------------------------------------------------------
(* The table of paths *)

\* A path to last through visited, from the paths through all of visited but last.
Reach(layout, paths, visited, last) ==
    IF visited = {last} THEN Longer(layout, NoPath, 0, last)
    ELSE Shortest({Longer(layout, paths[k], k, last) : k \in visited \ {last}})

\* One row of the table, from a table g of the smaller rows.
Row0(layout, g, visited) ==
    [last \in visited |-> Reach(layout, g[visited \ {last}], visited, last)]

\* The table holds a path for each set of stops and last stop,
LEMMA PathIs ==
    ASSUME NEW layout, NEW S
    PROVE  Path(layout, S) = CHOOSE g : g = [V \in SUBSET S |-> Row0(layout, g, V)]
  BY DEF Path, Row0, Reach

\* made of the paths of the sets with one stop less.
LEMMA PathStep ==
    ASSUME NEW layout, NEW S, IsFiniteSet(S)
    PROVE  \A V \in SUBSET S : Path(layout, S)[V] = Row0(layout, Path(layout, S), V)
<1>. DEFINE Below(n) == {V \in SUBSET S : Cardinality(V) <= n}
            Good(n) == \E g : g = [V \in Below(n) |-> Row0(layout, g, V)]
            Goods == {n \in Nat : Good(n)}
<1>1. \A V \in SUBSET S : /\ IsFiniteSet(V) /\ Cardinality(V) \in Nat
                          /\ Cardinality(V) <= Cardinality(S)
  BY FS_Subset, FS_CardinalityType
<1>2. \A V \in SUBSET S : \A x \in V : /\ V \ {x} \in SUBSET S
                                       /\ Cardinality(V \ {x}) = Cardinality(V) - 1
  BY <1>1, FS_RemoveElement
<1>3. Good(0)
  <2>. DEFINE g == [V \in Below(0) |-> Row0(layout, <<>>, V)]
  <2>1. \A V \in Below(0) : V = {}
    BY <1>1, FS_EmptySet
  <2>2. Row0(layout, <<>>, {}) = Row0(layout, g, {})
    BY DEF Row0
  <2>3. g = [V \in Below(0) |-> Row0(layout, g, V)]
    <3>. HIDE DEF g
    <3>1. g = [V \in Below(0) |-> Row0(layout, <<>>, V)]
      BY DEF g
    <3>2. \A V \in Below(0) : Row0(layout, <<>>, V) = Row0(layout, g, V)
      BY <2>1, <2>2
    <3> QED
      BY <3>1, <3>2
  <2> QED
    BY <2>3
<1>4. ASSUME NEW n \in Nat, Good(n) PROVE Good(n + 1)
  <2>1. PICK h : h = [V \in Below(n) |-> Row0(layout, h, V)]
    BY <1>4
  <2>. DEFINE g == [V \in Below(n + 1) |-> Row0(layout, h, V)]
  <2>2. \A V \in Below(n) : V \in Below(n + 1) /\ g[V] = h[V]
    BY <2>1, <1>1
  <2>3. ASSUME NEW V \in Below(n + 1), NEW x \in V PROVE V \ {x} \in Below(n)
    <3>1. V \in SUBSET S /\ Cardinality(V) \in Nat /\ Cardinality(V) <= n + 1
      BY <1>1
    <3>2. V \ {x} \in SUBSET S /\ Cardinality(V \ {x}) = Cardinality(V) - 1
      BY <3>1, <1>2
    <3>3. Cardinality(V \ {x}) <= n
      BY <3>1, <3>2
    <3> QED
      BY <3>2, <3>3
  <2>4. g = [V \in Below(n + 1) |-> Row0(layout, h, V)]
    OBVIOUS
  <2> HIDE DEF g
  <2>5. ASSUME NEW V \in Below(n + 1) PROVE Row0(layout, h, V) = Row0(layout, g, V)
    <3>1. \A x \in V : g[V \ {x}] = h[V \ {x}]
      BY <2>2, <2>3
    <3>2. \A x \in V : Reach(layout, g[V \ {x}], V, x) = Reach(layout, h[V \ {x}], V, x)
      BY <3>1
    <3> QED
      BY <3>2 DEF Row0
  <2>6. g = [V \in Below(n + 1) |-> Row0(layout, g, V)]
    BY <2>4, <2>5
  <2> QED
    BY <2>6
<1>5. Goods = Nat
  <2> HIDE DEF Good
  <2>1. 0 \in Goods /\ \A n \in Goods : n + 1 \in Goods
    BY <1>3, <1>4
  <2> QED
    BY <2>1, Induction
<1>6. Good(Cardinality(S)) /\ Below(Cardinality(S)) = SUBSET S
  BY <1>5, <1>1
<1>. DEFINE P == Path(layout, S)
<1>7. P = [V \in SUBSET S |-> Row0(layout, P, V)]
  <2>1. \E g : g = [V \in SUBSET S |-> Row0(layout, g, V)]
    BY <1>6
  <2>2. P = CHOOSE g : g = [V \in SUBSET S |-> Row0(layout, g, V)]
    BY PathIs
  <2> HIDE DEF P
  <2> QED
    BY <2>1, <2>2
<1> HIDE DEF P
<1>8. \A V \in SUBSET S : P[V] = Row0(layout, P, V)
  BY <1>7
<1> QED
  BY <1>8 DEF P

-----------------------------------------------------------------------------
(* The best paths *)

\* s is the best order of V that ends in l.
Ends(s, V, l) == IsOrder(s, V) /\ After(s) = l

First(layout, S, V, l, s) ==
    /\ Ends(s, V, l)
    /\ \A t : Ends(t, V, l) => NotAfter(Rank(layout, S, s), Rank(layout, S, t))

\* An order that ends in l is an order of the rest and then l,
LEMMA EndsAppend ==
    ASSUME NEW V, IsFiniteSet(V), NEW l \in V, NEW s, IsOrder(s, V \ {l})
    PROVE  Ends(Append(s, l), V, l)
<1>. DEFINE R == V \ {l}
            t == Append(s, l)
<1>1. s \in Seq(R) /\ s \in Seq(V) /\ Len(s) = Cardinality(R) /\ \A i, j \in 1..Len(s) : i # j => s[i] # s[j]
  BY SeqMonotonic DEF IsOrder
<1>2. Cardinality(R) = Cardinality(V) - 1 /\ Cardinality(V) \in Nat /\ Len(s) \in Nat
  BY <1>1, FS_RemoveElement, FS_CardinalityType, LenProperties
<1>3. /\ t \in Seq(V) /\ t # <<>> /\ Len(t) = Len(s) + 1 /\ t[Len(s) + 1] = l
      /\ \A i \in 1..Len(s) : t[i] = s[i]
  <2>1. s \in Seq(V)
    BY <1>1
  <2> QED
    BY <2>1, AppendProperties
<1>4. \A i \in 1..Len(s) : s[i] # l
  BY <1>1, ElementOfSeq
<1> HIDE DEF t, R
<1>5. Len(t) = Cardinality(V) /\ After(t) = l
  BY <1>1, <1>2, <1>3 DEF After
<1>6. ASSUME NEW i \in 1..Len(t), NEW j \in 1..Len(t), i < j PROVE t[i] # t[j]
  <2>1. i \in 1..Len(s)
    BY <1>6, <1>2, <1>3
  <2>2. CASE j = Len(s) + 1
    BY <2>1, <2>2, <1>3, <1>4
  <2>3. CASE j # Len(s) + 1
    <3>1. j \in 1..Len(s) /\ i # j
      BY <2>3, <1>6, <1>2, <1>3
    <3> QED
      BY <3>1, <2>1, <1>1, <1>3
  <2> QED
    BY <2>2, <2>3
<1>7. ASSUME NEW i \in 1..Len(t), NEW j \in 1..Len(t), i # j PROVE t[i] # t[j]
  <2>1. i < j \/ j < i
    BY <1>2, <1>3, <1>7
  <2> QED
    BY <2>1, <1>6
<1> QED
  BY <1>3, <1>5, <1>7 DEF Ends, IsOrder, t

\* and the rest of it is an order.
LEMMA EndsFront ==
    ASSUME NEW V, IsFiniteSet(V), NEW l \in V, NEW t, Ends(t, V, l)
    PROVE  \E s : IsOrder(s, V \ {l}) /\ t = Append(s, l)
<1>1. t \in Seq(V) /\ Len(t) = Cardinality(V) /\ \A i, j \in 1..Len(t) : i # j => t[i] # t[j]
  BY DEF Ends, IsOrder
<1>2. Cardinality(V \ {l}) = Cardinality(V) - 1 /\ Cardinality(V) \in Nat /\ Cardinality(V) # 0
  BY FS_RemoveElement, FS_CardinalityType, FS_EmptySet
<1>3. t # <<>>
  BY <1>1, <1>2, EmptySeq
<1>4. PICK s \in Seq(V), e \in V : t = Append(s, e)
  BY <1>1, <1>3, SequenceEmptyOrAppend
<1>5. Len(t) = Len(s) + 1 /\ t[Len(s) + 1] = e /\ (\A i \in 1..Len(s) : t[i] = s[i]) /\ Len(s) \in Nat
  BY <1>4, AppendProperties, LenProperties
<1>6. e = l
  BY <1>3, <1>5 DEF Ends, After
<1>7. \A i \in 1..Len(s) : s[i] \in V /\ s[i] # l
  <2> SUFFICES ASSUME NEW i \in 1..Len(s) PROVE s[i] \in V /\ s[i] # l
    OBVIOUS
  <2>1. i \in 1..Len(t) /\ Len(s) + 1 \in 1..Len(t) /\ i # Len(s) + 1
    BY <1>5
  <2>2. t[i] # t[Len(s) + 1] /\ t[i] = s[i]
    BY <2>1, <1>1, <1>5
  <2> QED
    BY <2>2, <1>5, <1>6, ElementOfSeq
<1>8. s \in Seq(V \ {l})
  <2>1. s \in [1..Len(s) -> V] /\ Len(s) \in Nat
    BY LenProperties
  <2>2. s \in [1..Len(s) -> V \ {l}]
    BY <2>1, <1>7
  <2>. DEFINE n == Len(s)
  <2>3. n \in Nat /\ s \in [1..n -> V \ {l}]
    BY <2>1, <2>2
  <2> HIDE DEF n
  <2> QED
    BY <2>3
<1>9. \A i, j \in 1..Len(s) : i # j => s[i] # s[j]
  BY <1>1, <1>5
<1>10. Len(s) = Cardinality(V \ {l})
  BY <1>1, <1>2, <1>5
<1> QED
  BY <1>4, <1>6, <1>8, <1>9, <1>10 DEF IsOrder

\* Of the paths that go on to l from the best path to each k of V, the least one.
LEMMA LeastPath ==
    ASSUME NEW layout, NEW S, Placed(layout, S), NEW V, V \subseteq S, V # {},
           NEW l \in S \cup {0}, NEW best, \A k \in V : First(layout, S, V, k, best[k])
    PROVE  \E k \in V :
               /\ Shortest({Longer(layout, Trip(layout, S, best[h]), h, l) : h \in V}) =
                      Trip(layout, S, Append(best[k], l))
               /\ \A t : IsOrder(t, V) =>
                      NotAfter(Rank(layout, S, Append(best[k], l)), Rank(layout, S, Append(t, l)))
<1>. DEFINE R == {Longer(layout, Trip(layout, S, best[k]), k, l) : k \in V}
            key == [tour \in R |-> TourRank(tour)]
            n == Cardinality(V)
            T(k) == Trip(layout, S, Append(best[k], l))
            F(t) == Rank(layout, S, Append(t, l))
<1>1. IsFiniteSet(V) /\ n \in Nat
  BY FS_Subset, FS_CardinalityType DEF Placed
<1>2. ASSUME NEW t, IsOrder(t, V)
      PROVE  /\ t \in Seq(S) /\ Len(t) = n
             /\ Append(t, l) \in Seq(S \cup {0}) /\ Len(Append(t, l)) = n + 1
             /\ F(t) \in Seq(Int) /\ Len(F(t)) = n + 3
  <2>1. t \in Seq(S) /\ t \in Seq(S \cup {0}) /\ Len(t) = n
    BY <1>2, SeqMonotonic DEF IsOrder
  <2>2. Append(t, l) \in Seq(S \cup {0}) /\ Len(Append(t, l)) = n + 1
    BY <2>1, AppendProperties
  <2>. DEFINE u == Append(t, l)
  <2>3. F(t) \in Seq(Int) /\ Len(F(t)) = Len(u) + 2
    <3>1. Rank(layout, S, u) \in Seq(Int) /\ Len(Rank(layout, S, u)) = Len(u) + 2
      <4>1. u \in Seq(S \cup {0})
        BY <2>2
      <4> HIDE DEF u, R, key, n, T, F
      <4> QED
        BY <4>1, RankType
    <3> QED
      BY <3>1
  <2>4. (n + 1) + 2 = n + 3
    BY <1>1
  <2> HIDE DEF n, F
  <2> QED
    BY <2>1, <2>2, <2>3, <2>4
<1>3. \A k \in V : IsOrder(best[k], V) /\ After(best[k]) = k
  BY DEF First, Ends
<1>4. \A k \in V : Longer(layout, Trip(layout, S, best[k]), k, l) = T(k)
  <2> SUFFICES ASSUME NEW k \in V
               PROVE  Longer(layout, Trip(layout, S, best[k]), k, l) = T(k)
    OBVIOUS
  <2>1. best[k] \in Seq(S) /\ After(best[k]) = k
    BY <1>2, <1>3
  <2>2. Longer(layout, Trip(layout, S, best[k]), After(best[k]), l) = T(k)
    BY <2>1, TripAppend
  <2> QED
    BY <2>1, <2>2
<1>5. R = {T(k) : k \in V}
  BY <1>4
<1>6. IsFiniteSet(R) /\ R # {}
  <2>. DEFINE f == [k \in V |-> T(k)]
  <2>1. IsFiniteSet(DOMAIN f) /\ \A y \in R : \E k \in DOMAIN f : y = f[k]
    BY <1>1, <1>5
  <2> HIDE DEF f, R
  <2>2. IsFiniteSet(R)
    BY <2>1, FiniteValues
  <2>3. PICK k : k \in V
    OBVIOUS
  <2> QED
    BY <2>2, <2>3, <1>5
<1>7. DOMAIN key = R /\ \A tour \in R : key[tour] = TourRank(tour)
  OBVIOUS
<1>8. \A k \in V : TourRank(T(k)) = F(best[k])
  BY DEF Rank
<1> HIDE DEF R, key
<1>9. \A tour \in R : key[tour] \in Seq(Int) /\ Len(key[tour]) = n + 3
  <2> SUFFICES ASSUME NEW k \in V
               PROVE  key[T(k)] \in Seq(Int) /\ Len(key[T(k)]) = n + 3
    BY <1>5
  <2>1. T(k) \in R
    BY <1>5
  <2>2. key[T(k)] = F(best[k])
    BY <2>1, <1>7, <1>8
  <2> HIDE DEF T, F
  <2> QED
    BY <2>2, <1>2, <1>3
<1>10. Ranked(key, 1)
  <2>1. n + 3 \in Nat /\ 1 \in 1..(n + 3)
    BY <1>1
  <2> QED
    BY <2>1, <1>7, <1>9, RankedAlike
<1>11. /\ Least(key) \in R
       /\ \A tour \in R : key[tour] = key[Least(key)] \/ Before(key[Least(key)], key[tour])
  BY <1>6, <1>7, <1>10, LeastIs
<1>12. Shortest(R) = Least(key)
  BY DEF Shortest, key
<1>13. PICK k \in V : Least(key) = T(k)
  BY <1>5, <1>11
<1>14. ASSUME NEW t, IsOrder(t, V) PROVE NotAfter(F(best[k]), F(t))
  <2>. DEFINE j == After(t)
  <2>1. t # <<>>
    <3>1. n # 0 /\ Len(t) = n
      BY <1>1, <1>2, <1>14, FS_EmptySet
    <3> QED
      BY <3>1, EmptySeq
  <2>2. j \in V
    <3>1. t \in Seq(V) /\ Len(t) \in 1..Len(t)
      BY <2>1, <1>14, EmptySeq DEF IsOrder
    <3> QED
      BY <3>1, <2>1, ElementOfSeq DEF After
  <2>3. NotAfter(Rank(layout, S, best[j]), Rank(layout, S, t))
    BY <2>2, <1>14 DEF First, Ends
  <2> HIDE DEF j
  <2>4. /\ best[j] \in Seq(S) /\ t \in Seq(S) /\ Len(best[j]) = Len(t)
        /\ After(best[j]) = After(t)
    BY <2>2, <1>2, <1>3, <1>14 DEF j
  <2>5. NotAfter(F(best[j]), F(t))
    BY <2>3, <2>4, RankAppend
  <2>6. T(j) \in R /\ T(k) \in R
    BY <2>2, <1>5
  <2>7. NotAfter(F(best[k]), F(best[j]))
    <3>1. key[T(k)] = F(best[k]) /\ key[T(j)] = F(best[j])
      BY <2>6, <2>2, <1>7, <1>8
    <3> HIDE DEF T, F
    <3> QED
      BY <3>1, <2>6, <1>11, <1>13 DEF NotAfter
  <2>8. /\ F(t) \in Seq(Int) /\ Len(F(t)) = n + 3
        /\ F(best[k]) \in Seq(Int) /\ Len(F(best[k])) = n + 3
        /\ F(best[j]) \in Seq(Int) /\ Len(F(best[j])) = n + 3
    BY <2>2, <1>2, <1>3, <1>14
  <2>9. n + 3 \in Nat \ {0}
    BY <1>1
  <2> HIDE DEF F, n
  <2> QED
    BY <2>5, <2>7, <2>8, <2>9, NotAfterTransitive
<1> QED
  BY <1>12, <1>13, <1>14 DEF R

\* Every path of the table is the first by rank of those through its stops to its last: by
\* induction on the number of stops, a first path being one stop more than a first path.
LEMMA PathsAreFirst ==
    ASSUME NEW layout, NEW S, Placed(layout, S)
    PROVE  \A V \in SUBSET S : \A l \in V :
               \E s : /\ First(layout, S, V, l, s)
                      /\ Path(layout, S)[V][l] = Trip(layout, S, s)
<1>. DEFINE P == Path(layout, S)
            Good(V) == \A l \in V : \E s : /\ First(layout, S, V, l, s)
                                           /\ P[V][l] = Trip(layout, S, s)
            T == {n \in Nat : \A V \in SUBSET S : Cardinality(V) = n => Good(V)}
<1>0. IsFiniteSet(S) /\ \A V \in SUBSET S : IsFiniteSet(V) /\ Cardinality(V) \in Nat
  BY FS_Subset, FS_CardinalityType DEF Placed
<1>1. 0 \in T
  <2>1. \A V \in SUBSET S : Cardinality(V) = 0 => V = {}
    BY <1>0, FS_EmptySet
  <2> QED
    BY <2>1
<1>2. ASSUME NEW n \in T PROVE n + 1 \in T
  <2> SUFFICES ASSUME NEW V \in SUBSET S, Cardinality(V) = n + 1, NEW l \in V
               PROVE  \E s : First(layout, S, V, l, s) /\ P[V][l] = Trip(layout, S, s)
    OBVIOUS
  <2>. DEFINE W == V \ {l}
  <2>1. W \in SUBSET S /\ Cardinality(W) = n /\ IsFiniteSet(W) /\ IsFiniteSet(V) /\ n \in Nat
    <3> HIDE DEF Good
    <3>1. n \in Nat /\ IsFiniteSet(V) /\ V \ {l} \in SUBSET S
      BY <1>0
    <3>2. Cardinality(V \ {l}) = Cardinality(V) - 1
      BY <3>1, FS_RemoveElement
    <3>3. Cardinality(V \ {l}) = n
      BY <3>1, <3>2
    <3> QED
      BY <3>1, <3>3, <1>0
  <2>2. Good(W)
    BY <2>1
  <2>3. P[V][l] = Reach(layout, P[W], V, l)
    <3>1. \A U \in SUBSET S : P[U] = Row0(layout, P, U)
      BY <1>0, PathStep
    <3> HIDE DEF P
    <3>2. P[V] = [k \in V |-> Reach(layout, P[V \ {k}], V, k)]
      BY <3>1 DEF Row0
    <3> QED
      BY <3>2
  <2>4. \A t : Ends(t, V, l) => \E u : IsOrder(u, W) /\ t = Append(u, l)
    BY <2>1, EndsFront
  <2>5. \A u : IsOrder(u, W) => Ends(Append(u, l), V, l)
    BY <2>1, EndsAppend
  <2>6. CASE V = {l}
    <3>1. W = {}
      BY <2>6
    <3>2. IsOrder(<<>>, W) /\ <<>> \in Seq(S)
      <4>1. <<>> \in Seq(W) /\ <<>> \in Seq(S) /\ Len(<<>>) = 0
        BY EmptySeq
      <4>2. Cardinality(W) = 0
        BY <3>1, FS_EmptySet
      <4> QED
        BY <4>1, <4>2 DEF IsOrder
    <3>3. \A u : IsOrder(u, W) => u = <<>>
      BY <3>1, EmptySeq, FS_EmptySet DEF IsOrder
    <3>. DEFINE s == Append(<<>>, l)
    <3>4. Ends(s, V, l) /\ \A t : Ends(t, V, l) => t = s
      BY <2>4, <2>5, <3>2, <3>3
    <3>5. First(layout, S, V, l, s)
      BY <3>4 DEF First, NotAfter
    <3>6. Trip(layout, S, <<>>) = NoPath
      <4>1. <<0>> \o <<>> = <<0>> /\ Len(<<0>>) \in 0..1
        OBVIOUS
      <4>2. Walk(Minutes(layout, S), <<0>>) = 0 /\ Walk(Km(layout, S), <<0>>) = 0
        BY <4>1, WalkShort
      <4> QED
        BY <4>1, <4>2 DEF Trip, NoPath
    <3>7. Longer(layout, NoPath, 0, l) = Trip(layout, S, s)
      <4>1. After(<<>>) = 0
        BY DEF After
      <4>2. Longer(layout, Trip(layout, S, <<>>), After(<<>>), l) = Trip(layout, S, Append(<<>>, l))
        <5>1. <<>> \in Seq(S) /\ l \in S \cup {0}
          BY <3>2
        <5>. DEFINE e == <<>>
        <5> HIDE DEF e
        <5>2. e \in Seq(S) => Longer(layout, Trip(layout, S, e), After(e), l) = Trip(layout, S, Append(e, l))
          BY <5>1, TripAppend
        <5> QED
          BY <5>1, <5>2 DEF e
      <4> QED
        BY <4>1, <4>2, <3>6
    <3>8. P[V][l] = Trip(layout, S, s)
      BY <2>3, <2>6, <3>7 DEF Reach
    <3> HIDE DEF s
    <3> QED
      BY <3>5, <3>8
  <2>7. CASE V # {l}
    <3>1. W # {}
      BY <2>7
    <3>. DEFINE best == [k \in W |-> CHOOSE s : First(layout, S, W, k, s) /\ P[W][k] = Trip(layout, S, s)]
    <3>2. \A k \in W : First(layout, S, W, k, best[k]) /\ P[W][k] = Trip(layout, S, best[k])
      BY <2>2
    <3> HIDE DEF best, P
    <3>3. P[V][l] = Shortest({Longer(layout, Trip(layout, S, best[k]), k, l) : k \in W})
      <4>1. P[V][l] = Shortest({Longer(layout, P[W][k], k, l) : k \in W})
        BY <2>3, <2>7 DEF Reach
      <4>2. {Longer(layout, P[W][k], k, l) : k \in W} =
                {Longer(layout, Trip(layout, S, best[k]), k, l) : k \in W}
        BY <3>2
      <4> QED
        BY <4>1, <4>2
    <3> HIDE DEF W
    <3>4. PICK k \in W :
              /\ Shortest({Longer(layout, Trip(layout, S, best[h]), h, l) : h \in W}) =
                     Trip(layout, S, Append(best[k], l))
              /\ \A t : IsOrder(t, W) =>
                     NotAfter(Rank(layout, S, Append(best[k], l)), Rank(layout, S, Append(t, l)))
      <4>1. W \subseteq S /\ l \in S \cup {0} /\ \A k \in W : First(layout, S, W, k, best[k])
        BY <2>1, <3>2
      <4> QED
        BY <4>1, <3>1, LeastPath
    <3>. DEFINE s == Append(best[k], l)
    <3>5. Ends(s, V, l)
      BY <3>2, <2>5 DEF First, Ends
    <3>6. \A t : Ends(t, V, l) => NotAfter(Rank(layout, S, s), Rank(layout, S, t))
      BY <2>4, <3>4
    <3>7. First(layout, S, V, l, s) /\ P[V][l] = Trip(layout, S, s)
      BY <3>3, <3>4, <3>5, <3>6 DEF First
    <3> HIDE DEF s
    <3> QED
      BY <3>7
  <2> QED
    BY <2>6, <2>7
<1>3. T = Nat
  <2> HIDE DEF Good
  <2> QED
    BY <1>1, <1>2, Induction
<1> QED
  BY <1>0, <1>3

-----------------------------------------------------------------------------
(* The shortest tour *)

\* The path that returns to the origin and the tour.
LEMMA ReturnIs ==
    ASSUME NEW layout, NEW S, Placed(layout, S), NEW s \in Seq(S)
    PROVE  /\ TourRank(Tour(layout, s)) \in Seq(Int)
           /\ Len(TourRank(Tour(layout, s))) = Len(s) + 2
           /\ \A i \in 1..(Len(s) + 2) :
                  Rank(layout, S, Append(s, 0))[i] = TourRank(Tour(layout, s))[i]
           /\ Rank(layout, S, Append(s, 0))[Len(s) + 3] = 0
           /\ Rank(layout, S, Append(s, 0)) \in Seq(Int)
           /\ Len(Rank(layout, S, Append(s, 0))) = Len(s) + 3
           /\ \A i \in 1..Len(s) : TourRank(Tour(layout, s))[2 + i] = s[i]
<1>. DEFINE N == S \cup {0}
            n == Len(s)
            t == Append(s, 0)
            p == Rank(layout, S, t)
            q == TourRank(Tour(layout, s))
<1>1. s \in Seq(N) /\ 0 \in N /\ n \in Nat /\ S \subseteq Int
  BY SeqMonotonic, LenProperties DEF Placed
<1>2. /\ t \in Seq(N) /\ Len(t) = n + 1 /\ t[n + 1] = 0
      /\ \A i \in 1..n : t[i] = s[i]
  BY <1>1, AppendProperties
<1>3. <<0>> \o t = Around(s)
  <2>. DEFINE z == <<0>>
  <2>1. z \in Seq(N)
    BY <1>1
  <2>2. t = s \o z
    BY <1>1, AppendIsConcat
  <2> HIDE DEF z, t, N
  <2>3. (z \o s) \o z = z \o (s \o z)
    BY <1>1, <2>1, ConcatAssociative
  <2>4. z \o t = (z \o s) \o z
    BY <2>2, <2>3
  <2> QED
    BY <2>4 DEF Around, z
<1>4. /\ Trip(layout, S, t).time = Tour(layout, s).time
      /\ Trip(layout, S, t).distance = Tour(layout, s).distance
  <2>1. Trip(layout, S, t).time = Walk(Minutes(layout, S), Around(s))
        /\ Trip(layout, S, t).distance = Walk(Km(layout, S), Around(s))
    BY <1>3 DEF Trip
  <2>2. Tour(layout, s).time = Walk(Minutes(layout, S), Around(s))
        /\ Tour(layout, s).distance = Walk(Km(layout, S), Around(s))
    BY TourIs
  <2> QED
    BY <2>1, <2>2
<1>5. Tour(layout, s).order = s /\ Tour(layout, s).time \in Nat /\ Tour(layout, s).distance \in Nat
  BY TourType
<1> HIDE DEF t, n
<1>6. /\ q \in Seq(Int) /\ Len(q) = n + 2
      /\ q[1] = Tour(layout, s).time /\ q[2] = Tour(layout, s).distance
      /\ \A i \in 1..n : q[2 + i] = s[i]
  <2>. DEFINE tour == Tour(layout, s)
  <2>1. tour.time \in Int /\ tour.distance \in Int /\ tour.order \in Seq(S) /\ tour.order = s
    BY <1>5
  <2> HIDE DEF tour
  <2>2. /\ TourRank(tour) \in Seq(Int) /\ Len(TourRank(tour)) = Len(tour.order) + 2
        /\ TourRank(tour)[1] = tour.time /\ TourRank(tour)[2] = tour.distance
        /\ \A i \in 1..Len(tour.order) : TourRank(tour)[2 + i] = tour.order[i]
    BY <1>1, <2>1, RankIs
  <2> QED
    BY <2>1, <2>2 DEF tour, n
<1>7. /\ p \in Seq(Int) /\ Len(p) = (n + 1) + 2
      /\ p[1] = Trip(layout, S, t).time /\ p[2] = Trip(layout, S, t).distance
      /\ \A i \in 1..(n + 1) : p[2 + i] = t[i]
  <2>1. t \in Seq(S \cup {0})
    BY <1>2
  <2>2. /\ p \in Seq(Int) /\ Len(p) = Len(t) + 2
        /\ p[1] = Trip(layout, S, t).time /\ p[2] = Trip(layout, S, t).distance
        /\ \A i \in 1..Len(t) : p[2 + i] = t[i]
    BY <2>1, RankType
  <2> HIDE DEF p
  <2> QED
    BY <2>2, <1>2
<1> HIDE DEF p, q
<1>8. p[n + 3] = 0 /\ Len(p) = n + 3
  <2>1. n + 1 \in 1..(n + 1) /\ 2 + (n + 1) = n + 3 /\ (n + 1) + 2 = n + 3
    BY <1>1
  <2> QED
    BY <2>1, <1>2, <1>7
<1>9. ASSUME NEW i \in 1..(n + 2) PROVE p[i] = q[i]
  <2>1. CASE i = 1
    BY <2>1, <1>4, <1>6, <1>7
  <2>2. CASE i = 2
    BY <2>2, <1>4, <1>6, <1>7
  <2>3. CASE i # 1 /\ i # 2
    <3>. DEFINE k == i - 2
    <3>1. k \in 1..n /\ 2 + k = i /\ k \in 1..(n + 1)
      BY <2>3, <1>1
    <3> HIDE DEF k
    <3> QED
      BY <3>1, <1>2, <1>6, <1>7
  <2> QED
    BY <2>1, <2>2, <2>3
<1> QED
  BY <1>6, <1>7, <1>8, <1>9 DEF p, q, n, t

\* The rank of s is the least of the orders.
LeastOrder(layout, S, s) ==
    /\ IsOrder(s, S)
    /\ \A t : IsOrder(t, S) => NotAfter(TourRank(Tour(layout, s)), TourRank(Tour(layout, t)))

\* The least path that returns is the least tour.
LEMMA LeastFromReturn ==
    ASSUME NEW layout, NEW S, Placed(layout, S), NEW s, IsOrder(s, S),
           \A t : IsOrder(t, S) =>
               NotAfter(Rank(layout, S, Append(s, 0)), Rank(layout, S, Append(t, 0)))
    PROVE  LeastOrder(layout, S, s)
<1> SUFFICES ASSUME NEW t, IsOrder(t, S)
             PROVE  NotAfter(TourRank(Tour(layout, s)), TourRank(Tour(layout, t)))
  BY DEF LeastOrder
<1>. DEFINE n == Len(s) + 2
            q == TourRank(Tour(layout, s))
            r == TourRank(Tour(layout, t))
            p == Rank(layout, S, Append(s, 0))
            o == Rank(layout, S, Append(t, 0))
<1>1. s \in Seq(S) /\ t \in Seq(S) /\ Len(s) = Len(t) /\ Len(s) \in Nat
  BY LenProperties DEF IsOrder
<1>2. n \in Nat /\ Len(s) + 3 = n + 1
  BY <1>1
<1>3. /\ q \in Seq(Int) /\ Len(q) = n /\ (\A i \in 1..n : p[i] = q[i]) /\ p[Len(s) + 3] = 0
      /\ p \in Seq(Int) /\ Len(p) = Len(s) + 3
  BY <1>1, ReturnIs
<1>4. /\ r \in Seq(Int) /\ Len(r) = n /\ (\A i \in 1..n : o[i] = r[i]) /\ o[Len(s) + 3] = 0
      /\ o \in Seq(Int) /\ Len(o) = Len(s) + 3
  <2>1. /\ r \in Seq(Int) /\ Len(r) = Len(t) + 2 /\ (\A i \in 1..(Len(t) + 2) : o[i] = r[i])
        /\ o[Len(t) + 3] = 0 /\ o \in Seq(Int) /\ Len(o) = Len(t) + 3
    BY <1>1, ReturnIs
  <2> HIDE DEF r, o
  <2> QED
    BY <2>1, <1>1
<1>5. NotAfter(p, o)
  OBVIOUS
<1> HIDE DEF n, p, q, r, o
<1>6. NotAfter(q, r)
  <2>1. /\ Len(p) = n + 1 /\ Len(o) = n + 1 /\ p[n + 1] = o[n + 1]
        /\ \A i \in 1..n : p[i] = q[i] /\ o[i] = r[i]
    BY <1>2, <1>3, <1>4
  <2>2. n \in Nat /\ q \in Seq(Int) /\ p \in Seq(Int) /\ r \in Seq(Int) /\ o \in Seq(Int)
        /\ Len(q) = n /\ Len(r) = n
    BY <1>2, <1>3, <1>4
  <2> QED
    BY <2>1, <2>2, <1>5, WithoutReturn
<1> QED
  BY <1>6 DEF q, r

\* Every order is tried: the least is the one chosen.
LEMMA ExhaustiveIs ==
    ASSUME NEW layout, NEW S, Placed(layout, S), NEW s, LeastOrder(layout, S, s)
    PROVE  Exhaustive(layout, S) = Tour(layout, s)
<1>. DEFINE R == {Tour(layout, order) : order \in SetToSeqs(S)}
            key == [tour \in R |-> TourRank(tour)]
            Q(t) == TourRank(Tour(layout, t))
<1>1. \A t : t \in SetToSeqs(S) <=> IsOrder(t, S)
  BY OrdersAre DEF Placed
<1>2. R = {Tour(layout, t) : t \in {t \in SetToSeqs(S) : IsOrder(t, S)}}
  BY <1>1
<1>3. DOMAIN key = R /\ \A tour \in R : key[tour] = TourRank(tour)
  OBVIOUS
<1>4. IsOrder(s, S) /\ Tour(layout, s) \in R
  BY <1>1 DEF LeastOrder
<1>5. \A tour \in R : \E t : IsOrder(t, S) /\ tour = Tour(layout, t)
  BY <1>1
<1> HIDE DEF R, key
<1>6. ASSUME NEW t, IsOrder(t, S)
      PROVE  /\ Q(t) \in Seq(Int) /\ Len(Q(t)) = Len(t) + 2 /\ t \in Seq(S) /\ Len(t) = Len(s)
             /\ \A i \in 1..Len(t) : Q(t)[2 + i] = t[i]
             /\ Len(t) + 2 \in Nat \ {0}
  <2>1. t \in Seq(S) /\ Len(t) = Len(s) /\ Len(t) \in Nat
    BY <1>4, <1>6, LenProperties DEF IsOrder
  <2>2. Len(t) + 2 \in Nat \ {0}
    BY <2>1
  <2> QED
    BY <2>1, <2>2, ReturnIs
<1>7. ASSUME NEW t, IsOrder(t, S), Before(Q(t), Q(s)) PROVE FALSE
  <2>1. NotAfter(Q(s), Q(t))
    BY <1>7 DEF LeastOrder
  <2>2. /\ Q(s) \in Seq(Int) /\ Len(Q(s)) = Len(s) + 2 /\ Q(t) \in Seq(Int) /\ Len(Q(t)) = Len(s) + 2
        /\ Len(s) + 2 \in Nat \ {0}
    BY <1>4, <1>6, <1>7
  <2>. DEFINE n == Len(s) + 2
              q == Q(s)
              r == Q(t)
  <2>3. q \in Seq(Int) /\ r \in Seq(Int) /\ Len(q) = n /\ Len(r) = n /\ n \in Nat \ {0}
        /\ NotAfter(q, r) /\ NotAfter(r, q)
    BY <2>1, <2>2, <1>7 DEF NotAfter
  <2> HIDE DEF n, q, r
  <2>4. Before(r, q)
    BY <1>7 DEF q, r
  <2>. DEFINE K == {q, r}
  <2>5. Ranks(K, 1)
    BY <2>3 DEF Ranks
  <2>6. q \in K /\ r \in K
    OBVIOUS
  <2> HIDE DEF K
  <2>7. Before(q, r) => Before(r, r)
    BY <2>4, <2>5, <2>6, BeforeTransitive
  <2>8. ~ Before(r, r)
    BY <2>3, BeforeIrreflexive
  <2> QED
    BY <2>3, <2>4, <2>7, <2>8 DEF NotAfter
<1>8. \A tour \in R : ~ Before(key[tour], key[Tour(layout, s)])
  BY <1>3, <1>4, <1>5, <1>7
<1>9. ASSUME NEW best \in R, \A tour \in R : ~ Before(key[tour], key[best])
      PROVE  best = Tour(layout, s)
  <2>1. PICK t : IsOrder(t, S) /\ best = Tour(layout, t)
    BY <1>5
  <2>2. ~ Before(Q(s), Q(t)) /\ NotAfter(Q(s), Q(t))
    BY <2>1, <1>3, <1>4, <1>9 DEF LeastOrder
  <2>3. Q(s) = Q(t)
    BY <2>2 DEF NotAfter
  <2>4. \A i \in 1..Len(s) : s[i] = t[i]
    BY <2>1, <2>3, <1>4, <1>6
  <2>5. s = t
    BY <2>1, <2>4, <1>4, <1>6, SeqEqual
  <2> QED
    BY <2>1, <2>5
<1>10. Least(key) = Tour(layout, s)
  BY <1>3, <1>4, <1>8, <1>9 DEF Least
<1>11. Exhaustive(layout, S) = Least(key)
  BY DEF Exhaustive, Shortest, key, R
<1> QED
  BY <1>10, <1>11

\* Held and Karp's algorithm gives the least of all orders.
LEMMA HeldKarpIs ==
    ASSUME NEW layout, NEW S, Placed(layout, S), S # {}
    PROVE  \E s : LeastOrder(layout, S, s) /\ HeldKarp(layout, S) = Tour(layout, s)
<1>. DEFINE P == Path(layout, S)
            best == [k \in S |-> CHOOSE s : First(layout, S, S, k, s) /\ P[S][k] = Trip(layout, S, s)]
<1>1. \A k \in S : \E s : First(layout, S, S, k, s) /\ P[S][k] = Trip(layout, S, s)
  BY PathsAreFirst
<1>2. \A k \in S : First(layout, S, S, k, best[k]) /\ P[S][k] = Trip(layout, S, best[k])
  BY <1>1
<1> HIDE DEF best
<1>3. HeldKarp(layout, S) =
          Tour(layout, Front(Shortest({Longer(layout, P[S][k], k, 0) : k \in S}).order))
  BY DEF HeldKarp
<1> HIDE DEF P
<1>4. {Longer(layout, P[S][k], k, 0) : k \in S} =
          {Longer(layout, Trip(layout, S, best[k]), k, 0) : k \in S}
  BY <1>2
<1>5. PICK k \in S :
          /\ Shortest({Longer(layout, Trip(layout, S, best[h]), h, 0) : h \in S}) =
                 Trip(layout, S, Append(best[k], 0))
          /\ \A t : IsOrder(t, S) =>
                 NotAfter(Rank(layout, S, Append(best[k], 0)), Rank(layout, S, Append(t, 0)))
  <2>1. S \subseteq S /\ 0 \in S \cup {0} /\ \A k \in S : First(layout, S, S, k, best[k])
    BY <1>2
  <2> QED
    BY <2>1, LeastPath
<1>. DEFINE s == best[k]
            t == Append(s, 0)
<1>6. IsOrder(s, S) /\ s \in Seq(S)
  BY <1>2 DEF First, Ends, IsOrder
<1>7. LeastOrder(layout, S, s)
  BY <1>5, <1>6, LeastFromReturn
<1>8. Front(t) = s
  <2>. DEFINE z == <<0>>
              n == Len(s)
              N == S \cup {0}
  <2>1. s \in Seq(N) /\ z \in Seq(N) /\ 0 \in N /\ n \in Nat /\ Len(z) = 1
    BY <1>6, SeqMonotonic, LenProperties
  <2>2. t \in Seq(N) /\ Len(t) = n + 1 /\ \A i \in 1..n : t[i] = s[i]
    BY <2>1, AppendProperties
  <2> HIDE DEF t, n, s
  <2>3. Len(t) - 1 = n /\ \A i \in 1..n : s[i] \in N
    BY <2>1, <2>2, ElementOfSeq DEF n
  <2>4. /\ SubSeq(t, 1, n) \in Seq(N)
        /\ Len(SubSeq(t, 1, n)) = IF 1 <= n THEN n - 1 + 1 ELSE 0
        /\ \A i \in 1..(n - 1 + 1) : SubSeq(t, 1, n)[i] = t[1 + i - 1]
    <3>1. 1 \in Int /\ n \in Int /\ \A i \in 1..n : t[i] \in N
      BY <2>1, <2>2, <2>3
    <3> QED
      BY <3>1, SubSeqProperties
  <2>5. (IF 1 <= n THEN n - 1 + 1 ELSE 0) = n /\ n - 1 + 1 = n /\ \A i \in 1..n : 1 + i - 1 = i
    BY <2>1
  <2>6. Len(SubSeq(t, 1, n)) = n /\ \A i \in 1..n : SubSeq(t, 1, n)[i] = s[i]
    BY <2>2, <2>4, <2>5
  <2>7. SubSeq(t, 1, n) = s
    BY <2>1, <2>4, <2>6, SeqEqual DEF n
  <2> QED
    BY <2>3, <2>7 DEF Front
<1> HIDE DEF t
<1>9. HeldKarp(layout, S) = Tour(layout, s)
  <2>1. Shortest({Longer(layout, P[S][h], h, 0) : h \in S}).order = t
    <3>1. Shortest({Longer(layout, P[S][h], h, 0) : h \in S}) = Trip(layout, S, t)
      BY <1>4, <1>5 DEF t
    <3> QED
      BY <3>1 DEF Trip
  <2> QED
    BY <2>1, <1>3, <1>8
<1> HIDE DEF s
<1> QED
  BY <1>7, <1>9

\* ExactRouteOrderOptimizer gives the least of all orders of the stops whichever algorithm
\* computes it, and that one is best by time and by distance at once.
THEOREM ShortestTourIs ==
    ASSUME NEW layout, NEW S, Placed(layout, S)
    PROVE  /\ ShortestTour(layout, S) = Exhaustive(layout, S)
           /\ \E s : Best(layout, S, s) /\ Exhaustive(layout, S) = Tour(layout, s)
<1>1. \E s : LeastOrder(layout, S, s) /\ (S # {} => HeldKarp(layout, S) = Tour(layout, s))
  <2>1. CASE S # {}
    BY <2>1, HeldKarpIs
  <2>2. CASE S = {}
    <3>1. <<>> \in Seq(S) /\ Len(<<>>) = 0 /\ Cardinality(S) = 0
      BY <2>2, EmptySeq, FS_EmptySet
    <3>2. IsOrder(<<>>, S)
      BY <3>1 DEF IsOrder
    <3>3. \A t : IsOrder(t, S) => t = <<>>
      BY <3>1, EmptySeq DEF IsOrder
    <3>4. LeastOrder(layout, S, <<>>)
      BY <3>2, <3>3 DEF LeastOrder, NotAfter
    <3> QED
      BY <2>2, <3>4
  <2> QED
    BY <2>1, <2>2
<1>2. PICK s : LeastOrder(layout, S, s) /\ (S # {} => HeldKarp(layout, S) = Tour(layout, s))
  BY <1>1
<1>3. Exhaustive(layout, S) = Tour(layout, s)
  BY <1>2, ExhaustiveIs
<1>4. ShortestTour(layout, S) = Exhaustive(layout, S)
  <2>1. S = {} => Cardinality(S) <= 3
    BY FS_EmptySet
  <2> QED
    BY <2>1, <1>2, <1>3 DEF ShortestTour
<1>5. PICK r : Best(layout, S, r)
  BY BestExists
<1>6. IsOrder(s, S) /\ IsOrder(r, S) /\ s \in Seq(S) /\ r \in Seq(S)
  BY <1>2, <1>5 DEF LeastOrder, Best, IsOrder
<1>. DEFINE a == Tour(layout, s)
            b == Tour(layout, r)
            p == TourRank(a)
            q == TourRank(b)
<1>7. a.time \in Nat /\ a.distance \in Nat /\ b.time \in Nat /\ b.distance \in Nat
      /\ a.order = s /\ b.order = r
  BY <1>6, TourType
<1>8. b.time <= a.time /\ b.distance <= a.distance
  BY <1>5, <1>6 DEF Best
<1>9. NotAfter(p, q)
  BY <1>2, <1>6 DEF LeastOrder
<1>a. S \subseteq Int
  BY DEF Placed
<1>10. p[1] = a.time /\ p[2] = a.distance /\ q[1] = b.time /\ q[2] = b.distance
  <2>1. a.time \in Int /\ a.distance \in Int /\ b.time \in Int /\ b.distance \in Int
        /\ a.order \in Seq(S) /\ b.order \in Seq(S)
    BY <1>6, <1>7
  <2> HIDE DEF a, b
  <2> QED
    BY <1>a, <2>1, RankIs
<1>11. a.time <= b.time /\ a.distance <= b.distance
  <2> HIDE DEF p, q, a, b
  <2>1. CASE p = q
    BY <2>1, <1>7, <1>10
  <2>2. CASE Before(p, q)
    <3>1. PICK i \in DOMAIN p : (\A j \in 1..(i - 1) : p[j] = q[j]) /\ p[i] < q[i]
      BY <2>2 DEF Before
    <3>2. DOMAIN p \subseteq Nat \ {0}
      <4>1. p \in Seq(Int)
        <5>1. a.time \in Int /\ a.distance \in Int /\ a.order \in Seq(S)
          BY <1>6, <1>7
        <5> QED
          BY <1>a, <5>1, RankIs DEF p
      <4> QED
        BY <4>1, LenProperties
    <3>3. i # 1
      BY <3>1, <1>7, <1>8, <1>10
    <3>4. 1 \in 1..(i - 1)
      BY <3>2, <3>3
    <3>5. a.time = b.time
      BY <3>1, <3>4, <1>10
    <3>6. i # 2
      BY <3>1, <1>7, <1>8, <1>10
    <3>7. 2 \in 1..(i - 1)
      BY <3>2, <3>3, <3>6
    <3>8. a.distance = b.distance
      BY <3>1, <3>7, <1>10
    <3> QED
      BY <3>5, <3>8, <1>7
  <2> QED
    BY <2>1, <2>2, <1>9 DEF NotAfter
<1>12. Best(layout, S, s)
  <2> SUFFICES ASSUME NEW t, IsOrder(t, S)
               PROVE  a.time <= Tour(layout, t).time /\ a.distance <= Tour(layout, t).distance
    BY <1>6 DEF Best
  <2>1. b.time <= Tour(layout, t).time /\ b.distance <= Tour(layout, t).distance
    BY <1>5 DEF Best
  <2>2. Tour(layout, t).time \in Nat /\ Tour(layout, t).distance \in Nat
    BY TourType DEF IsOrder
  <2> HIDE DEF a, b
  <2> QED
    BY <1>7, <1>11, <2>1, <2>2
<1> QED
  BY <1>3, <1>4, <1>12

\* With fewer stops the tour is not longer.
LEMMA TourShrinks ==
    ASSUME NEW layout, NEW S, Placed(layout, S), NEW R, R \subseteq S
    PROVE  /\ Exhaustive(layout, R).time <= Exhaustive(layout, S).time
           /\ Exhaustive(layout, R).distance <= Exhaustive(layout, S).distance
<1>. DEFINE Less(Q) == /\ Exhaustive(layout, R).time <= Exhaustive(layout, Q).time
                       /\ Exhaustive(layout, R).distance <= Exhaustive(layout, Q).distance
            T == {n \in Nat : \A D \in SUBSET (S \ R) : Cardinality(D) = n => Less(R \cup D)}
<1>0. /\ \A D \in SUBSET (S \ R) : /\ IsFiniteSet(D) /\ Placed(layout, R \cup D)
                                    /\ IsFiniteSet(R \cup D) /\ Cardinality(D) \in Nat
      /\ IsFiniteSet(S \ R)
  <2>1. IsFiniteSet(S)
    BY DEF Placed
  <2>2. \A D \in SUBSET S : IsFiniteSet(D) /\ Placed(layout, D)
    BY <2>1, FS_Subset, PlacedSubset
  <2>3. \A D \in SUBSET S : Cardinality(D) \in Nat
    BY <2>2, FS_CardinalityType
  <2> QED
    BY <2>2, <2>3
<1>1. ASSUME NEW Q \in SUBSET S
      PROVE  Exhaustive(layout, Q).time \in Nat /\ Exhaustive(layout, Q).distance \in Nat
  <2>1. Placed(layout, Q)
    BY PlacedSubset
  <2>2. PICK s : Best(layout, Q, s) /\ Exhaustive(layout, Q) = Tour(layout, s)
    BY <2>1, ShortestTourIs
  <2> QED
    BY <2>1, <2>2, TourType DEF Best, IsOrder
<1>2. 0 \in T
  <2> SUFFICES ASSUME NEW D \in SUBSET (S \ R), Cardinality(D) = 0 PROVE Less(R \cup D)
    OBVIOUS
  <2>1. D = {}
    BY <1>0, FS_EmptySet
  <2>2. R \cup D = R /\ R \in SUBSET S
    BY <2>1
  <2>3. Less(R)
    BY <2>2, <1>1
  <2> QED
    BY <2>2, <2>3
<1>3. ASSUME NEW n \in T PROVE n + 1 \in T
  <2> SUFFICES ASSUME NEW D \in SUBSET (S \ R), Cardinality(D) = n + 1 PROVE Less(R \cup D)
    OBVIOUS
  <2>1. n \in Nat /\ IsFiniteSet(S \ R)
    BY <1>0
  <2>2. D # {} /\ \A x \in D : D \ {x} \in SUBSET (S \ R) /\ Cardinality(D \ {x}) = n
    BY <2>1, OneLess
  <2>3. PICK x : x \in D
    BY <2>2
  <2>4. D \ {x} \in SUBSET (S \ R) /\ Less(R \cup (D \ {x}))
    BY <2>2, <2>3
  <2>. DEFINE Q == R \cup D
              P == Q \ {x}
  <2>5. R \cup (D \ {x}) = P /\ x \in Q /\ Q \in SUBSET S /\ P \in SUBSET S
    BY <2>3
  <2>6. Placed(layout, Q) /\ Placed(layout, P) /\ IsFiniteSet(Q)
    BY <2>4, <2>5, <1>0
  <2>7. Less(P)
    BY <2>4, <2>5
  <2> HIDE DEF Q
  <2>8. PICK s : Best(layout, Q, s) /\ Exhaustive(layout, Q) = Tour(layout, s)
    BY <2>6, ShortestTourIs
  <2>9. PICK r : Best(layout, P, r) /\ Exhaustive(layout, P) = Tour(layout, r)
    BY <2>6, ShortestTourIs
  <2>10. PICK a, b \in Seq(P) : s = a \o (<<x>> \o b) /\ IsOrder(a \o b, P)
    BY <2>5, <2>6, <2>8, RemoveStop DEF Best
  <2>11. a \in Seq(Q) /\ b \in Seq(Q)
    BY <2>10, SeqMonotonic
  <2>12. /\ Tour(layout, a \o b).time <= Tour(layout, s).time
         /\ Tour(layout, a \o b).distance <= Tour(layout, s).distance
    BY <2>5, <2>6, <2>10, <2>11, Shortcut
  <2>13. /\ Tour(layout, r).time <= Tour(layout, a \o b).time
         /\ Tour(layout, r).distance <= Tour(layout, a \o b).distance
    BY <2>9, <2>10 DEF Best
  <2>14. /\ Tour(layout, a \o b).time \in Nat /\ Tour(layout, a \o b).distance \in Nat
    BY <2>6, <2>10, TourType DEF IsOrder
  <2>15. R \in SUBSET S
    OBVIOUS
  <2>16. /\ Exhaustive(layout, R).time \in Nat /\ Exhaustive(layout, R).distance \in Nat
         /\ Exhaustive(layout, Q).time \in Nat /\ Exhaustive(layout, Q).distance \in Nat
         /\ Exhaustive(layout, P).time \in Nat /\ Exhaustive(layout, P).distance \in Nat
    BY <2>5, <2>15, <1>1
  <2> HIDE DEF P
  <2>17. Less(Q)
    <3>1. /\ Exhaustive(layout, R).time <= Exhaustive(layout, P).time
          /\ Exhaustive(layout, R).distance <= Exhaustive(layout, P).distance
      BY <2>7
    <3>2. /\ Exhaustive(layout, P).time <= Tour(layout, a \o b).time
          /\ Exhaustive(layout, P).distance <= Tour(layout, a \o b).distance
      BY <2>9, <2>13
    <3>3. /\ Tour(layout, a \o b).time <= Exhaustive(layout, Q).time
          /\ Tour(layout, a \o b).distance <= Exhaustive(layout, Q).distance
      BY <2>8, <2>12
    <3>4. /\ Exhaustive(layout, R).time <= Tour(layout, a \o b).time
          /\ Exhaustive(layout, R).distance <= Tour(layout, a \o b).distance
      BY <3>1, <3>2, <2>14, <2>16, AtMostTransitive, Zenon
    <3> QED
      BY <3>3, <3>4, <2>14, <2>16, AtMostTransitive, Zenon
  <2> QED
    BY <2>17 DEF Q
<1>4. T = Nat
  <2> HIDE DEF Less
  <2> QED
    BY <1>2, <1>3, Induction
<1>5. S \ R \in SUBSET (S \ R) /\ R \cup (S \ R) = S /\ Cardinality(S \ R) \in Nat
  BY <1>0
<1> QED
  BY <1>4, <1>5
===============================================================================
