-------------------------- MODULE OfferCache_proofs --------------------------
(***************************************************************************)
(* Proofs about OfferCache, for any comparisons, references and stores.    *)
(*                                                                         *)
(* A row that a session has written stays locked until the session ends,   *)
(* the question to the supplier included: so a reference is asked for by   *)
(* one comparison at a time, and the answers to successive questions are   *)
(* written in the order of the questions.  CacheInv says so for each       *)
(* pending row; with TypeOK it is inductive.                               *)
(***************************************************************************)
EXTENDS OfferCache, TLAPS

Inv == TypeOK /\ CacheInv

TablesOK ==
    /\ row \in [Keys -> Rows]
    /\ pending \in [Comparisons -> [Keys -> Rows \cup {None}]]
    /\ lock \in [Keys -> Comparisons \cup {None}]

LocalOK ==
    /\ pc \in [Comparisons -> Phases]
    /\ route \in [Comparisons -> Routes \cup {<<>>}]
    /\ store \in [Comparisons -> Nat]
    /\ todo \in [Comparisons -> SUBSET Keys]
    /\ at \in [Comparisons -> Keys \cup {None}]
    /\ \A r \in Comparisons : pc[r] \in {"insert", "update"} => at[r] \in Keys
    /\ won \in [Comparisons -> SUBSET Keys]
    /\ written \in [Comparisons -> BOOLEAN]
    /\ question \in [Comparisons -> Nat]
    /\ asked \in Nat /\ begun \in Nat /\ lapsed \subseteq Nat

USE DEF tables, local, counts, Phases

-----------------------------------------------------------------------------
(* Values *)

LEMMA TypeParts == /\ TypeOK <=> TablesOK /\ LocalOK
                   /\ TypeOK' <=> TablesOK' /\ LocalOK'
BY DEF TypeOK, TablesOK, LocalOK

\* What a session sees is a row.
LEMMA SeenTyped ==
    ASSUME TablesOK, NEW r \in Comparisons, NEW k \in Keys
    PROVE  Seen(r, k) \in Rows
BY DEF TablesOK, Seen

LEMMA TablesUnchanged == TablesOK /\ UNCHANGED tables => TablesOK'
BY DEF TablesOK

LEMMA CommitTyped ==
    ASSUME TablesOK, NEW r \in Comparisons, Commit(r)
    PROVE  TablesOK'
<1>1. row' \in [Keys -> Rows]
    BY SeenTyped DEF Commit
<1> QED
    BY <1>1 DEF TablesOK, Commit

LEMMA RollbackTyped ==
    ASSUME TablesOK, NEW r \in Comparisons, Rollback(r)
    PROVE  TablesOK'
BY DEF TablesOK, Rollback

LEMMA TakeRowTyped ==
    ASSUME TablesOK, NEW r \in Comparisons, NEW k \in Keys, NEW e \in Rows, TakeRow(r, k, e)
    PROVE  TablesOK'
<1>1. [e EXCEPT !.exists = TRUE, !.lease = TRUE] \in Rows
    BY DEF Rows
<1> QED
    BY <1>1 DEF TablesOK, TakeRow

\* put_offer and the release of the lease keep a row a row.
LEMMA SettledTyped ==
    ASSUME NEW e \in Rows, NEW n \in Nat, NEW a
    PROVE  Settled(e, n, a) \in Rows
BY DEF Settled, Rows

LEMMA OnwardTyped ==
    ASSUME LocalOK, NEW r \in Comparisons, NEW k \in Keys, NEW taken \in SUBSET Keys,
           Onward(r, k, taken)
    PROVE  LocalOK'
BY DEF LocalOK, Onward

\* Every step leaves values of their types.
LEMMA TypeStep == Inv /\ [Next]_vars => TypeOK'
<1> SUFFICES ASSUME Inv, [Next]_vars
             PROVE  TablesOK' /\ LocalOK'
    BY TypeParts
<1>t. TablesOK /\ LocalOK
    BY TypeParts DEF Inv
<1>1. ASSUME NEW r \in Comparisons, Begin(r)
      PROVE  TablesOK' /\ LocalOK'
    BY <1>t, <1>1, TablesUnchanged DEF LocalOK, Begin
<1>2. ASSUME NEW r \in Comparisons, Plan(r)
      PROVE  TablesOK' /\ LocalOK'
    <2>1. route[r][store[r]] \subseteq Keys
        BY <1>t, <1>2, RoutesAssumption DEF LocalOK, Plan
    <2> DEFINE stale == {k \in route[r][store[r]] : NeedsRefresh(Seen(r, k))}
    <2>2. stale \in SUBSET Keys
        BY <2>1
    <2>3. /\ todo' = [todo EXCEPT ![r] = stale]
          /\ pc' = [pc EXCEPT ![r] = IF stale = {} THEN "serve" ELSE "acquire"]
          /\ won' = [won EXCEPT ![r] = {}]
          /\ UNCHANGED <<tables, route, store, at, written, question, counts>>
        BY <1>2 DEF Plan
    <2> HIDE DEF stale
    <2> QED
        BY <1>t, <2>2, <2>3, TablesUnchanged DEF LocalOK
<1>3. ASSUME NEW r \in Comparisons, ReadLease(r)
      PROVE  TablesOK' /\ LocalOK'
    <2>1. PICK k \in todo[r] :
              IF Seen(r, k).exists /\ Seen(r, k).lease
              THEN Onward(r, k, won[r])
              ELSE /\ at' = [at EXCEPT ![r] = k]
                   /\ pc' = [pc EXCEPT ![r] = IF Seen(r, k).exists THEN "update" ELSE "insert"]
                   /\ UNCHANGED <<route, store, todo, won, written, question, counts>>
        BY <1>3 DEF ReadLease
    <2>2. k \in Keys /\ won[r] \in SUBSET Keys
        BY <1>t DEF LocalOK
    <2>3. TablesOK'
        BY <1>t, <1>3, TablesUnchanged DEF ReadLease
    <2>4. CASE Onward(r, k, won[r])
        BY <1>t, <2>2, <2>3, <2>4, OnwardTyped
    <2>5. CASE ~ (Seen(r, k).exists /\ Seen(r, k).lease)
        BY <1>t, <2>1, <2>2, <2>3, <2>5 DEF LocalOK
    <2> QED
        BY <2>1, <2>4, <2>5
<1>4. ASSUME NEW r \in Comparisons, UpdateLease(r)
      PROVE  TablesOK' /\ LocalOK'
    <2>1. at[r] \in Keys /\ won[r] \cup {at[r]} \in SUBSET Keys
        BY <1>t, <1>4 DEF LocalOK, UpdateLease
    <2>2. Seen(r, at[r]) \in Rows
        BY <1>t, <2>1, SeenTyped
    <2> QED
        BY <1>t, <1>4, <2>1, <2>2, TakeRowTyped, OnwardTyped DEF UpdateLease
<1>5. ASSUME NEW r \in Comparisons, InsertLease(r)
      PROVE  TablesOK' /\ LocalOK'
    <2>1. at[r] \in Keys /\ won[r] \cup {at[r]} \in SUBSET Keys
        BY <1>t, <1>5 DEF LocalOK, InsertLease
    <2>2. NoRow \in Rows
        BY DEF NoRow, Rows
    <2> QED
        BY <1>t, <1>5, <2>1, <2>2, TakeRowTyped, OnwardTyped DEF InsertLease
<1>6. ASSUME NEW r \in Comparisons, InsertLeaseFails(r)
      PROVE  TablesOK' /\ LocalOK'
    BY <1>t, <1>6, TablesUnchanged DEF LocalOK, InsertLeaseFails
<1>7. ASSUME NEW r \in Comparisons, Query(r)
      PROVE  TablesOK' /\ LocalOK'
    BY <1>t, <1>7, TablesUnchanged DEF LocalOK, Query
<1>8. ASSUME NEW r \in Comparisons, Store(r)
      PROVE  TablesOK' /\ LocalOK'
    <2>1. PICK answer \in [won[r] -> Answers] :
            /\ pending' = [pending EXCEPT ![r] =
                 [k \in Keys |-> IF k \in won[r] THEN Settled(@[k], question[r], answer[k])
                                                 ELSE @[k]]]
            /\ written' = [written EXCEPT ![r] = @ \/ \E k \in won[r] : answer[k] # "nothing"]
        BY <1>8 DEF Store
    <2>2. ASSUME NEW k \in Keys
          PROVE  (IF k \in won[r] THEN Settled(pending[r][k], question[r], answer[k])
                                  ELSE pending[r][k]) \in Rows \cup {None}
        <3>1. CASE k \in won[r]
            <4>1. pending[r][k] \in Rows /\ question[r] \in Nat
                BY <1>t, <3>1 DEF Inv, CacheInv, QuestionInv, TablesOK, LocalOK
            <4> QED
                BY <3>1, <4>1, SettledTyped
        <3>2. CASE k \notin won[r]
            BY <1>t, <3>2 DEF TablesOK
        <3> QED
            BY <3>1, <3>2
    <2>3. TablesOK'
        BY <1>t, <1>8, <2>1, <2>2 DEF TablesOK, Store
    <2>4. written' \in [Comparisons -> BOOLEAN]
        BY <1>t, <2>1 DEF LocalOK
    <2>5. LocalOK'
        BY <1>t, <1>8, <2>4 DEF LocalOK, Store
    <2> QED
        BY <2>3, <2>5
<1>9. ASSUME NEW r \in Comparisons, NextStore(r)
      PROVE  TablesOK' /\ LocalOK'
    BY <1>t, <1>9, TablesUnchanged DEF LocalOK, NextStore
<1>10. ASSUME NEW r \in Comparisons, Finish(r)
      PROVE  TablesOK' /\ LocalOK'
    <2>1. TablesOK'
        BY <1>t, <1>10, CommitTyped, TablesUnchanged DEF Finish
    <2>2. LocalOK'
        BY <1>t, <1>10 DEF LocalOK, Finish
    <2> QED
        BY <2>1, <2>2
<1>11. ASSUME NEW r \in Comparisons, Unexpected(r)
      PROVE  TablesOK' /\ LocalOK'
    BY <1>t, <1>11, TablesUnchanged DEF LocalOK, Unexpected, GiveUp
<1>12. ASSUME NEW r \in Comparisons, End(r)
      PROVE  TablesOK' /\ LocalOK'
    <2>1. TablesOK'
        BY <1>t, <1>12, CommitTyped, RollbackTyped DEF End
    <2>2. LocalOK'
        BY <1>t, <1>12 DEF LocalOK, End, Leave
    <2> QED
        BY <2>1, <2>2
<1>13. ASSUME NEW r \in Comparisons, Dies(r)
      PROVE  TablesOK' /\ LocalOK'
    BY <1>t, <1>13, RollbackTyped DEF LocalOK, Dies, Leave
<1>14. ASSUME NEW r \in Comparisons, Aborted(r)
      PROVE  TablesOK' /\ LocalOK'
    <2>1. TablesOK'
        BY <1>t, <1>14, RollbackTyped, TablesUnchanged DEF Aborted
    <2>2. LocalOK'
        BY <1>t, <1>14 DEF LocalOK, Aborted, GiveUp
    <2> QED
        BY <2>1, <2>2
<1>15. ASSUME NEW k \in Keys, LeaseLapses(k)
      PROVE  TablesOK' /\ LocalOK'
    BY <1>t, <1>15 DEF TablesOK, LocalOK, LeaseLapses, Rows
<1>16. ASSUME NEW k \in Keys, NEW n \in {row[k].price, row[k].stock} \ {0}, Lapse(n)
      PROVE  TablesOK' /\ LocalOK'
    <2>1. n \in Nat
        BY <1>t DEF TablesOK, Rows
    <2> QED
        BY <1>t, <1>16, <2>1, TablesUnchanged DEF LocalOK, Lapse
<1>17. CASE UNCHANGED vars
    BY <1>t, <1>17 DEF TablesOK, LocalOK, vars
<1> QED
    BY <1>1, <1>2, <1>3, <1>4, <1>5, <1>6, <1>7, <1>8, <1>9, <1>10, <1>11, <1>12,
       <1>13, <1>14, <1>15, <1>16, <1>17 DEF Next, Step, Acquire

-----------------------------------------------------------------------------
(* The invariant *)

\* A step of r that touches no row, drops references from those it has won, and is
\* not a question.
LEMMA LocalStep ==
    ASSUME Inv, NEW r \in Comparisons,
           UNCHANGED <<row, pending, lock, asked>>,
           pc' \in [Comparisons -> Phases], won' \in [Comparisons -> SUBSET Keys],
           question' \in [Comparisons -> Nat],
           \A q \in Comparisons \ {r} :
               pc'[q] = pc[q] /\ won'[q] = won[q] /\ question'[q] = question[q],
           won'[r] \subseteq won[r],
           question'[r] \in {question[r], 0},
           pc'[r] # "await",
           pc'[r] \in {"idle", "plan", "serve", "rest"} => won'[r] = {},
           pc'[r] = "rest" \/ (won'[r] = won[r] /\ pc[r] # "rest")
    PROVE  CacheInv'
<1>c. CacheInv /\ asked \in Nat
    BY TypeParts DEF Inv, LocalOK
<1>1. \A k \in Keys : RowInv(k)'
    BY <1>c DEF CacheInv, RowInv
<1>2. ASSUME NEW q \in Comparisons, NEW k \in Keys
      PROVE  PendingInv(q, k)'
    <2>1. PendingInv(q, k)
        BY <1>c DEF CacheInv
    <2>2. CASE q = r
        BY <2>1, <2>2 DEF PendingInv
    <2>3. CASE q # r
        BY <2>1, <2>3 DEF PendingInv
    <2> QED
        BY <2>2, <2>3
<1>3. ASSUME NEW q \in Comparisons
      PROVE  QuestionInv(q)'
    <2>1. QuestionInv(q)
        BY <1>c DEF CacheInv
    <2>2. CASE q = r
        BY <1>c, <2>1, <2>2 DEF QuestionInv
    <2>3. CASE q # r
        BY <2>1, <2>3 DEF QuestionInv
    <2> QED
        BY <2>2, <2>3
<1> QED
    BY <1>1, <1>2, <1>3 DEF CacheInv

\* A lease is taken on a row nobody else has pending.
LEMMA TakeStep ==
    ASSUME Inv, NEW r \in Comparisons, NEW k \in Keys, NEW e \in Rows,
           TakeRow(r, k, e), Onward(r, k, won[r] \cup {k}),
           pc[r] \in {"insert", "update"},
           e = Seen(r, k) \/ (e = NoRow /\ ~ row[k].exists)
    PROVE  CacheInv'
<1>c. CacheInv /\ TablesOK /\ LocalOK
    BY TypeParts DEF Inv
<1> DEFINE new == [e EXCEPT !.exists = TRUE, !.lease = TRUE]
<1>n. /\ new \in Rows /\ new # None
      /\ new.exists /\ new.price = e.price /\ new.stock = e.stock
    BY NoneAssumption DEF Rows
<1>p. pending' = [pending EXCEPT ![r][k] = new] /\ lock' = [lock EXCEPT ![k] = r] /\ row' = row
    BY DEF TakeRow
<1>e. /\ e.price \in row[k].price .. asked /\ e.stock <= asked
      /\ e.stock = 0 \/ e.stock >= row[k].stock
    <2>1. row[k] \in Rows /\ RowInv(k) /\ asked \in Nat
        BY <1>c DEF CacheInv, TablesOK, LocalOK
    <2>2. PendingInv(r, k)
        BY <1>c DEF CacheInv
    <2> QED
        BY <2>1, <2>2 DEF Seen, NoRow, Rows, RowInv, PendingInv
<1> HIDE DEF new
<1>w. /\ won' = [won EXCEPT ![r] = won[r] \cup {k}]
      /\ pc'[r] \in {"acquire", "query"}
      /\ \A q \in Comparisons \ {r} : pc'[q] = pc[q]
      /\ UNCHANGED <<question, asked>>
    BY <1>c DEF Onward, LocalOK
<1>1. \A j \in Keys : RowInv(j)'
    BY <1>c, <1>p, <1>w DEF CacheInv, RowInv
<1>2. ASSUME NEW q \in Comparisons, NEW j \in Keys
      PROVE  PendingInv(q, j)'
    <2>1. PendingInv(q, j)
        BY <1>c DEF CacheInv
    <2>2. CASE q = r /\ j = k
        <3>1. pending'[q][j] = new /\ lock'[j] = r /\ k \in won'[r]
            BY <1>c, <1>p, <1>w, <2>2 DEF TablesOK, LocalOK
        <3> QED
            BY <1>e, <1>n, <1>p, <1>w, <2>2, <3>1 DEF PendingInv
    <2>3. CASE q = r /\ j # k
        <3>1. pending'[q][j] = pending[q][j] /\ lock'[j] = lock[j] /\ won[q] \subseteq won'[q]
            BY <1>c, <1>p, <1>w, <2>3 DEF TablesOK, LocalOK
        <3>2. pending[q][j] # None /\ pending[q][j].lease => j \in won[q]
            BY <2>1, <2>3 DEF PendingInv
        <3> QED
            BY <1>p, <1>w, <2>1, <3>1, <3>2 DEF PendingInv
    <2>4. CASE q # r /\ j = k
        <3>1. lock[k] \in {None, r}
            BY DEF TakeRow
        <3>2. pending[q][j] = None
            BY <2>1, <2>4, <3>1, NoneAssumption DEF PendingInv
        <3>3. pending'[q][j] = None
            BY <1>c, <1>p, <2>4, <3>2 DEF TablesOK
        <3> QED
            BY <3>3 DEF PendingInv
    <2>5. CASE q # r /\ j # k
        <3>1. pending'[q][j] = pending[q][j] /\ lock'[j] = lock[j] /\ won'[q] = won[q]
            BY <1>c, <1>p, <1>w, <2>5 DEF TablesOK, LocalOK
        <3> QED
            BY <1>p, <1>w, <2>1, <2>5, <3>1 DEF PendingInv
    <2> QED
        BY <2>2, <2>3, <2>4, <2>5
<1>3. ASSUME NEW q \in Comparisons
      PROVE  QuestionInv(q)'
    <2>1. QuestionInv(q)
        BY <1>c DEF CacheInv
    <2>2. CASE q = r
        <3>1. \A j \in won'[q] : pending'[q][j] # None
            BY <1>c, <1>n, <1>p, <1>w, <2>1, <2>2 DEF QuestionInv, TablesOK, LocalOK
        <3> QED
            BY <1>w, <2>1, <2>2, <3>1 DEF QuestionInv
    <2>3. CASE q # r
        <3>1. pending'[q] = pending[q] /\ won'[q] = won[q]
            BY <1>c, <1>p, <1>w, <2>3 DEF TablesOK, LocalOK
        <3> QED
            BY <1>p, <1>w, <2>1, <2>3, <3>1 DEF QuestionInv
    <2> QED
        BY <2>2, <2>3
<1> QED
    BY <1>1, <1>2, <1>3 DEF CacheInv

\* A session that commits writes rows of its own only; one that rolls back, none.
LEMMA ReleaseStep ==
    ASSUME Inv, NEW r \in Comparisons, Commit(r) \/ Rollback(r), UNCHANGED asked,
           won' \in [Comparisons -> SUBSET Keys], won'[r] = {}, pc'[r] # "await",
           question'[r] \in {question[r], 0},
           \A q \in Comparisons \ {r} :
               pc'[q] = pc[q] /\ won'[q] = won[q] /\ question'[q] = question[q]
    PROVE  CacheInv'
<1>c. CacheInv /\ TablesOK /\ LocalOK
    BY TypeParts DEF Inv
<1>r. ASSUME NEW k \in Keys
      PROVE  row'[k] \in {row[k], Seen(r, k)}
    BY <1>c DEF Commit, Rollback
<1>p. /\ \A k \in Keys : pending'[r][k] = None
      /\ \A q \in Comparisons \ {r} : pending'[q] = pending[q]
    BY <1>c DEF Commit, Rollback, TablesOK
<1>l. \A k \in Keys : lock[k] # r => lock'[k] = lock[k]
    BY <1>c DEF Commit, Rollback, TablesOK
<1>1. ASSUME NEW k \in Keys
      PROVE  RowInv(k)'
    <2>1. RowInv(k) /\ PendingInv(r, k) /\ row[k] \in Rows /\ asked \in Nat
        BY <1>c DEF CacheInv, TablesOK, LocalOK
    <2>2. Seen(r, k).price <= asked /\ Seen(r, k).stock <= asked
        BY <2>1 DEF RowInv, PendingInv, Seen, Rows
    <2>3. ~ Seen(r, k).exists => Seen(r, k).price = 0
        BY <2>1 DEF RowInv, PendingInv, Seen
    <2> QED
        BY <1>r, <2>1, <2>2, <2>3 DEF RowInv
<1>2. ASSUME NEW q \in Comparisons, NEW k \in Keys
      PROVE  PendingInv(q, k)'
    <2>1. PendingInv(q, k) /\ PendingInv(r, k)
        BY <1>c DEF CacheInv
    <2>2. CASE q = r \/ pending[q][k] = None
        <3>1. pending'[q][k] = None
            BY <1>p, <2>2
        <3> QED
            BY <3>1 DEF PendingInv
    <2>3. CASE q # r /\ pending[q][k] # None
        <3>1. lock[k] = q
            BY <2>1, <2>3 DEF PendingInv
        <3>2. pending[r][k] = None
            BY <2>1, <2>3, <3>1 DEF PendingInv
        <3>3. row'[k] = row[k] /\ lock'[k] = q /\ pending'[q][k] = pending[q][k]
            BY <1>r, <1>p, <1>l, <2>3, <3>1, <3>2 DEF Seen
        <3> QED
            BY <2>1, <2>3, <3>3 DEF PendingInv
    <2> QED
        BY <2>2, <2>3
<1>3. ASSUME NEW q \in Comparisons
      PROVE  QuestionInv(q)'
    <2>1. QuestionInv(q)
        BY <1>c DEF CacheInv
    <2>2. CASE q = r
        BY <1>c, <2>1, <2>2 DEF QuestionInv, LocalOK
    <2>3. CASE q # r
        <3>1. ASSUME NEW k \in won[q]
              PROVE  row'[k] = row[k]
            <4>1. k \in Keys /\ pending[q][k] # None
                BY <1>c, <2>1 DEF QuestionInv, LocalOK
            <4>2. PendingInv(q, k) /\ PendingInv(r, k)
                BY <1>c, <4>1 DEF CacheInv
            <4>3. pending[r][k] = None
                BY <2>3, <4>1, <4>2 DEF PendingInv
            <4> QED
                BY <1>r, <4>1, <4>3 DEF Seen
        <3> QED
            BY <1>p, <2>1, <2>3, <3>1 DEF QuestionInv
    <2> QED
        BY <2>2, <2>3
<1> QED
    BY <1>1, <1>2, <1>3 DEF CacheInv

\* A question is younger than everything there is.
LEMMA QueryStep ==
    ASSUME Inv, NEW r \in Comparisons, Query(r)
    PROVE  CacheInv'
<1>c. CacheInv /\ TablesOK /\ LocalOK
    BY TypeParts DEF Inv
<1>q. /\ asked' = asked + 1 /\ asked \in Nat
      /\ question'[r] = asked + 1 /\ pc'[r] = "await" /\ pc[r] = "query"
      /\ \A q \in Comparisons \ {r} : question'[q] = question[q] /\ pc'[q] = pc[q]
      /\ UNCHANGED <<row, pending, lock, won>>
    BY <1>c DEF Query, LocalOK
<1>1. ASSUME NEW k \in Keys
      PROVE  RowInv(k)'
    <2>1. RowInv(k) /\ row[k] \in Rows
        BY <1>c DEF CacheInv, TablesOK
    <2> QED
        BY <1>q, <2>1 DEF RowInv, Rows
<1>p. ASSUME NEW q \in Comparisons, NEW k \in Keys, pending[q][k] # None
      PROVE  pending[q][k].price \in Nat /\ pending[q][k].stock \in Nat /\ row[k].price \in Nat
    BY <1>c, <1>p DEF TablesOK, Rows
<1>2. ASSUME NEW q \in Comparisons, NEW k \in Keys
      PROVE  PendingInv(q, k)'
    <2>1. PendingInv(q, k)
        BY <1>c DEF CacheInv
    <2>2. CASE pending[q][k] = None
        BY <1>q, <2>2 DEF PendingInv
    <2>3. CASE pending[q][k] # None
        <3>1. pc'[q] = "rest" <=> pc[q] = "rest"
            BY <1>q
        <3> QED
            BY <1>q, <1>p, <2>1, <2>3, <3>1 DEF PendingInv
    <2> QED
        BY <2>2, <2>3
<1>3. ASSUME NEW q \in Comparisons
      PROVE  QuestionInv(q)'
    <2>1. QuestionInv(q) /\ question[q] \in Nat /\ won[q] \subseteq Keys
        BY <1>c DEF CacheInv, LocalOK
    <2>2. CASE q = r
        <3>1. ASSUME NEW k \in won[r]
              PROVE  /\ pending[r][k] # None
                     /\ pending[r][k].price <= asked + 1 /\ pending[r][k].stock <= asked + 1
                     /\ row[k].stock <= asked + 1
            <4>1. k \in Keys /\ pending[r][k] # None
                BY <2>1, <2>2 DEF QuestionInv
            <4>2. PendingInv(r, k) /\ RowInv(k) /\ row[k].stock \in Nat
                BY <1>c, <4>1 DEF CacheInv, TablesOK, Rows
            <4> QED
                BY <1>q, <1>p, <4>1, <4>2 DEF PendingInv, RowInv
        <3> QED
            BY <1>q, <2>2, <3>1 DEF QuestionInv
    <2>3. CASE q # r
        BY <1>q, <2>1, <2>3 DEF QuestionInv
    <2> QED
        BY <2>2, <2>3
<1> QED
    BY <1>1, <1>2, <1>3 DEF CacheInv

\* The answer is written on rows that are not younger than its question.
LEMMA StoreStep ==
    ASSUME Inv, NEW r \in Comparisons, Store(r)
    PROVE  CacheInv'
<1>c. CacheInv /\ TablesOK /\ LocalOK
    BY TypeParts DEF Inv
<1>a. PICK answer \in [won[r] -> Answers] :
          pending' = [pending EXCEPT ![r] =
              [k \in Keys |-> IF k \in won[r] THEN Settled(@[k], question[r], answer[k])
                                              ELSE @[k]]]
    BY DEF Store
<1>p. /\ \A k \in Keys : pending'[r][k] =
             IF k \in won[r] THEN Settled(pending[r][k], question[r], answer[k])
                             ELSE pending[r][k]
      /\ \A q \in Comparisons \ {r} : pending'[q] = pending[q]
    BY <1>c, <1>a DEF TablesOK
<1>q. /\ pc[r] = "await" /\ pc'[r] = "serve" /\ won'[r] = {} /\ question'[r] = 0
      /\ \A q \in Comparisons \ {r} :
            pc'[q] = pc[q] /\ won'[q] = won[q] /\ question'[q] = question[q]
      /\ UNCHANGED <<row, lock, asked>> /\ asked \in Nat
    BY <1>c DEF Store, LocalOK
<1>1. \A k \in Keys : RowInv(k)'
    BY <1>c, <1>q DEF CacheInv, RowInv
<1>2. ASSUME NEW q \in Comparisons, NEW k \in Keys
      PROVE  PendingInv(q, k)'
    <2>1. PendingInv(q, k) /\ QuestionInv(r) /\ RowInv(k) /\ row[k] \in Rows
        BY <1>c DEF CacheInv, TablesOK
    <2>2. CASE q # r
        BY <1>p, <1>q, <2>1, <2>2 DEF PendingInv
    <2>3. CASE q = r /\ k \notin won[r]
        BY <1>p, <1>q, <2>1, <2>3 DEF PendingInv
    <2>4. CASE q = r /\ k \in won[r]
        <3> DEFINE e == pending[r][k]
                   f == Settled(e, question[r], answer[k])
        <3>1. e \in Rows /\ question[r] \in Nat
            BY <1>c, <2>1, <2>4 DEF QuestionInv, TablesOK, LocalOK
        <3>2. e # None /\ e.price <= question[r] /\ e.stock <= question[r] /\ question[r] <= asked
            BY <1>q, <2>1, <2>4 DEF QuestionInv
        <3>3. /\ f.exists = e.exists /\ ~ f.lease
              /\ f.price \in {e.price, question[r]}
              /\ f.stock \in {e.stock, question[r], 0}
            BY <3>1 DEF Settled, Rows
        <3>4. /\ e.exists /\ lock[k] = r
              /\ e.price >= row[k].price
              /\ e.stock = 0 \/ e.stock >= row[k].stock
            BY <2>1, <2>4, <3>2 DEF PendingInv
        <3>5. e.price \in Nat /\ e.stock \in Nat /\ row[k].price \in Nat /\ row[k].stock \in Nat
            BY <2>1, <3>1 DEF Rows
        <3>6. question[r] >= row[k].stock /\ question[r] >= row[k].price
            BY <1>q, <2>1, <2>4, <3>1, <3>2, <3>4, <3>5 DEF QuestionInv
        <3>7. f.price \in row[k].price .. asked /\ f.stock <= asked
            BY <1>q, <3>1, <3>2, <3>3, <3>4, <3>5, <3>6
        <3>8. f.stock = 0 \/ f.stock >= row[k].stock
            BY <3>3, <3>4, <3>6
        <3>9. pending'[q][k] = f
            BY <1>p, <2>4
        <3> HIDE DEF e, f
        <3> QED
            BY <1>q, <2>4, <3>3, <3>4, <3>7, <3>8, <3>9 DEF PendingInv
    <2> QED
        BY <2>2, <2>3, <2>4
<1>3. ASSUME NEW q \in Comparisons
      PROVE  QuestionInv(q)'
    <2>1. QuestionInv(q)
        BY <1>c DEF CacheInv
    <2>2. CASE q = r
        BY <1>q, <2>2 DEF QuestionInv
    <2>3. CASE q # r
        BY <1>p, <1>q, <2>1, <2>3 DEF QuestionInv
    <2> QED
        BY <2>2, <2>3
<1> QED
    BY <1>1, <1>2, <1>3 DEF CacheInv

LEMMA LeaseLapseStep ==
    ASSUME Inv, NEW k \in Keys, LeaseLapses(k)
    PROVE  CacheInv'
<1>c. CacheInv /\ TablesOK
    BY TypeParts DEF Inv
<1>1. /\ \A j \in Keys : /\ row'[j].price = row[j].price /\ row'[j].stock = row[j].stock
                          /\ row'[j].exists = row[j].exists
      /\ UNCHANGED <<pending, lock, pc, won, question, asked>>
    BY <1>c DEF LeaseLapses, TablesOK, Rows
<1>2. ASSUME NEW j \in Keys
      PROVE  RowInv(j)'
    BY <1>c, <1>1 DEF CacheInv, RowInv
<1>3. ASSUME NEW q \in Comparisons, NEW j \in Keys
      PROVE  PendingInv(q, j)'
    BY <1>c, <1>1 DEF CacheInv, PendingInv
<1>4. ASSUME NEW q \in Comparisons
      PROVE  QuestionInv(q)'
    <2>1. QuestionInv(q) /\ won[q] \subseteq Keys
        BY <1>c, TypeParts DEF CacheInv, Inv, LocalOK
    <2> QED
        BY <1>1, <2>1 DEF QuestionInv
<1> QED
    BY <1>2, <1>3, <1>4 DEF CacheInv

\* The invariant through every step.
LEMMA InvStep == Inv /\ [Next]_vars => CacheInv'
<1> SUFFICES ASSUME Inv, [Next]_vars
             PROVE  CacheInv'
    OBVIOUS
<1>c. CacheInv /\ TablesOK /\ LocalOK
    BY TypeParts DEF Inv
<1>t. LocalOK'
    BY TypeStep, TypeParts
<1>u. /\ pc' \in [Comparisons -> Phases] /\ won' \in [Comparisons -> SUBSET Keys]
      /\ question' \in [Comparisons -> Nat]
    BY <1>t DEF LocalOK
<1>w. \A r \in Comparisons : pc[r] \in {"idle", "plan", "serve", "rest"} => won[r] = {}
    BY <1>c DEF CacheInv, QuestionInv
<1>1. ASSUME NEW r \in Comparisons, Begin(r)
      PROVE  CacheInv'
    BY <1>c, <1>u, <1>w, <1>1, LocalStep DEF Begin, LocalOK
<1>2. ASSUME NEW r \in Comparisons, Plan(r)
      PROVE  CacheInv'
    <2>1. /\ pc[r] = "plan" /\ pc'[r] \in {"serve", "acquire"} /\ won'[r] = {}
          /\ \A q \in Comparisons \ {r} : pc'[q] = pc[q] /\ won'[q] = won[q]
          /\ UNCHANGED <<row, pending, lock, asked, question>>
        BY <1>c, <1>2 DEF Plan, LocalOK
    <2> QED
        BY <1>c, <1>u, <1>w, <2>1, LocalStep
<1>3. ASSUME NEW r \in Comparisons, ReadLease(r)
      PROVE  CacheInv'
    <2>1. /\ pc[r] = "acquire" /\ pc'[r] \in {"serve", "acquire", "query", "update", "insert"}
          /\ won'[r] = won[r] /\ (pc'[r] = "serve" => won[r] = {})
          /\ \A q \in Comparisons \ {r} : pc'[q] = pc[q] /\ won'[q] = won[q]
          /\ UNCHANGED <<row, pending, lock, asked, question>>
        BY <1>c, <1>3 DEF ReadLease, Onward, LocalOK
    <2> QED
        BY <1>c, <1>u, <2>1, LocalStep
<1>4. ASSUME NEW r \in Comparisons, UpdateLease(r)
      PROVE  CacheInv'
    <2>1. at[r] \in Keys
        BY <1>c, <1>4 DEF LocalOK, UpdateLease
    <2>2. Seen(r, at[r]) \in Rows
        BY <1>c, <2>1, SeenTyped
    <2> QED
        BY <1>4, <2>1, <2>2, TakeStep DEF UpdateLease
<1>5. ASSUME NEW r \in Comparisons, InsertLease(r)
      PROVE  CacheInv'
    <2>1. at[r] \in Keys
        BY <1>c, <1>5 DEF LocalOK, InsertLease
    <2>2. NoRow \in Rows
        BY DEF NoRow, Rows
    <2> QED
        BY <1>5, <2>1, <2>2, TakeStep DEF InsertLease
<1>6. ASSUME NEW r \in Comparisons, InsertLeaseFails(r)
      PROVE  CacheInv'
    BY <1>c, <1>u, <1>6, LocalStep DEF InsertLeaseFails, LocalOK
<1>7. ASSUME NEW r \in Comparisons, Query(r)
      PROVE  CacheInv'
    BY <1>7, QueryStep
<1>8. ASSUME NEW r \in Comparisons, Store(r)
      PROVE  CacheInv'
    BY <1>8, StoreStep
<1>9. ASSUME NEW r \in Comparisons, NextStore(r)
      PROVE  CacheInv'
    BY <1>c, <1>u, <1>w, <1>9, LocalStep DEF NextStore, LocalOK
<1>10. ASSUME NEW r \in Comparisons, Finish(r)
      PROVE  CacheInv'
    <2>1. /\ pc[r] = "serve" /\ pc'[r] = "rest" /\ won'[r] = {}
          /\ \A q \in Comparisons \ {r} : pc'[q] = pc[q]
          /\ UNCHANGED <<won, question, asked>>
        BY <1>c, <1>w, <1>10 DEF Finish, LocalOK
    <2>2. CASE Commit(r)
        BY <1>u, <2>1, <2>2, ReleaseStep
    <2>3. CASE UNCHANGED tables
        BY <1>u, <1>w, <2>1, <2>3, LocalStep
    <2> QED
        BY <1>10, <2>2, <2>3 DEF Finish
<1>11. ASSUME NEW r \in Comparisons, Unexpected(r)
      PROVE  CacheInv'
    <2>1. /\ pc'[r] = "rest" /\ won'[r] = {} /\ question'[r] = 0
          /\ \A q \in Comparisons \ {r} :
                pc'[q] = pc[q] /\ won'[q] = won[q] /\ question'[q] = question[q]
          /\ UNCHANGED <<row, pending, lock, asked>>
        BY <1>c, <1>11 DEF Unexpected, GiveUp, LocalOK
    <2> QED
        BY <1>u, <2>1, LocalStep
<1>12. ASSUME NEW r \in Comparisons, End(r)
      PROVE  CacheInv'
    <2>1. /\ pc'[r] = "idle" /\ won'[r] = {} /\ question'[r] = 0
          /\ \A q \in Comparisons \ {r} :
                pc'[q] = pc[q] /\ won'[q] = won[q] /\ question'[q] = question[q]
          /\ UNCHANGED asked
        BY <1>c, <1>12 DEF End, Leave, LocalOK
    <2> QED
        BY <1>u, <1>12, <2>1, ReleaseStep DEF End
<1>13. ASSUME NEW r \in Comparisons, Dies(r)
      PROVE  CacheInv'
    <2>1. /\ pc'[r] = "idle" /\ won'[r] = {} /\ question'[r] = 0
          /\ \A q \in Comparisons \ {r} :
                pc'[q] = pc[q] /\ won'[q] = won[q] /\ question'[q] = question[q]
          /\ UNCHANGED asked
        BY <1>c, <1>13 DEF Dies, Leave, LocalOK
    <2> QED
        BY <1>u, <1>13, <2>1, ReleaseStep DEF Dies
<1>14. ASSUME NEW r \in Comparisons, Aborted(r)
      PROVE  CacheInv'
    <2>1. /\ pc'[r] = "rest" /\ won'[r] = {} /\ question'[r] = 0
          /\ \A q \in Comparisons \ {r} :
                pc'[q] = pc[q] /\ won'[q] = won[q] /\ question'[q] = question[q]
          /\ UNCHANGED asked
        BY <1>c, <1>14 DEF Aborted, GiveUp, LocalOK
    <2>2. CASE Rollback(r)
        BY <1>u, <2>1, <2>2, ReleaseStep
    <2>3. CASE UNCHANGED tables
        BY <1>u, <2>1, <2>3, LocalStep
    <2> QED
        BY <1>14, <2>2, <2>3 DEF Aborted
<1>15. ASSUME NEW k \in Keys, LeaseLapses(k)
      PROVE  CacheInv'
    BY <1>15, LeaseLapseStep
<1>16. ASSUME NEW k \in Keys, NEW n \in {row[k].price, row[k].stock} \ {0}, Lapse(n)
      PROVE  CacheInv'
    BY <1>c, <1>16 DEF Lapse, CacheInv, RowInv, PendingInv, QuestionInv
<1>17. CASE UNCHANGED vars
    BY <1>c, <1>17 DEF vars, CacheInv, RowInv, PendingInv, QuestionInv
<1> QED
    BY <1>1, <1>2, <1>3, <1>4, <1>5, <1>6, <1>7, <1>8, <1>9, <1>10, <1>11, <1>12,
       <1>13, <1>14, <1>15, <1>16, <1>17 DEF Next, Step, Acquire

-----------------------------------------------------------------------------
(* Theorems *)

\* The strengthening of TypeOK, FetchExclusion and LeasesReturned.
THEOREM CacheInvariant == Spec => []Inv
<1>1. Init => Inv
    <2> SUFFICES ASSUME Init
                 PROVE  Inv
        OBVIOUS
    <2>1. NoRow \in Rows
        BY DEF NoRow, Rows
    <2>2. TypeOK
        BY <2>1 DEF Init, TypeOK
    <2>3. CacheInv
        BY DEF Init, NoRow, CacheInv, RowInv, PendingInv, QuestionInv
    <2> QED
        BY <2>2, <2>3 DEF Inv
<1>2. Inv /\ [Next]_vars => Inv'
    BY TypeStep, InvStep DEF Inv
<1> QED
    BY <1>1, <1>2, PTL DEF Spec

\* The rows and the sessions hold values of their types.
THEOREM TypeCorrect == Spec => []TypeOK
<1>1. Inv => TypeOK
    BY DEF Inv
<1> QED
    BY <1>1, CacheInvariant, PTL

\* One comparison at a time asks the supplier for a reference: both would have the
\* row pending, and it is locked by one.
THEOREM FetchesExclude == Spec => []FetchExclusion
<1>1. Inv => FetchExclusion
    <2> SUFFICES ASSUME Inv, NEW r \in Comparisons, NEW q \in Comparisons, NEW k \in Keys,
                        k \in won[r], k \in won[q]
                 PROVE  r = q
        BY DEF FetchExclusion
    <2>1. pending[r][k] # None /\ pending[q][k] # None
        BY DEF Inv, CacheInv, QuestionInv
    <2>2. lock[k] = r /\ lock[k] = q
        BY <2>1 DEF Inv, CacheInv, PendingInv
    <2> QED
        BY <2>2
<1> QED
    BY <1>1, CacheInvariant, PTL

\* A comparison keeps no lease from one store to the next.
THEOREM LeasesAreReturned == Spec => []LeasesReturned
<1>1. Inv => LeasesReturned
    <2> SUFFICES ASSUME Inv, NEW r \in Comparisons, pc[r] \in {"plan", "serve"},
                        NEW k \in Keys, pending[r][k] # None
                 PROVE  ~ pending[r][k].lease
        BY DEF LeasesReturned
    <2>1. won[r] = {} /\ PendingInv(r, k)
        BY DEF Inv, CacheInv, QuestionInv
    <2> QED
        BY <2>1 DEF PendingInv
<1> QED
    BY <1>1, CacheInvariant, PTL

\* A committed price or stock is never replaced by one asked for earlier.
THEOREM PricesNeverGoBack == Spec => CacheNeverGoesBack
<1> DEFINE Later == \A k \in Keys :
               /\ row'[k].price >= row[k].price
               /\ row'[k].stock = 0 \/ row'[k].stock >= row[k].stock
<1>1. Inv /\ [Next]_vars => Later \/ UNCHANGED row
    <2> SUFFICES ASSUME Inv, [Next]_vars, row' # row
                 PROVE  Later
        OBVIOUS
    <2>c. CacheInv /\ TablesOK
        BY TypeParts DEF Inv
    <2>1. ASSUME NEW r \in Comparisons, Commit(r)
          PROVE  Later
        <3> SUFFICES ASSUME NEW k \in Keys
                     PROVE  /\ Seen(r, k).price >= row[k].price
                            /\ Seen(r, k).stock = 0 \/ Seen(r, k).stock >= row[k].stock
            BY <2>1 DEF Commit
        <3>1. PendingInv(r, k) /\ row[k] \in Rows
            BY <2>c DEF CacheInv, TablesOK
        <3> QED
            BY <3>1 DEF Seen, PendingInv, Rows
    <2>2. ASSUME NEW k \in Keys, LeaseLapses(k)
          PROVE  Later
        BY <2>c, <2>2 DEF LeaseLapses, TablesOK, Rows
    <2>3. \/ \E r \in Comparisons : Commit(r)
          \/ \E k \in Keys : LeaseLapses(k)
        BY DEF Next, Step, Acquire, vars, Begin, Plan, ReadLease, UpdateLease, InsertLease,
               TakeRow, InsertLeaseFails, Query, Store, NextStore, Finish, Unexpected, End,
               Dies, Rollback, Aborted, Lapse
    <2> QED
        BY <2>1, <2>2, <2>3
<1> QED
    BY <1>1, CacheInvariant, PTL DEF Spec, CacheNeverGoesBack
=============================================================================
