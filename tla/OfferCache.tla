------------------------------ MODULE OfferCache ------------------------------
(***************************************************************************)
(* The shared cache of live offers (services/supplier_live_cache.py) as    *)
(* the live connectors use it (connectors/bricodepot/connector.py,         *)
(* connectors/gedimat/connector.py) while they answer comparisons.         *)
(*                                                                         *)
(* A key is a store and a supplier reference; its row keeps the last price *)
(* and the last stock, each fresh for a time, and the lease of a refresh.  *)
(* Each comparison has a session of its own on PostgreSQL (READ COMMITTED):*)
(* what it flushes is seen by the others when it commits, and the rows it  *)
(* has written or inserted are locked until it ends.  A price or a stock   *)
(* is stood for by the number of the question that brought it, 0 for NULL, *)
(* and the numbers whose time to live is over are those of lapsed.         *)
(***************************************************************************)
EXTENDS Naturals, Sequences, FiniteSets

CONSTANTS
    Comparisons,  \* the comparisons served at the same time
    Keys,         \* a store and a reference
    Routes,       \* the references of a comparison, store after store
    None,
    MaxBegun      \* bound on the comparisons asked

ASSUME RoutesAssumption == Routes \subseteq Seq(SUBSET Keys)
ASSUME MaxBegunAssumption == MaxBegun \in Nat

VARIABLES
    row,          \* the committed rows
    pending,      \* what a session has flushed and not committed
    lock,         \* the session that holds a row
    pc,           \* where get_offers is
    route, store, \* the stores of the comparison and the one it is at
    todo,         \* the references it has still to take a lease on
    at,           \* the one it is waiting for
    won,          \* those whose lease it has taken
    written,      \* _cache_written
    question,     \* the number of its last question to the supplier
    asked,        \* how many questions were asked
    lapsed,       \* those whose answer is out of date
    begun         \* how many comparisons were

tables == <<row, pending, lock>>
local == <<pc, route, store, todo, at, won, written, question>>
counts == <<asked, lapsed, begun>>
vars == <<tables, local, counts>>

\* The columns price and stock; negative: the last answer was sold out or not for
\* sale, without a price; lease: refresh_lease_until is ahead.
Rows == [exists : BOOLEAN, price : Nat, stock : Nat, negative : BOOLEAN, lease : BOOLEAN]

ASSUME NoneAssumption == None \notin Rows /\ None \notin Comparisons

NoRow == [exists |-> FALSE, price |-> 0, stock |-> 0, negative |-> FALSE, lease |-> FALSE]

Phases == {"idle", "plan", "acquire", "insert", "update", "query", "await",
           "serve", "rest"}

TypeOK ==
    /\ row \in [Keys -> Rows]
    /\ pending \in [Comparisons -> [Keys -> Rows \cup {None}]]
    /\ lock \in [Keys -> Comparisons \cup {None}]
    /\ pc \in [Comparisons -> Phases]
    /\ route \in [Comparisons -> Routes \cup {<<>>}]
    /\ store \in [Comparisons -> Nat]
    /\ todo \in [Comparisons -> SUBSET Keys]
    /\ at \in [Comparisons -> Keys \cup {None}]
    /\ \A r \in Comparisons : pc[r] \in {"insert", "update"} => at[r] \in Keys
    /\ won \in [Comparisons -> SUBSET Keys]
    /\ written \in [Comparisons -> BOOLEAN]
    /\ question \in [Comparisons -> Nat]
    /\ asked \in Nat /\ begun \in Nat /\ lapsed \subseteq Nat

Init ==
    /\ row = [k \in Keys |-> NoRow]
    /\ pending = [r \in Comparisons |-> [k \in Keys |-> None]]
    /\ lock = [k \in Keys |-> None]
    /\ pc = [r \in Comparisons |-> "idle"]
    /\ route = [r \in Comparisons |-> <<>>]
    /\ store = [r \in Comparisons |-> 1]
    /\ todo = [r \in Comparisons |-> {}]
    /\ at = [r \in Comparisons |-> None]
    /\ won = [r \in Comparisons |-> {}]
    /\ written = [r \in Comparisons |-> FALSE]
    /\ question = [r \in Comparisons |-> 0]
    /\ asked = 0 /\ begun = 0 /\ lapsed = {}

-----------------------------------------------------------------------------
(* Rows *)

\* What a SELECT of r returns: its own writes over the committed rows.
Seen(r, k) == IF pending[r][k] = None THEN row[k] ELSE pending[r][k]

\* A complete answer with no price: nothing is missing from it.
NegativeWithoutPrice(e) == e.price = 0 /\ e.negative

Fresh(n) == n # 0 /\ n \notin lapsed

\* What plan_offer_refresh asks the supplier for.
NeedsRefresh(e) ==
    ~ (Fresh(e.stock) /\ (NegativeWithoutPrice(e) \/ Fresh(e.price)))

\* Answers about a reference: both columns, a price alone, sold out without a
\* price, and nothing to keep (absent, unpriced, or the query failed).
Answers == {"priced", "unstocked", "negative", "nothing"}

\* Mutant: a lease whose question brought nothing is kept.
SettledWithoutRelease(e, n, a) ==
    IF a = "nothing" THEN e
    ELSE [e EXCEPT !.lease = FALSE,
                   !.price = IF a = "negative" THEN @ ELSE n,
                   !.stock = IF a = "unstocked" THEN 0 ELSE n,
                   !.negative = (a = "negative")]

\* put_offer, or the release of the lease: the row after answer a to question n.
Settled(e, n, a) ==
    IF a = "nothing" THEN [e EXCEPT !.lease = FALSE]
    ELSE [e EXCEPT !.lease = FALSE,
                   !.price = IF a = "negative" THEN @ ELSE n,
                   !.stock = IF a = "unstocked" THEN 0 ELSE n,
                   !.negative = (a = "negative")]

Commit(r) ==
    /\ row' = [k \in Keys |-> Seen(r, k)]
    /\ pending' = [pending EXCEPT ![r] = [k \in Keys |-> None]]
    /\ lock' = [k \in Keys |-> IF lock[k] = r THEN None ELSE lock[k]]

Rollback(r) ==
    /\ pending' = [pending EXCEPT ![r] = [k \in Keys |-> None]]
    /\ lock' = [k \in Keys |-> IF lock[k] = r THEN None ELSE lock[k]]
    /\ UNCHANGED row

-----------------------------------------------------------------------------
(* A comparison *)

Begin(r) ==
    /\ pc[r] = "idle"
    /\ begun < MaxBegun
    /\ begun' = begun + 1
    /\ \E rt \in Routes : route' = [route EXCEPT ![r] = rt]
    /\ pc' = [pc EXCEPT ![r] = "plan"]
    /\ UNCHANGED <<tables, store, todo, at, won, written, question, asked, lapsed>>

\* get_offers gives up, on an exception it logs: no offers, no commit.
GiveUp(r) ==
    /\ pc' = [pc EXCEPT ![r] = "rest"]
    /\ todo' = [todo EXCEPT ![r] = {}]
    /\ at' = [at EXCEPT ![r] = None]
    /\ won' = [won EXCEPT ![r] = {}]
    /\ question' = [question EXCEPT ![r] = 0]
    /\ UNCHANGED <<route, store, written, counts>>

\* The request is over, and its session closed.
Leave(r) ==
    /\ pc' = [pc EXCEPT ![r] = "idle"]
    /\ route' = [route EXCEPT ![r] = <<>>]
    /\ store' = [store EXCEPT ![r] = 1]
    /\ todo' = [todo EXCEPT ![r] = {}]
    /\ at' = [at EXCEPT ![r] = None]
    /\ won' = [won EXCEPT ![r] = {}]
    /\ written' = [written EXCEPT ![r] = FALSE]
    /\ question' = [question EXCEPT ![r] = 0]
    /\ UNCHANGED counts

\* plan_offer_refresh.  Its reads are one step: nothing below depends on which
\* references are planned.
Plan(r) ==
    /\ pc[r] = "plan"
    /\ store[r] \in DOMAIN route[r]
    /\ LET stale == {k \in route[r][store[r]] : NeedsRefresh(Seen(r, k))}
       IN  /\ todo' = [todo EXCEPT ![r] = stale]
           /\ pc' = [pc EXCEPT ![r] = IF stale = {} THEN "serve" ELSE "acquire"]
    /\ won' = [won EXCEPT ![r] = {}]
    /\ UNCHANGED <<tables, route, store, at, written, question, counts>>

\* The loop over the references goes on after k.
Onward(r, k, taken) ==
    /\ todo' = [todo EXCEPT ![r] = @ \ {k}]
    /\ at' = [at EXCEPT ![r] = None]
    /\ won' = [won EXCEPT ![r] = taken]
    /\ pc' = [pc EXCEPT ![r] = IF todo[r] \ {k} # {} THEN "acquire"
                               ELSE IF taken = {} THEN "serve" ELSE "query"]
    /\ UNCHANGED <<route, store, written, question, counts>>

\* The SELECT of try_acquire_offer_refresh_lease, on the references in any order
\* (Gedimat reads them without one): a lease seen is left alone.
ReadLease(r) ==
    /\ pc[r] = "acquire"
    /\ \E k \in todo[r] :
         IF Seen(r, k).exists /\ Seen(r, k).lease
         THEN Onward(r, k, won[r])
         ELSE /\ at' = [at EXCEPT ![r] = k]
              /\ pc' = [pc EXCEPT ![r] = IF Seen(r, k).exists THEN "update" ELSE "insert"]
              /\ UNCHANGED <<route, store, todo, won, written, question, counts>>
    /\ UNCHANGED tables

\* Mutant: the lease is committed on its own.
TakeRowCommitted(r, k, e) ==
    /\ lock[k] = None
    /\ row' = [row EXCEPT ![k] = [e EXCEPT !.exists = TRUE, !.lease = TRUE]]
    /\ pending' = [pending EXCEPT ![r][k] = row'[k]]
    /\ UNCHANGED lock

\* The lease flushed on row k, whose lock it takes.
TakeRow(r, k, e) ==
    /\ lock[k] \in {None, r}
    /\ lock' = [lock EXCEPT ![k] = r]
    /\ pending' = [pending EXCEPT ![r][k] = [e EXCEPT !.exists = TRUE, !.lease = TRUE]]
    /\ UNCHANGED row

\* Its UPDATE, which waits for the row, and writes the lease on what it finds.
UpdateLease(r) ==
    /\ pc[r] = "update"
    /\ TakeRow(r, at[r], Seen(r, at[r]))
    /\ Onward(r, at[r], won[r] \cup {at[r]})

\* Its INSERT, which waits for another of the same key.
InsertLease(r) ==
    /\ pc[r] = "insert"
    /\ ~ row[at[r]].exists
    /\ TakeRow(r, at[r], NoRow)
    /\ Onward(r, at[r], won[r] \cup {at[r]})

\* Mutant: the INSERT is tried again.
InsertLeaseAgain(r) ==
    /\ pc[r] = "insert"
    /\ row[at[r]].exists
    /\ pc' = [pc EXCEPT ![r] = "insert"]
    /\ UNCHANGED <<tables, route, store, todo, at, won, written, question, counts>>

\* IntegrityError: the savepoint is left and the row read again.
InsertLeaseFails(r) ==
    /\ pc[r] = "insert"
    /\ row[at[r]].exists
    /\ pc' = [pc EXCEPT ![r] = "acquire"]
    /\ UNCHANGED <<tables, route, store, todo, at, won, written, question, counts>>

\* The request to the supplier about the references won.
Query(r) ==
    /\ pc[r] = "query"
    /\ asked' = asked + 1
    /\ question' = [question EXCEPT ![r] = asked + 1]
    /\ pc' = [pc EXCEPT ![r] = "await"]
    /\ UNCHANGED <<tables, route, store, todo, at, won, written, lapsed, begun>>

\* Its answer, or its failure, which releases every lease.
Store(r) ==
    /\ pc[r] = "await"
    /\ \E answer \in [won[r] -> Answers] :
         /\ pending' = [pending EXCEPT ![r] =
              [k \in Keys |-> IF k \in won[r] THEN Settled(@[k], question[r], answer[k])
                                              ELSE @[k]]]
         /\ written' = [written EXCEPT ![r] = @ \/ \E k \in won[r] : answer[k] # "nothing"]
    /\ won' = [won EXCEPT ![r] = {}]
    /\ question' = [question EXCEPT ![r] = 0]
    /\ pc' = [pc EXCEPT ![r] = "serve"]
    /\ UNCHANGED <<row, lock, route, store, todo, at, counts>>

\* The offers of the store are built from the rows; the next store.
NextStore(r) ==
    /\ pc[r] = "serve"
    /\ store[r] < Len(route[r])
    /\ store' = [store EXCEPT ![r] = @ + 1]
    /\ pc' = [pc EXCEPT ![r] = "plan"]
    /\ UNCHANGED <<tables, route, todo, at, won, written, question, counts>>

\* The offers of the last store; get_offers commits what it has written.
Finish(r) ==
    /\ pc[r] = "serve"
    /\ store[r] >= Len(route[r])
    /\ IF written[r] THEN Commit(r) ELSE UNCHANGED tables
    /\ pc' = [pc EXCEPT ![r] = "rest"]
    /\ UNCHANGED <<route, store, todo, at, won, written, question, counts>>

\* An exception the connector does not expect: the leases stay flushed.
Unexpected(r) ==
    /\ pc[r] = "await"
    /\ GiveUp(r)
    /\ UNCHANGED tables

\* The rest of the request: the next connector commits the session, or it is
\* closed as it is.
End(r) ==
    /\ pc[r] = "rest"
    /\ Commit(r) \/ Rollback(r)
    /\ Leave(r)

\* At any time the process may stop.
Dies(r) ==
    /\ pc[r] \notin {"idle", "rest"}
    /\ Rollback(r)
    /\ Leave(r)

-----------------------------------------------------------------------------
(* The database and the clock *)

Waits(r, q) ==
    /\ pc[r] \in {"update", "insert"}
    /\ lock[at[r]] = q /\ q # r
    /\ pc[r] = "insert" => ~ row[at[r]].exists

\* Sessions that wait for each other in a circle.
Deadlocked(r) ==
    \E S \in SUBSET Comparisons :
        /\ r \in S
        /\ \A q \in S : (\E p \in S : Waits(q, p)) /\ (\E p \in S : Waits(p, q))

\* PostgreSQL aborts the statement of one of them: get_offers logs it.  The UPDATE
\* takes the transaction with it, the INSERT only its savepoint.
Aborted(r) ==
    /\ Deadlocked(r)
    /\ IF pc[r] = "update" THEN Rollback(r) ELSE UNCHANGED tables
    /\ GiveUp(r)

\* The time to live of what question n brought is over.  A price is never put in
\* a row after its stock.
Lapse(n) ==
    /\ n \notin lapsed
    /\ \A k \in Keys : row[k].stock = n => row[k].price \in lapsed \cup {0, n}
    /\ lapsed' = lapsed \cup {n}
    /\ UNCHANGED <<tables, local, asked, begun>>

\* A lease that was committed runs out.
LeaseLapses(k) ==
    /\ row[k].lease
    /\ row' = [row EXCEPT ![k].lease = FALSE]
    /\ UNCHANGED <<pending, lock, local, counts>>

-----------------------------------------------------------------------------

Acquire(r) == ReadLease(r) \/ UpdateLease(r) \/ InsertLease(r) \/ InsertLeaseFails(r)

Step(r) ==
    \/ Plan(r) \/ Acquire(r) \/ Query(r) \/ Store(r)
    \/ NextStore(r) \/ Finish(r) \/ End(r)
    \/ Aborted(r)

Next ==
    \/ \E r \in Comparisons : Begin(r) \/ Step(r) \/ Unexpected(r) \/ Dies(r)
    \/ \E k \in Keys : \/ LeaseLapses(k)
                      \/ \E n \in {row[k].price, row[k].stock} \ {0} : Lapse(n)

Spec == Init /\ [][Next]_vars

\* A thread goes on, a query has a timeout, the waiters of a row are served in
\* their order, and a circle of them is broken.
FairSpec == Spec /\ \A r \in Comparisons : SF_vars(Step(r))

-----------------------------------------------------------------------------
(* Properties *)

\* A reference is asked of the supplier by one comparison at a time.  (What ensures
\* it is the row locked since the lease was flushed, not the lease.)
FetchExclusion ==
    \A r, q \in Comparisons : \A k \in Keys :
        /\ pc[r] \in {"query", "await"} /\ k \in won[r]
        /\ pc[q] \in {"query", "await"} /\ k \in won[q]
        => r = q

\* No comparison replaces a price or a stock by one asked for earlier.
CacheNeverGoesBack ==
    [][\A k \in Keys : /\ row'[k].price >= row[k].price
                       /\ row'[k].stock = 0 \/ row'[k].stock >= row[k].stock]_row

\* A comparison leaves a store with none of its leases taken.
LeasesReturned ==
    \A r \in Comparisons : pc[r] \in {"plan", "serve"} =>
        \A k \in Keys : pending[r][k] # None => ~ pending[r][k].lease

\* What makes these inductive: a pending row is locked by its session, is not
\* older than the committed one, nor younger than the question awaited, and keeps
\* a lease only while its reference is among those won.
RowInv(k) ==
    /\ row[k].price <= asked /\ row[k].stock <= asked
    /\ ~ row[k].exists => row[k].price = 0

PendingInv(r, k) ==
    pending[r][k] # None =>
        /\ lock[k] = r
        /\ pending[r][k].exists
        /\ pending[r][k].price \in row[k].price .. asked
        /\ pending[r][k].stock <= asked
        /\ pending[r][k].stock = 0 \/ pending[r][k].stock >= row[k].stock
        /\ pending[r][k].lease => k \in won[r] \/ pc[r] = "rest"

QuestionInv(r) ==
    /\ question[r] <= asked
    /\ pc[r] \in {"idle", "plan", "serve", "rest"} => won[r] = {}
    /\ \A k \in won[r] :
         /\ pending[r][k] # None
         /\ pc[r] = "await" => /\ pending[r][k].price <= question[r]
                              /\ pending[r][k].stock <= question[r]
                              /\ row[k].stock <= question[r]

CacheInv ==
    /\ \A k \in Keys : RowInv(k)
    /\ \A r \in Comparisons, k \in Keys : PendingInv(r, k)
    /\ \A r \in Comparisons : QuestionInv(r)

\* Every comparison gets to its end, circles of waiters included.
ComparisonsEnd == \A r \in Comparisons : pc[r] # "idle" ~> pc[r] = "idle"
=============================================================================
