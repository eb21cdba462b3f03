----------------------------- MODULE Comparator -----------------------------
(***************************************************************************)
(* The comparator page opened on a chantier (app/static/app.js): the cart, *)
(* the origin and the tax basis the user sets, the comparisons in flight,  *)
(* the results shown, and the choice of a solution with its confirmation.  *)
(*                                                                         *)
(* One handler runs at a time; what each of them leaves for after an await *)
(* (the answer to /api/compare, to the GET that precedes the confirmation, *)
(* to the PUT of the solution) is a step of its own, in any order with the *)
(* clicks of the user.                                                     *)
(***************************************************************************)
EXTENDS Naturals

CONSTANTS
    Carts,        \* the carts, by their fingerprint
    Empty,        \* the empty one
    Origins,      \* the origins of the trip
    NoOrigin,     \* none yet: a position awaited or refused, an address left blank
    Bases,        \* HT and TTC
    Keys,         \* the strategies of a comparison
    None,         \* null
    MaxRevision,  \* bound on the edits
    MaxAsked      \* bound on the comparisons asked

ASSUME ConstantsAssumption ==
    /\ Empty \in Carts
    /\ NoOrigin \in Origins
    /\ MaxRevision \in Nat
    /\ MaxAsked \in Nat

VARIABLES
    cart, origin, basis,    \* as the user has set them
    revision,               \* counts the edits of cart and origin
    enabled,                \* the button that compares
    asked,                  \* how many comparisons were asked
    inflight,               \* those whose answer is awaited
    last,                   \* lastComparison: what it was computed for
    visible,                \* the results section, confirmation included
    fingerprint,            \* comparisonFingerprint
    choice,                 \* pendingChoice
    opening,                \* the openChoiceConfirm that await their GET
    panel,                  \* the solution the confirmation describes
    put                     \* the PUT of a solution, until its answer

edited == <<cart, origin, basis, revision>>
results == <<last, visible, fingerprint>>
choosing == <<choice, opening, panel, put>>
vars == <<edited, enabled, asked, inflight, results, choosing>>

Comparisons == [cart : Carts, origin : Origins, basis : Bases]
Requests == [id : Nat, revision : Nat, of : Comparisons]
Solutions == [of : Comparisons, key : Keys]
Payloads == [strategy : Solutions, needs : Carts, origin : Origins,
             basis : Bases]

ASSUME NoneAssumption == None \notin Comparisons

TypeOK ==
    /\ cart \in Carts /\ origin \in Origins /\ basis \in Bases
    /\ revision \in Nat /\ asked \in Nat
    /\ enabled \in BOOLEAN /\ visible \in BOOLEAN
    /\ inflight \subseteq Requests
    /\ last \in Comparisons \cup {None}
    /\ fingerprint \in Carts \cup {None}
    /\ choice \in Solutions \cup {None}
    /\ opening \subseteq Solutions
    /\ panel \in Solutions \cup {None}
    /\ put \in Payloads \cup {None}

Init ==
    /\ cart \in Carts /\ origin \in Origins /\ basis \in Bases
    /\ revision = 0
    /\ enabled = (cart # Empty)
    /\ asked = 0
    /\ inflight = {}
    /\ last = None /\ visible = FALSE /\ fingerprint = None
    /\ choice = None /\ opening = {} /\ panel = None
    /\ put = None

-----------------------------------------------------------------------------
(* Cart and origin *)

\* Mutant: the pending choice outlives the edit.
InvalidateKeepsChoice ==
    /\ revision < MaxRevision
    /\ revision' = revision + 1
    /\ visible' = FALSE
    /\ fingerprint' = None
    /\ UNCHANGED <<choice, panel>>

Invalidate ==
    /\ revision < MaxRevision
    /\ revision' = revision + 1
    /\ visible' = FALSE
    /\ fingerprint' = None
    /\ choice' = None
    /\ panel' = None

\* onChange of the material lines, the example.
EditCart(c) ==
    /\ cart' = c
    /\ Invalidate
    /\ enabled' = (c # Empty)
    /\ UNCHANGED <<origin, basis, asked, inflight, last, opening, put>>

\* The type of origin, its address, the position the browser gives.
EditOrigin(o) ==
    /\ origin' = o
    /\ Invalidate
    /\ UNCHANGED <<cart, basis, enabled, asked, inflight, last, opening, put>>

\* The loading of the chantier replaces both.
EditBoth(c, o) ==
    /\ cart' = c
    /\ origin' = o
    /\ Invalidate
    /\ enabled' = (c # Empty)
    /\ UNCHANGED <<basis, asked, inflight, last, opening, put>>

-----------------------------------------------------------------------------
(* Comparison *)

Comparable == enabled /\ cart # Empty /\ origin # NoOrigin

\* The click on the button, in the basis b.
Ask(b) ==
    /\ asked < MaxAsked
    /\ asked' = asked + 1
    /\ inflight' = inflight \cup
         {[id |-> asked, revision |-> revision,
           of |-> [cart |-> cart, origin |-> origin, basis |-> b]]}
    /\ enabled' = FALSE
    /\ visible' = FALSE

Compare ==
    /\ Comparable
    /\ Ask(basis)
    /\ UNCHANGED <<edited, last, fingerprint, choosing>>

\* The other tax basis; it compares again where the button can, unless the quantity
\* of a line is refused, which carts do not tell here.
Toggle(b) ==
    /\ b # basis
    /\ basis' = b
    /\ \/ Comparable /\ Ask(b)
       \/ UNCHANGED <<enabled, asked, inflight, visible>>
    /\ UNCHANGED <<cart, origin, revision, last, fingerprint, choosing>>

\* Mutant: an answer is shown whatever was edited since the question.
ShownAlways(r) == TRUE

\* An answer is shown if nothing was edited since the question.
Shown(r) == r.revision = revision

Answer(r) ==
    /\ inflight' = inflight \ {r}
    /\ enabled' = (cart # Empty)
    /\ IF Shown(r)
          THEN last' = r.of /\ visible' = TRUE /\ fingerprint' = cart
          ELSE UNCHANGED results
    /\ UNCHANGED <<edited, asked, choosing>>

\* Mutant: the button stays disabled after an error.
AnswerFailsDisabled(r) ==
    /\ inflight' = inflight \ {r}
    /\ UNCHANGED <<edited, enabled, asked, results, choosing>>

\* An error answer, or none.
AnswerFails(r) ==
    /\ inflight' = inflight \ {r}
    /\ enabled' = (cart # Empty)
    /\ UNCHANGED <<edited, asked, results, choosing>>

-----------------------------------------------------------------------------
(* Choice of a solution *)

\* openChoiceConfirm up to its await, on a solution of the results shown.
Choose(k) ==
    /\ visible
    /\ fingerprint = cart
    /\ choice' = [of |-> last, key |-> k]
    /\ opening' = opening \cup {[of |-> last, key |-> k]}
    /\ UNCHANGED <<edited, enabled, asked, inflight, results, panel, put>>

\* The rest of it: the confirmation is written and shown.
OpenConfirm(s) ==
    /\ opening' = opening \ {s}
    /\ panel' = s
    /\ UNCHANGED <<edited, enabled, asked, inflight, results, choice, put>>

\* choice-confirm-cancel.
Cancel ==
    /\ visible /\ panel # None
    /\ panel' = None
    /\ choice' = None
    /\ UNCHANGED <<edited, enabled, asked, inflight, results, opening, put>>

\* choice-confirm-submit. Where the fingerprint is not the cart's the code closes
\* the confirmation: what is visible has the cart's fingerprint (ShownIsCurrent).
Submit ==
    /\ visible /\ panel # None
    /\ put = None
    /\ choice # None /\ last # None
    /\ fingerprint = cart
    /\ put' = [strategy |-> choice, needs |-> fingerprint,
               origin |-> last.origin, basis |-> last.basis]
    /\ UNCHANGED <<edited, enabled, asked, inflight, results, choice, opening, panel>>

\* The server refuses (an accepted PUT leaves the page).
Refuse ==
    /\ put # None
    /\ put' = None
    /\ UNCHANGED <<edited, enabled, asked, inflight, results, choice, opening, panel>>

-----------------------------------------------------------------------------

Next ==
    \/ \E c \in Carts : EditCart(c)
    \/ \E o \in Origins : EditOrigin(o)
    \/ \E c \in Carts, o \in Origins : EditBoth(c, o)
    \/ Compare
    \/ \E b \in Bases : Toggle(b)
    \/ \E r \in inflight : Answer(r) \/ AnswerFails(r)
    \/ \E k \in Keys : Choose(k)
    \/ \E s \in opening : OpenConfirm(s)
    \/ Cancel \/ Submit \/ Refuse

Spec == Init /\ [][Next]_vars

\* Every request gets an answer or an error.
FairSpec == Spec /\ \A i \in 0 .. MaxAsked :
                     WF_vars(\E r \in inflight : r.id = i /\ (Answer(r) \/ AnswerFails(r)))

-----------------------------------------------------------------------------
(* Properties *)

\* The results on the screen are those of the cart and the origin on the screen,
\* whatever answers come late or out of order.
ShownIsCurrent ==
    visible => /\ last # None
               /\ last.cart = cart
               /\ last.origin = origin
               /\ fingerprint = cart

\* A solution is sent with the needs and the origin it was computed for, whatever
\* was edited or compared again while its confirmation was being opened.
SentForItsNeeds ==
    put # None => /\ put.strategy.of.cart = put.needs
                  /\ put.strategy.of.origin = put.origin

\* What makes both inductive: a comparison asked since the last edit is of the
\* cart and the origin of now, and so is the pending choice.
ComparatorInv ==
    /\ ShownIsCurrent
    /\ SentForItsNeeds
    /\ \A r \in inflight :
         /\ r.revision <= revision
         /\ r.revision = revision => r.of.cart = cart /\ r.of.origin = origin
    /\ choice # None => choice.of.cart = cart /\ choice.of.origin = origin

\* The button comes back while there is something to compare.
ButtonReturns == cart # Empty /\ ~ enabled ~> enabled \/ cart = Empty
=============================================================================
