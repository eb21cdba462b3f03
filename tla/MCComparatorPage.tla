-------------------------- MODULE MCComparatorPage --------------------------
(***************************************************************************)
(* Instances of ComparatorPage for TLC. A behaviour keeps to one occupation *)
(* of the user besides comparing: choosing a solution for the chantier     *)
(* loaded, entering an origin while the page loads, or searching materials *)
(* while the first page is awaited and after it.                           *)
(***************************************************************************)
EXTENDS ComparatorPage, TLC

CONSTANTS
    p1, p2, a1, a2,
    FewRevisions    \* bound on the edits where no origin is entered

VARIABLE scope
mcVars == <<pageVars, scope>>

MCProducts == {p1, p2}
MCFirstPage == {p1}
MCCarts == UNION {[S -> Quantities] : S \in SUBSET MCProducts}
MCEmpty == [p \in {} |-> 0]
MCExample == [p \in {p1} |-> 1]
MCTexts == {"", "t1", "t2"}
MCNamed == [t \in MCTexts |-> CASE t = "" -> MCProducts [] t = "t1" -> {p1} [] OTHER -> {p2}]
\* The server also answers a product the page would not keep.
MCFound == [t \in MCTexts |-> IF t = "t1" THEN {p1} ELSE MCProducts]
MCAddresses == {NoAddress, a1, a2}
MCDemo == {a1}
MCChantiers ==
    {[address |-> a1, located |-> TRUE, lines |-> [p \in {p2} |-> 1]],
     [address |-> a2, located |-> FALSE, lines |-> [p \in {p1, p2} |-> 1]]}
MCOrigins ==
    {NoOrigin}
      \cup {<<k, a>> : k \in {"company", "coordinates", "site", "other"}, a \in MCAddresses}
      \cup {<<"current_location", n>> : n \in 1 .. MaxRevision}

MCInit ==
    /\ scope \in {"choose", "enter", "search"}
    /\ basis = "HT"
    /\ IF scope = "choose"
          THEN /\ Init
               /\ catalogue = "shown" /\ known = MCProducts /\ choices = MCProducts
               /\ typed = Blank /\ timer = None /\ generation = 0 /\ searches = {}
               /\ rows = DOMAIN cart
               /\ cart \in {MCEmpty, MCExample}
               /\ type = "site" /\ address \in {NoAddress, a1}
               /\ saved = [t \in Typed |-> IF t = "site" THEN address ELSE NoAddress]
               /\ siteCoordinates = None /\ unconfirmed = FALSE
               /\ position = None /\ positionRequest = 0 /\ positions = {}
               /\ loading = FALSE /\ saveAs = None /\ posted = None
               /\ loadedChantier \in {c \in Chantiers : ~ c.located}
               /\ origin = Selected
          ELSE /\ PageInit
               /\ address \in {NoAddress, a1}
               /\ scope = "search" => address = a1

MCNext ==
    /\ UNCHANGED scope
    /\ \/ /\ scope = "choose"
          /\ \/ PageChoose
             \/ \E b \in Bases : PageToggle(b)
             \/ revision < FewRevisions /\ \E a \in {NoAddress, a1} : TypeAddress(a)
             \/ /\ revision < FewRevisions
                /\ \E q \in 1 .. 2 : AddLine(p1, q) \/ SetQuantity(p1, q)
                /\ UNCHANGED <<entry, saving>>
             \/ /\ revision < FewRevisions
                /\ RemoveLine(p1)
                /\ UNCHANGED <<entry, saving>>
       \/ /\ scope = "enter"
          /\ \/ EnterOrigin \/ Load \/ SaveAs
             \/ ShowExample /\ UNCHANGED <<entry, saving>>
       \/ /\ scope = "search"
          /\ \/ Search /\ UNCHANGED <<entry, saving>>
             \/ revision < FewRevisions /\ Load
             \/ revision < FewRevisions /\ EditMaterials /\ UNCHANGED <<entry, saving>>
       \/ PageCompare
       \/ \E r \in inflight : PageAnswer(r)

MCSpec ==
    /\ MCInit /\ [][MCNext]_mcVars
    /\ \A i \in 0 .. MaxAsked :
         WF_mcVars((\E r \in inflight : r.id = i /\ PageAnswer(r)) /\ UNCHANGED scope)
=============================================================================
