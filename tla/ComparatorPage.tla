--------------------------- MODULE ComparatorPage ---------------------------
(***************************************************************************)
(* The comparator page as a whole (app/static/app.js): how the origin of   *)
(* Comparator is entered (four kinds, an address for two of them, the      *)
(* coordinates of a chantier, the position the browser gives some time     *)
(* later), the chantier the page is opened on, loaded while the user may   *)
(* already edit, and the panel that saves the cart as a new chantier.      *)
(*                                                                         *)
(* Coordinates stand for the address they are of, a position for the       *)
(* request it answers.                                                     *)
(***************************************************************************)
EXTENDS MaterialLines

CONSTANTS
    Addresses, NoAddress,  \* as typed; the field left empty
    Demo,                  \* those the demonstration geocoder knows
    Fake,                  \* the geocoder is the demonstration one
    Company,               \* the address of the company, whose coordinates are known
    Chantiers              \* what GET /api/chantiers/{id} may answer

ASSUME PageAssumption ==
    /\ NoAddress \in Addresses /\ Demo \subseteq Addresses
    /\ Fake \in BOOLEAN
    /\ Company \in Addresses \ {NoAddress}
    /\ \A c \in Chantiers : c.address \in Addresses /\ c.located \in BOOLEAN
                            /\ c.lines \in Carts
    /\ None \notin Addresses
    /\ \A a \in Addresses, k \in {"company", "coordinates", "site", "other"} :
          <<k, a>> \in Origins
    /\ \A n \in 1 .. MaxRevision : <<"current_location", n>> \in Origins

VARIABLES
    type, address, saved,        \* the kind of origin, the address field, savedAddresses
    siteCoordinates,             \* those of the chantier loaded
    unconfirmed,                 \* siteAddressNeedsConfirmation
    position,                    \* currentCoordinates, by the request they answer
    positionRequest,             \* the last request
    positions,                   \* the requests the browser has not answered
    loading,                     \* the GET of loadChantierFromQuery is awaited
    loadedChantier,              \* the chantier of the page, or None
    saveAs,                      \* the save-as panel
    posted                       \* the POST of a new chantier, until its answer

entry == <<type, address, saved, siteCoordinates, unconfirmed, position,
           positionRequest, positions>>
saving == <<loading, loadedChantier, saveAs, posted>>
pageVars == <<vars, listing, entry, saving>>

Typed == {"site", "other"}
OriginTypes == Typed \cup {"company", "current_location"}

PageTypeOK ==
    /\ TypeOK /\ LinesTypeOK
    /\ type \in OriginTypes /\ address \in Addresses
    /\ saved \in [Typed -> Addresses]
    /\ siteCoordinates \in Addresses \cup {None}
    /\ unconfirmed \in BOOLEAN
    /\ position \in Nat \cup {None} /\ positionRequest \in Nat /\ positions \subseteq Nat
    /\ loading \in BOOLEAN
    /\ loadedChantier \in Chantiers \cup {None}
    /\ saveAs \in [address : Addresses, coordinates : Addresses \cup {None}] \cup {None}
    /\ posted \in [address : Addresses, coordinates : Addresses \cup {None},
                   lines : Carts] \cup {None}

\* The demonstration geocoder does not know the address (isKnownDemoAddress).
Unlocatable(a) == Fake /\ a \notin Demo

\* selectedOrigin
Selected ==
    CASE type = "company" -> <<type, Company>>
      [] type = "current_location" -> IF position = None THEN NoOrigin
                                                         ELSE <<type, position>>
      [] type \in Typed /\ address = NoAddress -> NoOrigin
      [] type = "site" /\ address # NoAddress /\ siteCoordinates # None ->
           <<"coordinates", siteCoordinates>>
      [] type = "site" /\ address # NoAddress /\ siteCoordinates = None
           /\ unconfirmed /\ Unlocatable(address) -> NoOrigin
      [] OTHER -> <<type, address>>

\* The page opened with an empty cart, the first page awaited.
PageInit ==
    /\ Init /\ LinesInit
    /\ cart = Empty
    /\ type = "site" /\ address \in Addresses
    /\ saved = [t \in Typed |-> IF t = "site" THEN address ELSE NoAddress]
    /\ siteCoordinates = None /\ unconfirmed = FALSE
    /\ position = None /\ positionRequest = 0 /\ positions = {}
    /\ loading = FALSE /\ loadedChantier = None
    /\ saveAs = None /\ posted = None
    /\ origin = Selected

-----------------------------------------------------------------------------
(* Origin *)

\* What was entered changes: the origin of the trip is read from it.
Entered == EditOrigin(Selected') /\ UNCHANGED <<listing, saving>>

\* requestPosition: a new request, the position of the last one forgotten.
Request ==
    /\ positionRequest' = positionRequest + 1
    /\ positions' = positions \cup {positionRequest + 1}
    /\ position' = None

\* The radio buttons. The change counts a request too, so that a position asked
\* before it is not taken; the two are one here.
ChangeType(t) ==
    /\ t # type
    /\ type' = t
    /\ saved' = IF type \in Typed THEN [saved EXCEPT ![type] = address] ELSE saved
    /\ address' = IF t \in Typed THEN saved'[t] ELSE address
    /\ IF t = "current_location"
          THEN Request
          ELSE /\ positionRequest' = positionRequest + 1
               /\ position' = None
               /\ UNCHANGED positions
    /\ UNCHANGED <<siteCoordinates, unconfirmed>>
    /\ Entered

\* The button « Réessayer ».
Relocate ==
    /\ type = "current_location"
    /\ Request
    /\ UNCHANGED <<type, address, saved, siteCoordinates, unconfirmed>>
    /\ Entered

\* Is the answer to the request n the one awaited?
Awaited(n) == n = positionRequest /\ type = "current_location"

\* The browser gives a position, in answer to the request n.
Locate(n) ==
    /\ positions' = positions \ {n}
    /\ UNCHANGED <<type, address, saved, siteCoordinates, unconfirmed, positionRequest>>
    /\ \/ Awaited(n) /\ position' = n /\ Entered
       \/ ~ Awaited(n) /\ UNCHANGED <<position, vars, listing, saving>>

\* It refuses, or its time is over.
Unlocated(n) ==
    /\ positions' = positions \ {n}
    /\ UNCHANGED <<type, address, saved, siteCoordinates, unconfirmed, position,
                   positionRequest, vars, listing, saving>>

\* Mutant: the coordinates of the chantier outlive its address.
TypeAddressKeepsCoordinates(a) ==
    /\ type \in Typed
    /\ a # address
    /\ address' = a
    /\ unconfirmed' = FALSE
    /\ UNCHANGED <<type, saved, siteCoordinates, position, positionRequest, positions>>
    /\ Entered

\* The address field is edited.
TypeAddress(a) ==
    /\ type \in Typed
    /\ a # address
    /\ address' = a
    /\ siteCoordinates' = None
    /\ unconfirmed' = FALSE
    /\ UNCHANGED <<type, saved, position, positionRequest, positions>>
    /\ Entered

-----------------------------------------------------------------------------
(* The chantier of the page *)

\* After the first page the chantier is asked for, when the page is of one.
Opened ==
    /\ FirstPageComes
    /\ loading' \in BOOLEAN
    /\ saveAs' = IF loading' THEN saveAs ELSE None
    /\ UNCHANGED <<entry, loadedChantier, posted>>

NotOpened == FirstPageFails /\ UNCHANGED <<entry, saving>>

\* mergeProductsFromChantier: its products need not be in the first page.
MergedWith(c) == known \cup DOMAIN c.lines

\* Its materials and its address replace what was entered meanwhile.
LoadFound(c) ==
    /\ loading /\ loading' = FALSE
    /\ loadedChantier' = c
    /\ known' = MergedWith(c)
    /\ Render(typed, known')
    /\ RenderLines(c.lines, known')
    /\ type' = "site" /\ address' = c.address
    /\ saved' = [t \in Typed |-> CASE t = "site" -> c.address
                                   [] t = "other" /\ type = "other" -> address
                                   [] OTHER -> saved[t]]
    /\ IF type = "site"
          THEN UNCHANGED <<position, positionRequest>>
          ELSE position' = None /\ positionRequest' = positionRequest + 1
    /\ siteCoordinates' = IF c.located THEN c.address ELSE None
    /\ unconfirmed' = (~ c.located /\ Unlocatable(c.address))
    /\ EditBoth(c.lines, Selected')
    /\ saveAs' = None
    /\ UNCHANGED <<catalogue, typed, searches, positions, posted>>

\* 404: it was deleted.
LoadMissing ==
    /\ loading /\ loading' = FALSE
    /\ loadedChantier' = None
    /\ siteCoordinates' = None /\ unconfirmed' = FALSE
    /\ rows' = {}
    /\ UNCHANGED <<searching, type, address, saved, position, positionRequest, positions>>
    /\ EditBoth(Empty, Selected')
    /\ saveAs' = None
    /\ UNCHANGED posted

\* Any other error: what was entered stays.
LoadFails ==
    /\ loading /\ loading' = FALSE
    /\ loadedChantier' = None
    /\ saveAs' = None
    /\ UNCHANGED <<vars, listing, entry, posted>>

-----------------------------------------------------------------------------
(* The save-as panel *)

\* resolveSaveAsDefaults
Defaults ==
    CASE type = "current_location" -> [address |-> NoAddress, coordinates |-> None]
      [] type = "company" -> [address |-> Company, coordinates |-> Company]
      [] type = "site" -> [address |-> address, coordinates |-> siteCoordinates]
      [] type = "other" -> [address |-> address, coordinates |-> None]

\* syncChantierActions: the button that opens the panel.
MaySave == cart # Empty /\ loadedChantier = None

OpenSaveAs ==
    /\ MaySave
    /\ saveAs' = Defaults
    /\ UNCHANGED <<vars, listing, entry, loading, loadedChantier, posted>>

CancelSaveAs ==
    /\ saveAs # None
    /\ saveAs' = None
    /\ UNCHANGED <<vars, listing, entry, loading, loadedChantier, posted>>

\* The address of the panel is edited: its coordinates are dropped.
TypeSaveAs(a) ==
    /\ saveAs # None /\ saveAs.address # a
    /\ saveAs' = [address |-> a, coordinates |-> None]
    /\ UNCHANGED <<vars, listing, entry, loading, loadedChantier, posted>>

\* cartMateriauxPayload, with the address of the panel.
Payload == [address |-> saveAs.address, coordinates |-> saveAs.coordinates, lines |-> cart]

SubmitSaveAs ==
    /\ MaySave /\ saveAs # None /\ posted = None
    /\ saveAs.address # NoAddress /\ AllValid
    /\ posted' = Payload
    /\ UNCHANGED <<vars, listing, entry, loading, loadedChantier, saveAs>>

\* An error (a chantier created leaves the page).
SaveAsFails ==
    /\ posted # None
    /\ posted' = None
    /\ UNCHANGED <<vars, listing, entry, loading, loadedChantier, saveAs>>

-----------------------------------------------------------------------------
(* What Comparator does, on this page *)

rest == <<listing, entry, saving>>

\* The click needs the quantities shown to be valid, and so does the one the other
\* basis makes.
PageCompare == AllValid /\ Compare /\ UNCHANGED rest

PageToggle(b) ==
    /\ Toggle(b)
    /\ AllValid /\ Comparable => asked' = asked + 1
    /\ ~ AllValid => asked' = asked
    /\ UNCHANGED rest

PageAnswer(r) == (Answer(r) \/ AnswerFails(r)) /\ UNCHANGED rest

\* A solution is chosen for the chantier loaded only.
PageChoose ==
    /\ loadedChantier # None
    /\ \/ \E k \in Keys : Choose(k)
       \/ \E s \in opening : OpenConfirm(s)
       \/ Cancel \/ Submit \/ Refuse
    /\ UNCHANGED rest

EditMaterials ==
    \/ \E p \in Products, q \in Quantities : AddLine(p, q) \/ SetQuantity(p, q)
    \/ \E p \in Products : RemoveLine(p)
    \/ ShowExample

Search ==
    \/ \E t \in Texts : Type(t)
    \/ SearchOnServer
    \/ \E s \in searches : SearchAnswers(s) \/ SearchFails(s)

EnterOrigin ==
    \/ \E t \in OriginTypes : ChangeType(t)
    \/ Relocate
    \/ \E n \in positions : Locate(n) \/ Unlocated(n)
    \/ \E a \in Addresses : TypeAddress(a)

Load == Opened \/ NotOpened \/ (\E c \in Chantiers : LoadFound(c)) \/ LoadMissing \/ LoadFails

SaveAs ==
    \/ OpenSaveAs \/ CancelSaveAs
    \/ \E a \in Addresses : TypeSaveAs(a)
    \/ SubmitSaveAs \/ SaveAsFails

PageNext ==
    \/ (EditMaterials \/ Search) /\ UNCHANGED <<entry, saving>>
    \/ EnterOrigin \/ Load \/ SaveAs
    \/ PageCompare \/ PageChoose
    \/ \E b \in Bases : PageToggle(b)
    \/ \E r \in inflight : PageAnswer(r)

PageSpec == PageInit /\ [][PageNext]_pageVars

-----------------------------------------------------------------------------
(* Properties *)

\* The origin compared is the one on the screen, everything it is read from being
\* followed by an invalidation: coordinates are those of the address shown with
\* them, a position answers the last request, and a chantier is created at the
\* coordinates of its own address or at none.
OriginIsEntered ==
    /\ origin = Selected
    /\ siteCoordinates # None =>
         siteCoordinates = (IF type = "site" THEN address ELSE saved["site"])
    /\ position # None => position = positionRequest /\ type = "current_location"
    /\ posted # None => posted.coordinates \in {None, posted.address}
=============================================================================
