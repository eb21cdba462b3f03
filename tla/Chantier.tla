------------------------------ MODULE Chantier ------------------------------
(***************************************************************************)
(* One building site ("chantier"): its list of needs, the procurement      *)
(* solution retained for it, and the purchase tracking of that solution    *)
(* (app/services/chantiers.py, approvisionnement.py, shopping_list.py),    *)
(* with the browser pages that read and write them                         *)
(* (app/static/chantiers.js, app.js, shopping_list.js).                    *)
(*                                                                         *)
(* Writes are optimistic: a page sends back the updated_at it has read,    *)
(* and one UPDATE ... WHERE updated_at = expected decides.  A request is   *)
(* in flight in pc; each action is one statement or one transaction of     *)
(* the server, or one answer a page receives.  A list of needs is one      *)
(* value, which stands for its fingerprint too; the tracking is that of    *)
(* one line, whose key every solution has.                                 *)
(***************************************************************************)
EXTENDS Naturals, FiniteSets

CONSTANTS
    Clients,     \* the browser pages
    Materials,   \* the lists of needs
    NoMaterials, \* no list
    Requested,   \* the requests the pages send
    Clock,       \* what utc_now() may answer
    MaxToken,    \* bound on the updated_at of the chantier
    MaxVersion,  \* bound on those of the tracking rows
    ClearRaces   \* may the needs change between an accepted clear and the
                 \* request by which the page takes its new updated_at?

ASSUME ChantierAssumption ==
    /\ NoMaterials \notin Materials
    /\ Requested \subseteq {"saving", "choosing", "clearing", "deleting", "tracking"}
    /\ Clock \subseteq Nat \ {0}
    /\ MaxToken \in Nat
    /\ MaxVersion \in Nat
    /\ ClearRaces \in BOOLEAN

VARIABLES
    chantier,   \* the row, its needs in one field; token 0: not created yet
    appro,      \* the retained solution, or NoAppro
    suivi,      \* the tracking rows
    pc,         \* what each page is waiting for
    view,       \* updated_at and needs, as each page has them
    needs,      \* the needs in the request of each page
    page,       \* solution and updated_at of the line on each shopping list
    track       \* what update_line has read for each page

chantierVars == <<chantier, appro, suivi, pc, view, needs, page, track>>

-----------------------------------------------------------------------------

AnyMaterials == Materials \cup {NoMaterials}

\* stamp stands for the snapshot token "id:strategy:chosen_at": no two solutions
\* are chosen in the same microsecond. id is that of the row, which an upsert
\* keeps.
NoAppro == [id |-> 0, stamp |-> 0, needs |-> NoMaterials]
NoView == [token |-> 0, materials |-> NoMaterials]
NoPage == [stamp |-> 0, version |-> 0]
NoTrack == [stamp |-> 0, appro |-> 0, version |-> 0]

InFlight == {"saving", "choosing", "clearing", "deleting"}
Phases == {"open", "loading", "checked", "cleared", "tracking", "tracked"} \cup InFlight

Rows == [stamp : Nat, appro : Nat, version : Nat]

\* The rows hold values of their columns, one tracking row per solution.
ChantierTypeOK ==
    /\ chantier \in [exists : BOOLEAN, token : Nat, materials : AnyMaterials]
    /\ appro \in [id : Nat, stamp : Nat, needs : AnyMaterials]
    /\ suivi \subseteq Rows
    /\ \A r, s \in suivi : r.stamp = s.stamp => r = s
    /\ pc \in [Clients -> Phases]
    /\ view \in [Clients -> [token : Nat, materials : AnyMaterials]]
    /\ needs \in [Clients -> AnyMaterials]
    /\ page \in [Clients -> [stamp : Nat, version : Nat]]
    /\ track \in [Clients -> Rows]

ChantierInit ==
    /\ chantier = [exists |-> FALSE, token |-> 0, materials |-> NoMaterials]
    /\ appro = NoAppro
    /\ suivi = {}
    /\ pc = [c \in Clients |-> "open"]
    /\ view = [c \in Clients |-> NoView]
    /\ needs = [c \in Clients |-> NoMaterials]
    /\ page = [c \in Clients |-> NoPage]
    /\ track = [c \in Clients |-> NoTrack]

Goto(c, to) == pc' = [pc EXCEPT ![c] = to]
\* The request is over: nothing is left of it.
Done(c) == /\ Goto(c, "open")
           /\ needs' = [needs EXCEPT ![c] = NoMaterials]
           /\ track' = [track EXCEPT ![c] = NoTrack]

\* Mutant: the new token is the time, whatever the token it replaces.
TimeOnly(expected, now) == now

\* max(utc_now(), expected + 1 microsecond).
NewToken(expected, now) == IF now > expected THEN now ELSE expected + 1

\* Mutant: the row is updated without WHERE updated_at = expected.
AcceptsAll(c) == chantier.exists

\* compare_and_update and compare_and_delete: one row is matched.
Accepts(c) == chantier.exists /\ chantier.token = view[c].token

\* The answer to an accepted request replaces what the page has, unless it is
\* lost on the way back; NoView: the browser moves to another page.
Answered(c, new) == \/ view' = [view EXCEPT ![c] = new]
                  \/ UNCHANGED view

\* See ClearRaces.
Undisturbed(c) == ClearRaces \/ \A d \in Clients \ {c} : pc[d] # "cleared"

-----------------------------------------------------------------------------
(* The needs *)

\* create.
Create(m) ==
    /\ chantier.token = 0
    /\ \E now \in Clock :
         chantier' = [exists |-> TRUE, token |-> now, materials |-> m]
    /\ UNCHANGED <<appro, suivi, pc, view, needs, page, track>>

\* GET of the chantier: its row first, then its needs.
LoadRow(c) ==
    /\ pc[c] = "open"
    /\ chantier.exists
    /\ view' = [view EXCEPT ![c].token = chantier.token]
    /\ Goto(c, "loading")
    /\ UNCHANGED <<chantier, appro, suivi, needs, page, track>>

\* If the row is gone meanwhile its needs are gone too: an empty list.
LoadMaterials(c) ==
    /\ pc[c] = "loading"
    /\ view' = [view EXCEPT ![c].materials = chantier.materials]
    /\ Goto(c, "open")
    /\ UNCHANGED <<chantier, appro, suivi, needs, page, track>>

\* The page sends a request: PUT of the needs, PUT of a solution chosen for
\* the compared needs, DELETE of the solution, DELETE of the chantier.
Send(c, kind, m) ==
    /\ pc[c] = "open"
    /\ kind \in Requested
    /\ view[c].token # 0
    /\ needs' = [needs EXCEPT ![c] =
                   IF kind \in {"saving", "choosing"} THEN m ELSE NoMaterials]
    /\ Goto(c, kind)
    /\ UNCHANGED <<chantier, appro, suivi, view, page, track>>

\* The answer is 404 or 409, or the request never arrives: the page keeps what
\* it has.
Rejected(c) ==
    /\ \/ pc[c] \in InFlight
       \/ pc[c] = "checked" /\ ~ Accepts(c)
       \/ pc[c] = "cleared"
    /\ Done(c)
    /\ UNCHANGED <<chantier, appro, suivi, view, page>>

\* update.
Update(c) ==
    /\ pc[c] = "saving"
    /\ Accepts(c) /\ Undisturbed(c)
    /\ \E now \in Clock :
         /\ NewToken(view[c].token, now) <= MaxToken
         /\ chantier' = [chantier EXCEPT !.token = NewToken(view[c].token, now),
                                         !.materials = needs[c]]
    /\ Answered(c, [token |-> chantier'.token, materials |-> needs[c]])
    /\ Done(c)
    /\ UNCHANGED <<appro, suivi, page>>

\* delete; what refers to the row goes with it.
Delete(c) ==
    /\ pc[c] = "deleting"
    /\ Accepts(c) /\ Undisturbed(c)
    /\ chantier' = [chantier EXCEPT !.exists = FALSE, !.materials = NoMaterials]
    /\ appro' = NoAppro
    /\ suivi' = {}
    /\ Answered(c, NoView)
    /\ Done(c)
    /\ UNCHANGED page

-----------------------------------------------------------------------------
(* The retained solution *)

\* upsert up to its check of the fingerprint.
RetainCheck(c) ==
    /\ pc[c] = "choosing"
    /\ chantier.exists
    /\ chantier.materials = needs[c]
    /\ Goto(c, "checked")
    /\ UNCHANGED <<chantier, appro, suivi, view, needs, page, track>>

\* upsert from compare_and_update to its commit.
RetainSwap(c) ==
    /\ pc[c] = "checked"
    /\ Accepts(c) /\ Undisturbed(c)
    /\ \E now \in Clock :
         LET token == NewToken(view[c].token, now) IN
         /\ token <= MaxToken
         /\ chantier' = [chantier EXCEPT !.token = token]
         /\ appro' = [id |-> IF appro = NoAppro THEN token ELSE appro.id,
                      stamp |-> token, needs |-> needs[c]]
    /\ Answered(c, NoView)
    /\ Done(c)
    /\ UNCHANGED <<suivi, page>>

\* delete; its tracking rows go with it.
Clear(c) ==
    /\ pc[c] = "clearing"
    /\ appro # NoAppro
    /\ Accepts(c) /\ Undisturbed(c)
    /\ \E now \in Clock :
         /\ NewToken(view[c].token, now) <= MaxToken
         /\ chantier' = [chantier EXCEPT !.token = NewToken(view[c].token, now)]
    /\ suivi' = {r \in suivi : r.appro # appro.id}
    /\ appro' = NoAppro
    /\ Goto(c, "cleared")
    /\ UNCHANGED <<view, needs, page, track>>

\* After an accepted clear the page reads the chantier again: it takes the
\* updated_at of the answer and keeps its own list of needs.
TakeToken(c) ==
    /\ pc[c] = "cleared"
    /\ chantier.exists
    /\ view' = [view EXCEPT ![c].token = chantier.token]
    /\ Done(c)
    /\ UNCHANGED <<chantier, appro, suivi, page>>

-----------------------------------------------------------------------------
(* The tracking of a line *)

Tracking(stamp) == {r \in suivi : r.stamp = stamp}

\* updated_at of the line as a page shows it; 0 stands for null.
VersionOf(stamp) ==
    IF Tracking(stamp) = {} THEN 0 ELSE (CHOOSE r \in Tracking(stamp) : TRUE).version

\* The shopping list is loaded.
OpenList(c) ==
    /\ pc[c] = "open"
    /\ "tracking" \in Requested
    /\ appro # NoAppro
    /\ page' = [page EXCEPT ![c] = [stamp |-> appro.stamp,
                                    version |-> VersionOf(appro.stamp)]]
    /\ UNCHANGED <<chantier, appro, suivi, pc, view, needs, track>>

\* update_line up to its conditions: the line of the solution retained now is
\* the one the request is about.
TrackRead(c) ==
    /\ pc[c] = "open"
    /\ "tracking" \in Requested
    /\ page[c].stamp # 0
    /\ appro # NoAppro
    /\ page[c].version = VersionOf(appro.stamp)
    /\ track' = [track EXCEPT ![c] = [stamp |-> appro.stamp, appro |-> appro.id,
                                      version |-> page[c].version]]
    /\ Goto(c, "tracking")
    /\ UNCHANGED <<chantier, appro, suivi, view, needs, page>>

\* The foreign key and the uniqueness of the table.
Insertable(t) == appro.id = t.appro /\ Tracking(t.stamp) = {}

\* The INSERT.
TrackInsert(c) ==
    /\ pc[c] = "tracking"
    /\ track[c].version = 0
    /\ Insertable(track[c])
    /\ \E now \in Clock :
         suivi' = suivi \cup {[track[c] EXCEPT !.version = now]}
    /\ Goto(c, "tracked")
    /\ UNCHANGED <<chantier, appro, view, needs, page, track>>

\* The UPDATE, by primary key; the new updated_at is computed from the one read.
TrackUpdate(c) ==
    /\ pc[c] = "tracking"
    /\ track[c].version # 0
    /\ \E row \in Tracking(track[c].stamp), now \in Clock :
         /\ row.appro = track[c].appro
         /\ NewToken(track[c].version, now) <= MaxVersion
         /\ suivi' = (suivi \ {row}) \cup
                       {[track[c] EXCEPT !.version = NewToken(@, now)]}
    /\ Goto(c, "tracked")
    /\ UNCHANGED <<chantier, appro, view, needs, page, track>>

\* IntegrityError or StaleDataError: 503.
TrackFails(c) ==
    /\ pc[c] = "tracking"
    /\ IF track[c].version = 0
          THEN ~ Insertable(track[c])
          ELSE \A r \in Tracking(track[c].stamp) : r.appro # track[c].appro
    /\ Done(c)
    /\ UNCHANGED <<chantier, appro, suivi, view, page>>

\* The row is read again for the answer, which may be lost.
TrackAnswer(c) ==
    /\ pc[c] = "tracked"
    /\ \/ /\ Tracking(track[c].stamp) # {}
          /\ page' = [page EXCEPT ![c].version = VersionOf(track[c].stamp)]
       \/ UNCHANGED page
    /\ Done(c)
    /\ UNCHANGED <<chantier, appro, suivi, view>>

-----------------------------------------------------------------------------

ChantierNext ==
    \/ \E m \in Materials : Create(m)
    \/ \E c \in Clients :
         \/ \E kind \in InFlight, m \in Materials : Send(c, kind, m)
         \/ LoadRow(c) \/ LoadMaterials(c) \/ Rejected(c)
         \/ Update(c) \/ Delete(c)
         \/ RetainCheck(c) \/ RetainSwap(c) \/ Clear(c) \/ TakeToken(c)
         \/ OpenList(c) \/ TrackRead(c) \/ TrackInsert(c) \/ TrackUpdate(c)
         \/ TrackFails(c) \/ TrackAnswer(c)

ChantierSpec == ChantierInit /\ [][ChantierNext]_chantierVars

-----------------------------------------------------------------------------
(* Properties *)

\* A page whose updated_at is that of the row shows the needs of the row: a
\* token that matches is never that of other contents, although the two were
\* read at different moments and the clock may stand still or go back.
SeenIsCurrent ==
    \A c \in Clients :
        /\ pc[c] # "loading"
        /\ chantier.exists
        /\ view[c].token = chantier.token
        => view[c].materials = chantier.materials

\* SeenIsCurrent is not inductive: no page has a token of the future, and a page
\* that waits for the token of its own clear has the needs of the row already.
SeenInv ==
    /\ SeenIsCurrent
    /\ \A c \in Clients : view[c].token <= chantier.token
    /\ \A c \in Clients : pc[c] = "cleared" /\ chantier.exists =>
         view[c].materials = chantier.materials
    /\ \A c \in Clients : pc[c] = "cleared" => view[c].token # 0
    /\ chantier.exists => chantier.token # 0

\* A request that passed the check of the fingerprint and will be accepted still
\* is about the needs of the row.
CheckedInv ==
    /\ \A c \in Clients : view[c].token <= chantier.token
    /\ \A c \in Clients :
         pc[c] = "checked" /\ Accepts(c) => chantier.materials = needs[c]

\* Nobody changes or deletes needs, nor replaces or clears a solution, without
\* having the current needs on the page ("Ce chantier a ete modifie ou supprime.
\* Rechargez avant d'enregistrer").
NoBlindOverwrite ==
    [][\A c \in Clients :
         /\ pc[c] \in InFlight \cup {"checked"} /\ pc'[c] # pc[c]
         /\ chantier' # chantier
         => view[c].materials = chantier.materials]_chantierVars

\* A solution is retained for the needs the chantier has at that moment, although
\* they are compared before the row is locked.
RetainedFresh ==
    [][appro'.stamp # appro.stamp /\ appro' # NoAppro
         => appro'.needs = chantier'.materials]_chantierVars
=============================================================================
