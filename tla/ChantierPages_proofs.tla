-------------------------- MODULE ChantierPages_proofs --------------------------
(***************************************************************************)
(* Proofs about Chantier and about ComparatorPage, the two sides of a      *)
(* chantier: its row with the pages that write it, and the page of the     *)
(* comparator that is opened on it.                                        *)
(*                                                                         *)
(* Of Chantier: for any set of pages and of lists of needs, any clock and  *)
(* no bound that matters (MaxToken and MaxVersion are only used in         *)
(* guards).                                                                *)
(*                                                                         *)
(* Of ComparatorPage: for any carts, origins, bases and strategies.  The   *)
(* results shown are current because an answer carries the revision it     *)
(* was asked at, and every edit of the cart or of the origin takes a new   *)
(* revision: a question of the current revision is a question about what   *)
(* is on the screen.  ComparatorInv says so; with TypeOK it is inductive.  *)
(* (TypeOK is not so alone: that a solution is chosen among results needs  *)
(* that there are results where they are visible.)                         *)
(***************************************************************************)
EXTENDS Chantier, ComparatorPage, TLAPS

-----------------------------------------------------------------------------
(* The row of a chantier: tokens and types *)

\* A new token is greater than the one it replaces, whatever the clock says.
LEMMA NewTokenGrows ==
    ASSUME NEW expected \in Nat, NEW now \in Clock
    PROVE  NewToken(expected, now) \in Nat /\ NewToken(expected, now) > expected
  BY ChantierAssumption, SMT DEF NewToken

LEMMA InitType == ChantierInit => ChantierTypeOK
  BY ChantierAssumption, SMT
  DEF ChantierInit, ChantierTypeOK, NoAppro, NoView, NoPage, NoTrack, AnyMaterials, Phases,
      InFlight, Rows

\* The end of a request keeps the types of what it resets.
LEMMA DoneType ==
    ASSUME ChantierTypeOK, NEW c \in Clients, Done(c)
    PROVE  /\ pc' \in [Clients -> Phases]
           /\ needs' \in [Clients -> AnyMaterials]
           /\ track' \in [Clients -> Rows]
  BY SMT DEF ChantierTypeOK, Done, Goto, Phases, AnyMaterials, NoTrack, Rows

\* So does the answer to a request.
LEMMA AnswerType ==
    ASSUME ChantierTypeOK, NEW c \in Clients,
           NEW new \in [token : Nat, materials : AnyMaterials], Answered(c, new)
    PROVE  view' \in [Clients -> [token : Nat, materials : AnyMaterials]]
  BY SMT DEF ChantierTypeOK, Answered

LEMMA NoViewType == NoView \in [token : Nat, materials : AnyMaterials]
  BY SMT DEF NoView, AnyMaterials

\* The version a page shows is a number, whatever the rows.
LEMMA VersionType ==
    ASSUME ChantierTypeOK, NEW s \in Nat
    PROVE  VersionOf(s) \in Nat
<1>1. CASE Tracking(s) = {}
  BY <1>1, SMT DEF VersionOf
<1>2. CASE Tracking(s) # {}
  <2>1. (CHOOSE r \in Tracking(s) : TRUE) \in Tracking(s)
    BY <1>2, Zenon
  <2>2. Tracking(s) \subseteq Rows
    BY SMT DEF Tracking, ChantierTypeOK
  <2> QED BY <1>2, <2>1, <2>2, SMT DEF VersionOf, Rows
<1> QED BY <1>1, <1>2

\* Every step of a page keeps the types.
LEMMA NextType == ChantierTypeOK /\ [ChantierNext]_chantierVars => ChantierTypeOK'
<1> SUFFICES ASSUME ChantierTypeOK, [ChantierNext]_chantierVars PROVE ChantierTypeOK'
  OBVIOUS
<1>1. CASE UNCHANGED chantierVars
  BY <1>1, SMT DEF chantierVars, ChantierTypeOK
<1>2. ASSUME NEW m \in Materials, Create(m) PROVE ChantierTypeOK'
  BY <1>2, ChantierAssumption, SMT DEF ChantierTypeOK, Create, AnyMaterials
<1>3. ASSUME NEW c \in Clients PROVE
        (\/ \E kind \in InFlight, m \in Materials : Send(c, kind, m)
         \/ LoadRow(c) \/ LoadMaterials(c) \/ Rejected(c)
         \/ Update(c) \/ Delete(c)
         \/ RetainCheck(c) \/ RetainSwap(c) \/ Clear(c) \/ TakeToken(c)
         \/ OpenList(c) \/ TrackRead(c) \/ TrackInsert(c) \/ TrackUpdate(c)
         \/ TrackFails(c) \/ TrackAnswer(c)) => ChantierTypeOK'
  <2>1. ASSUME NEW kind \in InFlight, NEW m \in Materials, Send(c, kind, m)
        PROVE ChantierTypeOK'
    BY <2>1, SMT DEF ChantierTypeOK, Send, Goto, AnyMaterials, Phases, InFlight
  <2>2. LoadRow(c) => ChantierTypeOK'
    BY SMT DEF ChantierTypeOK, LoadRow, Goto, Phases
  <2>3. LoadMaterials(c) => ChantierTypeOK'
    BY SMT DEF ChantierTypeOK, LoadMaterials, Goto, Phases
  <2>4. Rejected(c) => ChantierTypeOK'
    BY DoneType, SMT DEF ChantierTypeOK, Rejected
  <2>5. ASSUME Update(c) PROVE ChantierTypeOK'
    <3>1. view[c].token \in Nat /\ needs[c] \in AnyMaterials
      BY SMT DEF ChantierTypeOK
    <3>2. chantier' \in [exists : BOOLEAN, token : Nat, materials : AnyMaterials]
      <4>1. PICK now \in Clock :
              chantier' = [chantier EXCEPT !.token = NewToken(view[c].token, now),
                                           !.materials = needs[c]]
        BY <2>5 DEF Update
      <4>2. NewToken(view[c].token, now) \in Nat
        BY <3>1, NewTokenGrows
      <4> QED BY <3>1, <4>1, <4>2 DEF ChantierTypeOK
    <3>3. view' \in [Clients -> [token : Nat, materials : AnyMaterials]]
      <4>1. [token |-> chantier'.token, materials |-> needs[c]]
              \in [token : Nat, materials : AnyMaterials]
        BY <3>1, <3>2
      <4> QED BY <2>5, <4>1, AnswerType DEF Update
    <3> QED BY <2>5, <3>2, <3>3, DoneType, SMT DEF ChantierTypeOK, Update
  <2>6. ASSUME Delete(c) PROVE ChantierTypeOK'
    <3>1. view' \in [Clients -> [token : Nat, materials : AnyMaterials]]
      BY <2>6, AnswerType, NoViewType, SMT DEF Delete
    <3>2. Done(c)
      BY <2>6 DEF Delete
    <3>3. /\ pc' \in [Clients -> Phases]
          /\ needs' \in [Clients -> AnyMaterials]
          /\ track' \in [Clients -> Rows]
      BY <3>2, DoneType
    <3>4. /\ chantier' = [chantier EXCEPT !.exists = FALSE,
                                          !.materials = NoMaterials]
          /\ appro' = NoAppro /\ suivi' = {} /\ page' = page
      BY <2>6 DEF Delete
    <3>5. chantier' \in [exists : BOOLEAN, token : Nat, materials : AnyMaterials]
      <4>1. NoMaterials \in AnyMaterials
        BY DEF AnyMaterials
      <4> QED BY <3>4, <4>1 DEF ChantierTypeOK
    <3>6. appro' \in [id : Nat, stamp : Nat, needs : AnyMaterials]
      BY <3>4, SMT DEF NoAppro, AnyMaterials
    <3> QED BY <3>1, <3>3, <3>4, <3>5, <3>6, SMT DEF ChantierTypeOK
  <2>7. RetainCheck(c) => ChantierTypeOK'
    BY SMT DEF ChantierTypeOK, RetainCheck, Goto, Phases
  <2>8. ASSUME RetainSwap(c) PROVE ChantierTypeOK'
    <3>1. view[c].token \in Nat /\ needs[c] \in AnyMaterials
      BY SMT DEF ChantierTypeOK
    <3>2. PICK now \in Clock :
            /\ chantier' = [chantier EXCEPT !.token = NewToken(view[c].token, now)]
            /\ appro' = [id |-> IF appro = NoAppro
                                   THEN NewToken(view[c].token, now) ELSE appro.id,
                         stamp |-> NewToken(view[c].token, now), needs |-> needs[c]]
      BY <2>8, SMT DEF RetainSwap
    <3>3. NewToken(view[c].token, now) \in Nat
      BY <3>1, NewTokenGrows, SMT
    <3>4. view' \in [Clients -> [token : Nat, materials : AnyMaterials]]
      BY <2>8, AnswerType, NoViewType, SMT DEF RetainSwap
    <3>5. /\ pc' \in [Clients -> Phases]
          /\ needs' \in [Clients -> AnyMaterials]
          /\ track' \in [Clients -> Rows]
      BY <2>8, DoneType DEF RetainSwap
    <3>6. /\ chantier' \in [exists : BOOLEAN, token : Nat, materials : AnyMaterials]
          /\ appro' \in [id : Nat, stamp : Nat, needs : AnyMaterials]
      BY <3>1, <3>2, <3>3, SMT DEF ChantierTypeOK
    <3>7. suivi' = suivi /\ page' = page
      BY <2>8 DEF RetainSwap
    <3> QED BY <3>4, <3>5, <3>6, <3>7, SMT DEF ChantierTypeOK
  <2>9. ASSUME Clear(c) PROVE ChantierTypeOK'
    <3>1. view[c].token \in Nat
      BY SMT DEF ChantierTypeOK
    <3>2. chantier' \in [exists : BOOLEAN, token : Nat, materials : AnyMaterials]
      <4>1. PICK now \in Clock :
              chantier' = [chantier EXCEPT !.token = NewToken(view[c].token, now)]
        BY <2>9 DEF Clear
      <4>2. NewToken(view[c].token, now) \in Nat
        BY <3>1, NewTokenGrows
      <4> QED BY <4>1, <4>2 DEF ChantierTypeOK
    <3> QED BY <2>9, <3>2, SMT
        DEF ChantierTypeOK, Clear, Goto, NoAppro, AnyMaterials, Phases
  <2>10. TakeToken(c) => ChantierTypeOK'
    BY DoneType, SMT DEF ChantierTypeOK, TakeToken
  <2>11. ASSUME OpenList(c) PROVE ChantierTypeOK'
    BY <2>11, VersionType, SMT DEF ChantierTypeOK, OpenList
  <2>12. ASSUME TrackRead(c) PROVE ChantierTypeOK'
    BY <2>12, SMT DEF ChantierTypeOK, TrackRead, Goto, Phases, Rows
  <2>13. ASSUME TrackInsert(c) PROVE ChantierTypeOK'
    <3>1. PICK now \in Clock : suivi' = suivi \cup {[track[c] EXCEPT !.version = now]}
      BY <2>13, SMT DEF TrackInsert
    <3>2. /\ track[c] \in Rows /\ now \in Nat
          /\ Tracking(track[c].stamp) = {}
      BY <2>13, ChantierAssumption, SMT DEF ChantierTypeOK, TrackInsert, Insertable
    <3>3. suivi' \subseteq Rows /\ \A r, s \in suivi' : r.stamp = s.stamp => r = s
      <4> DEFINE new == [track[c] EXCEPT !.version = now]
      <4>1. new \in Rows /\ new.stamp = track[c].stamp
        BY <3>2 DEF Rows
      <4>2. \A r \in suivi : r.stamp # track[c].stamp
        BY <3>2 DEF Tracking
      <4>3. suivi' = suivi \cup {new}
        BY <3>1
      <4> HIDE DEF new
      <4> QED BY <4>1, <4>2, <4>3, SMT DEF ChantierTypeOK
    <3> QED BY <2>13, <3>3, SMT DEF ChantierTypeOK, TrackInsert, Goto, Phases
  <2>14. ASSUME TrackUpdate(c) PROVE ChantierTypeOK'
    <3>1. PICK row \in Tracking(track[c].stamp), now \in Clock :
            suivi' = (suivi \ {row}) \cup
                       {[track[c] EXCEPT !.version = NewToken(@, now)]}
      BY <2>14, SMT DEF TrackUpdate
    <3>2. track[c] \in Rows /\ NewToken(track[c].version, now) \in Nat
      BY NewTokenGrows, SMT DEF ChantierTypeOK, Rows
    <3>3. row \in suivi /\ row.stamp = track[c].stamp
      BY DEF Tracking
    <3>4. \A r \in suivi : r.stamp = row.stamp => r = row
      BY <3>3 DEF ChantierTypeOK
    <3> DEFINE new == [track[c] EXCEPT !.version = NewToken(@, now)]
    <3>5. new \in Rows /\ new.stamp = track[c].stamp
      BY <3>2 DEF Rows
    <3>6. suivi' \subseteq Rows /\ \A r, s \in suivi' : r.stamp = s.stamp => r = s
      <4>1. suivi' = (suivi \ {row}) \cup {new}
        BY <3>1
      <4> HIDE DEF new
      <4> QED BY <4>1, <3>3, <3>4, <3>5, SMT DEF ChantierTypeOK
    <3> QED BY <2>14, <3>6, SMT DEF ChantierTypeOK, TrackUpdate, Goto, Phases
  <2>15. TrackFails(c) => ChantierTypeOK'
    BY DoneType, SMT DEF ChantierTypeOK, TrackFails
  <2>16. ASSUME TrackAnswer(c) PROVE ChantierTypeOK'
    <3>1. VersionOf(track[c].stamp) \in Nat
      BY VersionType, SMT DEF ChantierTypeOK, Rows
    <3>2. /\ pc' \in [Clients -> Phases]
          /\ needs' \in [Clients -> AnyMaterials]
          /\ track' \in [Clients -> Rows]
      BY <2>16, DoneType DEF TrackAnswer
    <3>3. page' \in [Clients -> [stamp : Nat, version : Nat]]
      BY <2>16, <3>1, SMT DEF ChantierTypeOK, TrackAnswer
    <3> QED BY <2>16, <3>2, <3>3, SMT DEF ChantierTypeOK, TrackAnswer
  <2> QED BY <2>1, <2>2, <2>3, <2>4, <2>5, <2>6, <2>7, <2>8, <2>9, <2>10, <2>11,
             <2>12, <2>13, <2>14, <2>15, <2>16
<1> QED BY <1>1, <1>2, <1>3, SMT DEF ChantierNext

\* The rows of the database keep the types of their columns, and one tracking
\* row per solution, whatever the pages send and in whatever order.
THEOREM ChantierTypeCorrect == ChantierSpec => []ChantierTypeOK
  BY InitType, NextType, PTL DEF ChantierSpec

-----------------------------------------------------------------------------
(* The tokens *)

\* An accepted request replaces the token by one that no page has.
LEMMA AcceptedToken ==
    ASSUME ChantierTypeOK, NEW c \in Clients, Accepts(c), NEW now \in Clock
    PROVE  /\ NewToken(view[c].token, now) \in Nat
           /\ NewToken(view[c].token, now) > chantier.token
<1>1. view[c].token \in Nat /\ chantier.token = view[c].token
  BY DEF ChantierTypeOK, Accepts
<1> QED BY <1>1, NewTokenGrows

\* Pages only have tokens the row has had.
TokensKnown == \A c \in Clients : view[c].token <= chantier.token

\* What an answer leaves in the views.
LEMMA AnswerTokens ==
    ASSUME ChantierTypeOK, TokensKnown, NEW c \in Clients,
           NEW new \in [token : Nat, materials : AnyMaterials], Answered(c, new),
           chantier'.token \in Nat, chantier'.token >= chantier.token,
           new.token <= chantier'.token
    PROVE  TokensKnown'
  BY SMT DEF TokensKnown, Answered, ChantierTypeOK

LEMMA TokensStep == ChantierTypeOK /\ TokensKnown /\ [ChantierNext]_chantierVars => TokensKnown'
<1> SUFFICES ASSUME ChantierTypeOK, TokensKnown, [ChantierNext]_chantierVars PROVE TokensKnown'
  OBVIOUS
<1>1. CASE UNCHANGED chantierVars
  BY <1>1 DEF chantierVars, TokensKnown
<1>2. ASSUME NEW m \in Materials, Create(m) PROVE TokensKnown'
  BY <1>2, ChantierAssumption, SMT DEF ChantierTypeOK, Create, TokensKnown
<1>3. ASSUME NEW c \in Clients,
             \/ \E kind \in InFlight, m \in Materials : Send(c, kind, m)
             \/ Rejected(c) \/ RetainCheck(c)
             \/ OpenList(c) \/ TrackRead(c) \/ TrackInsert(c) \/ TrackUpdate(c)
             \/ TrackFails(c) \/ TrackAnswer(c)
      PROVE TokensKnown'
  <2>1. UNCHANGED <<chantier, view>>
    BY <1>3 DEF Send, Rejected, RetainCheck, OpenList, TrackRead, TrackInsert,
                TrackUpdate, TrackFails, TrackAnswer
  <2> QED BY <2>1 DEF TokensKnown
<1>4. ASSUME NEW c \in Clients, LoadRow(c) \/ LoadMaterials(c) \/ TakeToken(c)
      PROVE TokensKnown'
  <2>1. chantier' = chantier
    BY <1>4 DEF LoadRow, LoadMaterials, TakeToken
  <2>2. view'[c].token \in {view[c].token, chantier.token}
    BY <1>4, SMT DEF ChantierTypeOK, LoadRow, LoadMaterials, TakeToken
  <2>3. \A d \in Clients \ {c} : view'[d] = view[d]
    BY <1>4, SMT DEF ChantierTypeOK, LoadRow, LoadMaterials, TakeToken
  <2>4. chantier.token \in Nat
    BY DEF ChantierTypeOK
  <2> QED BY <2>1, <2>2, <2>3, <2>4, SMT DEF TokensKnown
<1>5. ASSUME NEW c \in Clients, Update(c) PROVE TokensKnown'
  <2>1. PICK now \in Clock :
          chantier' = [chantier EXCEPT !.token = NewToken(view[c].token, now),
                                       !.materials = needs[c]]
    BY <1>5 DEF Update
  <2>2. /\ NewToken(view[c].token, now) \in Nat
        /\ NewToken(view[c].token, now) > chantier.token
    BY <1>5, AcceptedToken DEF Update
  <2>3. /\ chantier'.token \in Nat /\ chantier'.token >= chantier.token
        /\ needs[c] \in AnyMaterials
    BY <2>1, <2>2, SMT DEF ChantierTypeOK
  <2>4. [token |-> chantier'.token, materials |-> needs[c]]
          \in [token : Nat, materials : AnyMaterials]
    BY <2>3
  <2> QED BY <1>5, <2>3, <2>4, AnswerTokens, SMT DEF Update
<1>6. ASSUME NEW c \in Clients, Delete(c) PROVE TokensKnown'
  <2>1. chantier'.token = chantier.token /\ chantier.token \in Nat
    BY <1>6, SMT DEF Delete, ChantierTypeOK
  <2> QED BY <1>6, <2>1, NoViewType, AnswerTokens, SMT DEF Delete, NoView
<1>7. ASSUME NEW c \in Clients, RetainSwap(c) PROVE TokensKnown'
  <2>1. PICK now \in Clock :
          chantier' = [chantier EXCEPT !.token = NewToken(view[c].token, now)]
    BY <1>7 DEF RetainSwap
  <2>2. /\ NewToken(view[c].token, now) \in Nat
        /\ NewToken(view[c].token, now) > chantier.token
    BY <1>7, AcceptedToken DEF RetainSwap
  <2>3. chantier'.token \in Nat /\ chantier'.token >= chantier.token
    BY <2>1, <2>2, SMT DEF ChantierTypeOK
  <2> QED BY <1>7, <2>3, NoViewType, AnswerTokens, SMT DEF RetainSwap, NoView
<1>8. ASSUME NEW c \in Clients, Clear(c) PROVE TokensKnown'
  <2>1. PICK now \in Clock :
          chantier' = [chantier EXCEPT !.token = NewToken(view[c].token, now)]
    BY <1>8 DEF Clear
  <2>2. /\ NewToken(view[c].token, now) \in Nat
        /\ NewToken(view[c].token, now) > chantier.token
    BY <1>8, AcceptedToken DEF Clear
  <2>3. view' = view
    BY <1>8 DEF Clear
  <2> QED BY <2>1, <2>2, <2>3, SMT DEF ChantierTypeOK, TokensKnown
<1> QED BY <1>1, <1>2, <1>3, <1>4, <1>5, <1>6, <1>7, <1>8, SMT DEF ChantierNext

-----------------------------------------------------------------------------
(* A solution is retained for the current needs *)

\* After a step that changes the token beyond what any page has, no request that
\* was checked will be accepted.
LEMMA NewTokenRejects ==
    ASSUME ChantierTypeOK, TokensKnown, NEW c \in Clients,
           pc' = [pc EXCEPT ![c] = pc'[c]], pc'[c] # "checked",
           chantier'.token \in Nat, chantier'.token > chantier.token,
           \A d \in Clients \ {c} : view'[d] = view[d]
    PROVE  \A d \in Clients : pc'[d] = "checked" => ~ Accepts(d)'
  BY SMT DEF ChantierTypeOK, TokensKnown, Accepts

LEMMA CheckedStep == ChantierTypeOK /\ CheckedInv /\ [ChantierNext]_chantierVars => CheckedInv'
<1> DEFINE Ready == \A c \in Clients :
             pc[c] = "checked" /\ Accepts(c) => chantier.materials = needs[c]
<1> SUFFICES ASSUME ChantierTypeOK, TokensKnown, Ready, [ChantierNext]_chantierVars
             PROVE  TokensKnown' /\ Ready'
  BY DEF CheckedInv, TokensKnown
<1>0. TokensKnown'
  BY TokensStep
<1>1. CASE UNCHANGED chantierVars
  BY <1>0, <1>1 DEF chantierVars, Accepts
<1>2. ASSUME NEW m \in Materials, Create(m) PROVE Ready'
  BY <1>2, ChantierAssumption, SMT DEF ChantierTypeOK, Create, TokensKnown, Accepts
<1>3. ASSUME NEW c \in Clients,
             \/ \E kind \in InFlight, m \in Materials : Send(c, kind, m)
             \/ Rejected(c)
             \/ TrackRead(c) \/ TrackInsert(c) \/ TrackUpdate(c)
             \/ TrackFails(c) \/ TrackAnswer(c)
      PROVE Ready'
  <2>1. UNCHANGED <<chantier, view>>
    BY <1>3 DEF Send, Rejected, TrackRead, TrackInsert, TrackUpdate, TrackFails,
                TrackAnswer
  <2>2. pc'[c] # "checked"
    BY <1>3, SMT DEF Send, Rejected, TrackRead, TrackInsert, TrackUpdate,
                     TrackFails, TrackAnswer, Done, Goto, ChantierTypeOK, InFlight
  <2>3. \A d \in Clients \ {c} : pc'[d] = pc[d] /\ needs'[d] = needs[d]
    BY <1>3, SMT DEF Send, Rejected, TrackRead, TrackInsert, TrackUpdate,
                     TrackFails, TrackAnswer, Done, Goto, ChantierTypeOK
  <2> QED BY <2>1, <2>2, <2>3 DEF Accepts
<1>4. ASSUME NEW c \in Clients, LoadRow(c) \/ LoadMaterials(c) \/ TakeToken(c)
      PROVE Ready'
  <2>1. chantier' = chantier /\ pc'[c] # "checked"
    BY <1>4, SMT DEF ChantierTypeOK, LoadRow, LoadMaterials, TakeToken, Goto, Done
  <2>2. \A d \in Clients \ {c} :
          pc'[d] = pc[d] /\ needs'[d] = needs[d] /\ view'[d] = view[d]
    BY <1>4, SMT DEF ChantierTypeOK, LoadRow, LoadMaterials, TakeToken, Goto, Done
  <2> QED BY <2>1, <2>2 DEF Accepts
<1>5. ASSUME NEW c \in Clients, RetainCheck(c) PROVE Ready'
  BY <1>5, SMT DEF ChantierTypeOK, RetainCheck, Goto, Accepts
<1>6. ASSUME NEW c \in Clients, OpenList(c) PROVE Ready'
  BY <1>6 DEF OpenList, Accepts
<1>7. ASSUME NEW c \in Clients, Update(c) \/ RetainSwap(c) \/ Clear(c)
      PROVE Ready'
  <2>1. PICK now \in Clock : chantier'.token = NewToken(view[c].token, now)
    <3>1. CASE Update(c)
      <4>1. PICK now \in Clock :
              chantier' = [chantier EXCEPT !.token = NewToken(view[c].token, now),
                                           !.materials = needs[c]]
        BY <3>1 DEF Update
      <4> QED BY <4>1 DEF ChantierTypeOK
    <3>2. CASE RetainSwap(c) \/ Clear(c)
      <4>1. PICK now \in Clock :
              chantier' = [chantier EXCEPT !.token = NewToken(view[c].token, now)]
        BY <3>2 DEF RetainSwap, Clear
      <4> QED BY <4>1 DEF ChantierTypeOK
    <3> QED BY <1>7, <3>1, <3>2
  <2>2. chantier'.token \in Nat /\ chantier'.token > chantier.token
    BY <1>7, <2>1, AcceptedToken DEF Update, RetainSwap, Clear
  <2>3. pc' = [pc EXCEPT ![c] = pc'[c]] /\ pc'[c] # "checked"
    <3>1. \E to \in {"open", "cleared"} : pc' = [pc EXCEPT ![c] = to]
      BY <1>7 DEF Update, RetainSwap, Clear, Goto, Done
    <3> QED BY <3>1, SMT DEF ChantierTypeOK
  <2>4. \A d \in Clients \ {c} : view'[d] = view[d]
    <3>1. view' = view \/ \E new : view' = [view EXCEPT ![c] = new]
      BY <1>7 DEF Update, RetainSwap, Clear, Answered
    <3> QED BY <3>1 DEF ChantierTypeOK
  <2> QED BY <2>2, <2>3, <2>4, NewTokenRejects
<1>8. ASSUME NEW c \in Clients, Delete(c) PROVE Ready'
  <2>1. ~ chantier'.exists
    BY <1>8, SMT DEF ChantierTypeOK, Delete
  <2> QED BY <2>1 DEF Accepts
<1> QED BY <1>0, <1>1, <1>2, <1>3, <1>4, <1>5, <1>6, <1>7, <1>8, SMT DEF ChantierNext

LEMMA CheckedInit == ChantierInit => CheckedInv
  BY SMT DEF ChantierInit, CheckedInv, NoView, Accepts

\* The only step that retains a solution is the compare-and-update of upsert.
LEMMA RetainedStep ==
    ChantierTypeOK /\ CheckedInv /\ [ChantierNext]_chantierVars =>
      (appro'.stamp # appro.stamp /\ appro' # NoAppro
         => appro'.needs = chantier'.materials)
<1> SUFFICES ASSUME ChantierTypeOK, CheckedInv, [ChantierNext]_chantierVars,
                    appro'.stamp # appro.stamp, appro' # NoAppro
             PROVE  appro'.needs = chantier'.materials
  OBVIOUS
<1>1. PICK c \in Clients : RetainSwap(c)
  <2>1. UNCHANGED chantierVars \/ (\E m \in Materials : Create(m)) => appro' = appro
    BY DEF chantierVars, Create
  <2>2. ASSUME NEW c \in Clients,
               \/ \E kind \in InFlight, m \in Materials : Send(c, kind, m)
               \/ LoadRow(c) \/ LoadMaterials(c) \/ Rejected(c) \/ Update(c)
               \/ RetainCheck(c) \/ TakeToken(c)
               \/ OpenList(c) \/ TrackRead(c) \/ TrackInsert(c) \/ TrackUpdate(c)
               \/ TrackFails(c) \/ TrackAnswer(c)
        PROVE  appro' = appro
    BY <2>2 DEF Send, LoadRow, LoadMaterials, Rejected, Update, RetainCheck,
           TakeToken, OpenList, TrackRead, TrackInsert, TrackUpdate, TrackFails,
           TrackAnswer
  <2>3. ASSUME NEW c \in Clients, Delete(c) \/ Clear(c)
        PROVE  appro' = NoAppro
    BY <2>3 DEF Delete, Clear
  <2> QED BY <2>1, <2>2, <2>3, Zenon DEF ChantierNext
<1>2. chantier.materials = needs[c]
  BY <1>1 DEF CheckedInv, RetainSwap
<1> QED BY <1>1, <1>2, SMT DEF RetainSwap, ChantierTypeOK

\* A solution that becomes the retained one was chosen for the needs the
\* chantier has at that moment: the fingerprint compared before the row is locked
\* still holds when the token matches.  It needs no assumption on the pages, nor
\* on the clock.
THEOREM RetainedForCurrentNeeds == ChantierSpec => RetainedFresh
<1>1. ChantierInit => CheckedInv /\ ChantierTypeOK
  BY InitType, CheckedInit
<1>2. ChantierTypeOK /\ CheckedInv /\ [ChantierNext]_chantierVars => (ChantierTypeOK /\ CheckedInv)'
  BY NextType, CheckedStep
<1> QED BY <1>1, <1>2, RetainedStep, PTL DEF ChantierSpec, RetainedFresh

-----------------------------------------------------------------------------
(* A token that matches is that of the needs on the page *)

\* The parts of SeenInv beside TokensKnown.
ClearedSees == \A c \in Clients : pc[c] = "cleared" /\ chantier.exists =>
                 view[c].materials = chantier.materials
ClearedToken == \A c \in Clients : pc[c] = "cleared" => view[c].token # 0
TokenSet == chantier.exists => chantier.token # 0

LEMMA SeenParts ==
    SeenInv <=> SeenIsCurrent /\ TokensKnown /\ ClearedSees /\ ClearedToken /\ TokenSet
  BY DEF SeenInv, TokensKnown, ClearedSees, ClearedToken, TokenSet

\* An accepted request that gives the row a new token keeps SeenIsCurrent: no
\* page has that token but the one that gets the answer.
LEMMA NewTokenUnseen ==
    ASSUME ChantierTypeOK, TokensKnown, NEW c \in Clients,
           chantier'.token \in Nat, chantier'.token > chantier.token,
           \A d \in Clients \ {c} : view'[d] = view[d],
           \/ view'[c] = view[c]
           \/ view'[c].token = 0
           \/ view'[c].materials = chantier'.materials
    PROVE  SeenIsCurrent'
  BY SMT DEF ChantierTypeOK, TokensKnown, SeenIsCurrent

LEMMA SeenStep ==
    ASSUME ClearRaces = FALSE
    PROVE  ChantierTypeOK /\ SeenInv /\ [ChantierNext]_chantierVars => SeenInv'
<1> SUFFICES ASSUME ChantierTypeOK, SeenIsCurrent, TokensKnown, ClearedSees, ClearedToken,
                    TokenSet, [ChantierNext]_chantierVars
             PROVE  (SeenIsCurrent /\ ClearedSees /\ ClearedToken /\ TokenSet)'
  BY SeenParts, TokensStep, PTL
<1> DEFINE Goal == (SeenIsCurrent /\ ClearedSees /\ ClearedToken /\ TokenSet)'
<1>1. ASSUME UNCHANGED chantierVars PROVE Goal
  BY <1>1 DEF chantierVars, SeenIsCurrent, ClearedSees, ClearedToken, TokenSet
<1>2. ASSUME NEW m \in Materials, Create(m) PROVE Goal
  <2>1. chantier.token = 0 /\ UNCHANGED <<view, pc>>
    BY <1>2 DEF Create
  <2>2. chantier'.token \in Nat \ {0}
    BY <1>2, ChantierAssumption DEF Create
  <2>3. \A c \in Clients : view[c].token = 0
    BY <2>1, SMT DEF TokensKnown, ChantierTypeOK
  <2> QED BY <2>1, <2>2, <2>3 DEF SeenIsCurrent, ClearedSees, ClearedToken, TokenSet
<1>3. ASSUME NEW c \in Clients,
             \/ \E kind \in InFlight, m \in Materials : Send(c, kind, m)
             \/ Rejected(c) \/ RetainCheck(c) \/ OpenList(c)
             \/ TrackRead(c) \/ TrackInsert(c) \/ TrackUpdate(c)
             \/ TrackFails(c) \/ TrackAnswer(c)
      PROVE Goal
  <2>1. UNCHANGED <<chantier, view>>
    BY <1>3 DEF Send, Rejected, RetainCheck, OpenList, TrackRead, TrackInsert,
                TrackUpdate, TrackFails, TrackAnswer
  <2>2. pc' = pc \/ (pc'[c] # "cleared" /\ pc[c] # "loading")
    BY <1>3, SMT DEF Send, Rejected, RetainCheck, OpenList, TrackRead,
           TrackInsert, TrackUpdate, TrackFails, TrackAnswer, Done, Goto, ChantierTypeOK,
           InFlight
  <2>3. \A d \in Clients \ {c} : pc'[d] = pc[d]
    BY <1>3, SMT DEF Send, Rejected, RetainCheck, OpenList, TrackRead,
           TrackInsert, TrackUpdate, TrackFails, TrackAnswer, Done, Goto, ChantierTypeOK
  <2> QED BY <2>1, <2>2, <2>3
          DEF SeenIsCurrent, ClearedSees, ClearedToken, TokenSet
<1>4. ASSUME NEW c \in Clients, LoadRow(c) \/ LoadMaterials(c) \/ TakeToken(c)
      PROVE Goal
  <2>1. chantier' = chantier
    BY <1>4 DEF LoadRow, LoadMaterials, TakeToken
  <2>2. \A d \in Clients \ {c} : pc'[d] = pc[d] /\ view'[d] = view[d]
    BY <1>4, SMT DEF ChantierTypeOK, LoadRow, LoadMaterials, TakeToken, Goto, Done
  <2>3. pc'[c] # "cleared"
    BY <1>4, SMT DEF ChantierTypeOK, LoadRow, LoadMaterials, TakeToken, Goto, Done
  <2>4. pc'[c] = "loading" \/ ~ chantier.exists
          \/ view'[c].materials = chantier.materials
    <3>1. LoadRow(c) => pc'[c] = "loading"
      BY SMT DEF ChantierTypeOK, LoadRow, Goto
    <3>2. LoadMaterials(c) => view'[c].materials = chantier.materials
      BY SMT DEF ChantierTypeOK, LoadMaterials
    <3>3. TakeToken(c) => ~ chantier.exists
                            \/ view'[c].materials = chantier.materials
      BY SMT DEF ChantierTypeOK, TakeToken, ClearedSees
    <3> QED BY <1>4, <3>1, <3>2, <3>3
  <2> QED BY <2>1, <2>2, <2>3, <2>4
          DEF SeenIsCurrent, ClearedSees, ClearedToken, TokenSet
<1>5. ASSUME NEW c \in Clients, Update(c) \/ RetainSwap(c) PROVE Goal
  <2>1. PICK now \in Clock : chantier'.token = NewToken(view[c].token, now)
    <3>1. CASE Update(c)
      <4>1. PICK now \in Clock :
              chantier' = [chantier EXCEPT !.token = NewToken(view[c].token, now),
                                           !.materials = needs[c]]
        BY <3>1 DEF Update
      <4> QED BY <4>1 DEF ChantierTypeOK
    <3>2. CASE RetainSwap(c)
      <4>1. PICK now \in Clock :
              chantier' = [chantier EXCEPT !.token = NewToken(view[c].token, now)]
        BY <3>2 DEF RetainSwap
      <4> QED BY <4>1 DEF ChantierTypeOK
    <3> QED BY <1>5, <3>1, <3>2
  <2>2. /\ chantier'.token \in Nat /\ chantier'.token > chantier.token
        /\ Accepts(c) /\ Undisturbed(c)
    BY <1>5, <2>1, AcceptedToken DEF Update, RetainSwap
  <2>3. \A d \in Clients \ {c} : view'[d] = view[d] /\ pc'[d] = pc[d]
    <3>1. view' = view \/ \E new : view' = [view EXCEPT ![c] = new]
      BY <1>5 DEF Update, RetainSwap, Answered
    <3>2. pc' = [pc EXCEPT ![c] = "open"]
      BY <1>5 DEF Update, RetainSwap, Done, Goto
    <3> QED BY <3>1, <3>2 DEF ChantierTypeOK
  <2>4. \/ view'[c] = view[c]
        \/ view'[c].token = 0
        \/ view'[c].materials = chantier'.materials
    <3>1. CASE Update(c)
      <4>1. chantier'.materials = needs[c]
        BY <3>1, SMT DEF Update, ChantierTypeOK
      <4>2. view' = view
              \/ view' = [view EXCEPT ![c] = [token |-> chantier'.token,
                                              materials |-> needs[c]]]
        BY <3>1 DEF Update, Answered
      <4> QED BY <4>1, <4>2 DEF ChantierTypeOK
    <3>2. CASE RetainSwap(c)
      BY <3>2 DEF RetainSwap, Answered, NoView, ChantierTypeOK
    <3> QED BY <1>5, <3>1, <3>2
  <2>5. \A d \in Clients : pc'[d] # "cleared"
    <3>1. pc'[c] = "open"
      BY <1>5 DEF Update, RetainSwap, Done, Goto, ChantierTypeOK
    <3> QED BY <2>2, <2>3, <3>1 DEF Undisturbed
  <2>6. chantier'.token # 0
    BY <2>2, SMT DEF ChantierTypeOK
  <2> QED BY <2>2, <2>3, <2>4, <2>5, <2>6, NewTokenUnseen
          DEF ClearedSees, ClearedToken, TokenSet
<1>6. ASSUME NEW c \in Clients, Delete(c) PROVE Goal
  <2>1. ~ chantier'.exists
    BY <1>6, SMT DEF ChantierTypeOK, Delete
  <2>2. pc'[c] # "cleared"
    BY <1>6 DEF Delete, Done, Goto, ChantierTypeOK
  <2>3. \A d \in Clients \ {c} : view'[d] = view[d] /\ pc'[d] = pc[d]
    BY <1>6 DEF Delete, Answered, Done, Goto, ChantierTypeOK
  <2> QED BY <2>1, <2>2, <2>3 DEF SeenIsCurrent, ClearedSees, ClearedToken, TokenSet
<1>7. ASSUME NEW c \in Clients, Clear(c) PROVE Goal
  <2>1. PICK now \in Clock :
          chantier' = [chantier EXCEPT !.token = NewToken(view[c].token, now)]
    BY <1>7 DEF Clear
  <2>2. /\ chantier'.token = NewToken(view[c].token, now)
        /\ chantier'.exists = chantier.exists
        /\ chantier'.materials = chantier.materials
    BY <2>1 DEF ChantierTypeOK
  <2>3. /\ chantier'.token \in Nat /\ chantier'.token > chantier.token
        /\ Accepts(c) /\ Undisturbed(c) /\ view' = view /\ pc[c] = "clearing"
        /\ pc' = [pc EXCEPT ![c] = "cleared"]
    BY <1>7, <2>2, AcceptedToken DEF Clear, Goto
  <2>4. SeenIsCurrent'
    BY <2>3, NewTokenUnseen
  <2>5. view[c].materials = chantier.materials /\ view[c].token # 0
    BY <2>3 DEF SeenIsCurrent, Accepts, TokenSet
  <2>6. \A d \in Clients \ {c} : pc'[d] # "cleared"
    BY <2>3 DEF Undisturbed, ChantierTypeOK
  <2>7. chantier'.token # 0
    BY <2>3, SMT DEF ChantierTypeOK
  <2> QED BY <2>2, <2>3, <2>4, <2>5, <2>6, <2>7
          DEF ClearedSees, ClearedToken, TokenSet
<1> HIDE DEF Goal
<1>8. Goal
  BY <1>1, <1>2, <1>3, <1>4, <1>5, <1>6, <1>7, Zenon DEF ChantierNext
<1> QED BY <1>8 DEF Goal

LEMMA SeenInit == ChantierInit => SeenInv
  BY SMT DEF ChantierInit, SeenInv, SeenIsCurrent, NoView

\* A page whose updated_at matches has the current needs: an accepted request is
\* never based on others.  ClearRaces is false: see the run where it is not.
THEOREM MatchingTokenIsCurrent ==
    ASSUME ClearRaces = FALSE
    PROVE  ChantierSpec => []SeenIsCurrent
<1>1. ChantierInit => SeenInv /\ ChantierTypeOK
  BY InitType, SeenInit
<1>2. ChantierTypeOK /\ SeenInv /\ [ChantierNext]_chantierVars => (ChantierTypeOK /\ SeenInv)'
  BY NextType, SeenStep
<1>3. SeenInv => SeenIsCurrent
  BY DEF SeenInv
<1> QED BY <1>1, <1>2, <1>3, PTL DEF ChantierSpec

\* Whoever has a request accepted has the current needs.
LEMMA AcceptedSees ==
    ChantierTypeOK /\ SeenInv /\ [ChantierNext]_chantierVars =>
      \A c \in Clients :
        /\ pc[c] \in InFlight \cup {"checked"} /\ pc'[c] # pc[c]
        /\ chantier' # chantier
        => view[c].materials = chantier.materials
<1> SUFFICES ASSUME ChantierTypeOK, SeenInv, [ChantierNext]_chantierVars, NEW c \in Clients,
                    pc[c] \in InFlight \cup {"checked"}, pc'[c] # pc[c],
                    chantier' # chantier
             PROVE  view[c].materials = chantier.materials
  OBVIOUS
<1>1. PICK d \in Clients : Update(d) \/ Delete(d) \/ RetainSwap(d) \/ Clear(d)
  <2>1. UNCHANGED chantierVars \/ (\E m \in Materials : Create(m)) => pc' = pc
    BY DEF chantierVars, Create
  <2>2. ASSUME NEW d \in Clients,
               \/ \E kind \in InFlight, m \in Materials : Send(d, kind, m)
               \/ LoadRow(d) \/ LoadMaterials(d) \/ Rejected(d)
               \/ RetainCheck(d) \/ TakeToken(d)
               \/ OpenList(d) \/ TrackRead(d) \/ TrackInsert(d) \/ TrackUpdate(d)
               \/ TrackFails(d) \/ TrackAnswer(d)
        PROVE  chantier' = chantier
    BY <2>2 DEF Send, LoadRow, LoadMaterials, Rejected, RetainCheck, TakeToken,
           OpenList, TrackRead, TrackInsert, TrackUpdate, TrackFails, TrackAnswer
  <2> QED BY <2>1, <2>2, Zenon DEF ChantierNext
<1>2. d = c
  <2>1. \E to \in {"open", "cleared"} : pc' = [pc EXCEPT ![d] = to]
    BY <1>1 DEF Update, Delete, RetainSwap, Clear, Done, Goto
  <2> QED BY <2>1, SMT DEF ChantierTypeOK
<1>3. Accepts(c) /\ pc[c] # "loading"
  BY <1>1, <1>2 DEF Update, Delete, RetainSwap, Clear, InFlight
<1> QED BY <1>3 DEF SeenInv, SeenIsCurrent, Accepts

\* No accepted write of a page overwrites, deletes or retains a solution for
\* needs the page has not shown.
THEOREM NothingOverwrittenUnseen ==
    ASSUME ClearRaces = FALSE
    PROVE  ChantierSpec => NoBlindOverwrite
<1>1. ChantierInit => SeenInv /\ ChantierTypeOK
  BY InitType, SeenInit
<1>2. ChantierTypeOK /\ SeenInv /\ [ChantierNext]_chantierVars => (ChantierTypeOK /\ SeenInv)'
  BY NextType, SeenStep
<1> QED BY <1>1, <1>2, AcceptedSees, PTL DEF ChantierSpec, NoBlindOverwrite

-----------------------------------------------------------------------------
(* The page of the comparator *)

PageInv == TypeOK /\ ComparatorInv

USE DEF edited, results, choosing

-----------------------------------------------------------------------------
(* A comparison is asked *)

\* The request a click adds is well formed, and about what is on the screen.
LEMMA AskedOfTheScreen ==
    ASSUME PageInv, NEW b \in Bases, Ask(b)
    PROVE  /\ asked' \in Nat
           /\ enabled' \in BOOLEAN
           /\ visible' = FALSE
           /\ inflight' \subseteq Requests
           /\ \A r \in inflight' :
                /\ r.revision <= revision
                /\ r.revision = revision => r.of.cart = cart /\ r.of.origin = origin
<1> DEFINE q == [id |-> asked, revision |-> revision,
                 of |-> [cart |-> cart, origin |-> origin, basis |-> b]]
<1>1. q \in Requests
    BY DEF PageInv, TypeOK, Requests, Comparisons
<1>2. inflight' = inflight \cup {q}
    BY DEF Ask
<1>3. q.revision <= revision /\ q.of.cart = cart /\ q.of.origin = origin
    BY DEF PageInv, TypeOK
<1>4. inflight' \subseteq Requests
    BY <1>1, <1>2 DEF PageInv, TypeOK
<1>5. \A r \in inflight' :
          /\ r.revision <= revision
          /\ r.revision = revision => r.of.cart = cart /\ r.of.origin = origin
    BY <1>2, <1>3 DEF PageInv, ComparatorInv
<1>6. asked' \in Nat /\ enabled' \in BOOLEAN /\ visible' = FALSE
    <2>1. asked \in Nat
        BY DEF PageInv, TypeOK
    <2>2. asked' \in Nat
        BY <2>1 DEF Ask
    <2> QED
        BY <2>2 DEF Ask
<1> QED
    BY <1>4, <1>5, <1>6

-----------------------------------------------------------------------------
(* Values *)

\* Every handler and every answer leaves values of their types.
LEMMA TypeStep == PageInv /\ [Next]_vars => TypeOK'
<1> SUFFICES ASSUME PageInv, [Next]_vars
             PROVE  TypeOK'
    OBVIOUS
<1>t. TypeOK
    BY DEF PageInv
<1>1. CASE UNCHANGED vars
    BY <1>t, <1>1 DEF TypeOK, vars
<1>2. ASSUME NEW c \in Carts, EditCart(c)
      PROVE  TypeOK'
    <2>1. enabled' \in BOOLEAN
        BY <1>2, Zenon DEF EditCart
    <2>2. /\ cart' \in Carts /\ revision' \in Nat /\ visible' = FALSE
          /\ fingerprint' = None /\ choice' = None /\ panel' = None
        BY <1>t, <1>2 DEF TypeOK, EditCart, Invalidate
    <2> QED
        BY <1>t, <1>2, <2>1, <2>2 DEF TypeOK, EditCart
<1>3. ASSUME NEW o \in Origins, EditOrigin(o)
      PROVE  TypeOK'
    <2>1. /\ origin' \in Origins /\ revision' \in Nat /\ visible' = FALSE
          /\ fingerprint' = None /\ choice' = None /\ panel' = None
        BY <1>t, <1>3 DEF TypeOK, EditOrigin, Invalidate
    <2> QED
        BY <1>t, <1>3, <2>1 DEF TypeOK, EditOrigin
<1>13. ASSUME NEW c \in Carts, NEW o \in Origins, EditBoth(c, o)
       PROVE  TypeOK'
    <2>1. enabled' \in BOOLEAN
        BY <1>13, Zenon DEF EditBoth
    <2>2. /\ cart' \in Carts /\ origin' \in Origins /\ revision' \in Nat /\ visible' = FALSE
          /\ fingerprint' = None /\ choice' = None /\ panel' = None
        BY <1>t, <1>13 DEF TypeOK, EditBoth, Invalidate
    <2> QED
        BY <1>t, <1>13, <2>1, <2>2 DEF TypeOK, EditBoth
<1>4. CASE Compare
    <2>1. basis \in Bases /\ Ask(basis)
        BY <1>t, <1>4 DEF TypeOK, Compare
    <2> QED
        BY <1>t, <1>4, <2>1, AskedOfTheScreen DEF TypeOK, Compare
<1>5. ASSUME NEW b \in Bases, Toggle(b)
      PROVE  TypeOK'
    <2>1. CASE Ask(b)
        BY <1>t, <1>5, <2>1, AskedOfTheScreen DEF TypeOK, Toggle
    <2>2. CASE UNCHANGED <<enabled, asked, inflight, visible>>
        BY <1>t, <1>5, <2>2 DEF TypeOK, Toggle
    <2> QED
        BY <1>5, <2>1, <2>2 DEF Toggle
<1>6. ASSUME NEW r \in inflight, Answer(r)
      PROVE  TypeOK'
    <2>1. r.of \in Comparisons
        BY <1>t DEF TypeOK, Requests
    <2> QED
        BY <1>t, <1>6, <2>1 DEF TypeOK, Answer
<1>7. ASSUME NEW r \in inflight, AnswerFails(r)
      PROVE  TypeOK'
    BY <1>t, <1>7 DEF TypeOK, AnswerFails
<1>8. ASSUME NEW k \in Keys, Choose(k)
      PROVE  TypeOK'
    <2>1. [of |-> last, key |-> k] \in Solutions
        BY <1>8 DEF PageInv, TypeOK, ComparatorInv, ShownIsCurrent, Choose, Solutions
    <2> QED
        BY <1>t, <1>8, <2>1 DEF TypeOK, Choose
<1>9. ASSUME NEW s \in opening, OpenConfirm(s)
      PROVE  TypeOK'
    BY <1>t, <1>9 DEF TypeOK, OpenConfirm
<1>10. CASE Cancel
    BY <1>t, <1>10 DEF TypeOK, Cancel
<1>11. CASE Submit
    <2>1. choice \in Solutions /\ panel \in Solutions /\ last \in Comparisons /\ fingerprint \in Carts
        BY <1>t, <1>11 DEF TypeOK, Submit
    <2>2. last.origin \in Origins /\ last.basis \in Bases
        BY <2>1 DEF Comparisons
    <2>3. put' \in Payloads
        BY <1>11, <2>1, <2>2 DEF Submit, Payloads
    <2> QED
        BY <1>t, <1>11, <2>3 DEF TypeOK, Submit
<1>12. CASE Refuse
    BY <1>t, <1>12 DEF TypeOK, Refuse
<1> QED
    BY <1>1, <1>2, <1>3, <1>4, <1>5, <1>6, <1>7, <1>8, <1>9, <1>10, <1>11, <1>12, <1>13 DEF Next

-----------------------------------------------------------------------------
(* What is shown and what is sent *)

\* An edit takes a new revision: no question awaited is of the revision of now.
LEMMA EditStep ==
    ASSUME PageInv, Invalidate, UNCHANGED <<inflight, put>>
    PROVE  ComparatorInv'
<1>1. revision' = revision + 1 /\ revision \in Nat
    BY DEF PageInv, TypeOK, Invalidate
<1>2. ASSUME NEW r \in inflight'
      PROVE  r.revision <= revision' /\ r.revision # revision'
    <2>1. r \in inflight /\ r.revision \in Nat /\ r.revision <= revision
        BY DEF PageInv, TypeOK, ComparatorInv, Requests
    <2> QED
        BY <1>1, <2>1
<1>3. visible' = FALSE /\ choice' = None
    BY DEF Invalidate
<1>4. SentForItsNeeds'
    BY DEF PageInv, ComparatorInv, SentForItsNeeds
<1> QED
    BY <1>2, <1>3, <1>4 DEF ComparatorInv, ShownIsCurrent

\* A question hides the results it is to replace.
LEMMA AskStep ==
    ASSUME PageInv, NEW b \in Bases, Ask(b),
           UNCHANGED <<cart, origin, revision, last, fingerprint, choosing>>
    PROVE  ComparatorInv'
<1>1. visible' = FALSE
    BY AskedOfTheScreen
<1>2. \A r \in inflight' :
          /\ r.revision <= revision'
          /\ r.revision = revision' => r.of.cart = cart' /\ r.of.origin = origin'
    BY AskedOfTheScreen
<1>3. SentForItsNeeds' /\ (choice' # None => choice'.of.cart = cart' /\ choice'.of.origin = origin')
    BY DEF PageInv, ComparatorInv, SentForItsNeeds
<1> QED
    BY <1>1, <1>2, <1>3 DEF ComparatorInv, ShownIsCurrent

\* The invariant through every step.
LEMMA InvStep == PageInv /\ [Next]_vars => ComparatorInv'
<1> SUFFICES ASSUME PageInv, [Next]_vars
             PROVE  ComparatorInv'
    OBVIOUS
<1>i. ComparatorInv
    BY DEF PageInv
<1> USE DEF ComparatorInv, ShownIsCurrent, SentForItsNeeds
<1>1. CASE UNCHANGED vars
    BY <1>i, <1>1 DEF vars
<1>2. ASSUME NEW c \in Carts, EditCart(c)
      PROVE  ComparatorInv'
    BY <1>2, EditStep DEF EditCart
<1>3. ASSUME NEW o \in Origins, EditOrigin(o)
      PROVE  ComparatorInv'
    BY <1>3, EditStep DEF EditOrigin
<1>13. ASSUME NEW c \in Carts, NEW o \in Origins, EditBoth(c, o)
       PROVE  ComparatorInv'
    BY <1>13, EditStep DEF EditBoth
<1>4. CASE Compare
    BY <1>4, AskStep DEF Compare, PageInv, TypeOK
<1>5. ASSUME NEW b \in Bases, Toggle(b)
      PROVE  ComparatorInv'
    <2>1. CASE Ask(b)
        BY <1>5, <2>1, AskStep DEF Toggle
    <2>2. CASE UNCHANGED <<enabled, asked, inflight, visible>>
        BY <1>i, <1>5, <2>2 DEF Toggle
    <2> QED
        BY <1>5, <2>1, <2>2 DEF Toggle
<1>6. ASSUME NEW r \in inflight, Answer(r)
      PROVE  ComparatorInv'
    <2>1. CASE Shown(r)
        <3>1. r.of # None
            BY NoneAssumption DEF PageInv, TypeOK, Requests
        <3>2. r.of.cart = cart /\ r.of.origin = origin
            BY <1>i, <2>1 DEF Shown
        <3> QED
            BY <1>i, <1>6, <2>1, <3>1, <3>2 DEF Answer
    <2>2. CASE ~ Shown(r)
        BY <1>i, <1>6, <2>2 DEF Answer
    <2> QED
        BY <2>1, <2>2
<1>7. ASSUME NEW r \in inflight, AnswerFails(r)
      PROVE  ComparatorInv'
    BY <1>i, <1>7 DEF AnswerFails
<1>8. ASSUME NEW k \in Keys, Choose(k)
      PROVE  ComparatorInv'
    BY <1>i, <1>8 DEF Choose
<1>9. ASSUME NEW s \in opening, OpenConfirm(s)
      PROVE  ComparatorInv'
    BY <1>i, <1>9 DEF OpenConfirm
<1>10. CASE Cancel
    BY <1>i, <1>10 DEF Cancel
<1>11. CASE Submit
    <2>1. /\ put'.strategy = choice /\ put'.needs = fingerprint /\ put'.origin = last.origin
        BY <1>11 DEF Submit
    <2>2. choice.of.cart = fingerprint /\ choice.of.origin = last.origin
        BY <1>i, <1>11 DEF Submit
    <2> QED
        BY <1>i, <1>11, <2>1, <2>2 DEF Submit
<1>12. CASE Refuse
    BY <1>i, <1>12 DEF Refuse
<1> QED
    BY <1>1, <1>2, <1>3, <1>4, <1>5, <1>6, <1>7, <1>8, <1>9, <1>10, <1>11, <1>12, <1>13 DEF Next

-----------------------------------------------------------------------------
(* Theorems *)

\* The strengthening of ShownIsCurrent and SentForItsNeeds, and of TypeOK.
THEOREM PageInvariant == Spec => []PageInv
<1>1. Init => PageInv
    <2> SUFFICES ASSUME Init
                 PROVE  PageInv
        OBVIOUS
    <2>1. enabled \in BOOLEAN
        BY Zenon DEF Init
    <2>2. TypeOK
        BY <2>1 DEF Init, TypeOK
    <2>3. ComparatorInv
        BY DEF Init, ComparatorInv, ShownIsCurrent, SentForItsNeeds
    <2> QED
        BY <2>2, <2>3 DEF PageInv
<1>2. PageInv /\ [Next]_vars => PageInv'
    BY TypeStep, InvStep DEF PageInv
<1> QED
    BY <1>1, <1>2, PTL DEF Spec

\* Type correctness of the page, through every handler and every answer.
THEOREM TypeCorrect == Spec => []TypeOK
<1>1. PageInv => TypeOK
    BY DEF PageInv
<1> QED
    BY <1>1, PageInvariant, PTL

\* The results shown are those of the cart and the origin shown, however many
\* comparisons are in flight and in whatever order they are answered.
THEOREM ResultsAreCurrent == Spec => []ShownIsCurrent
<1>1. PageInv => ShownIsCurrent
    BY DEF PageInv, ComparatorInv
<1> QED
    BY <1>1, PageInvariant, PTL

\* A solution is sent with the needs and the origin it was computed for.
THEOREM SolutionSentForItsNeeds == Spec => []SentForItsNeeds
<1>1. PageInv => SentForItsNeeds
    BY DEF PageInv, ComparatorInv
<1> QED
    BY <1>1, PageInvariant, PTL

-----------------------------------------------------------------------------
(***************************************************************************)
(* The page, for any products, addresses and chantiers.                    *)
(*                                                                         *)
(* Two invariants that do not need each other: LinesInv for the search and *)
(* the lines, OriginInv for what the origin is entered with. Together they *)
(* make every step of the page a step of Comparator, so that what is       *)
(* proved of Comparator holds of the page.                                 *)
(***************************************************************************)

LinesInv ==
    /\ cart \in Carts /\ LinesTypeOK
    /\ ChoicesAreOfTheText

EntryTyped ==
    /\ type \in OriginTypes /\ address \in Addresses
    /\ saved \in [Typed -> Addresses]
    /\ siteCoordinates \in Addresses \cup {None}
    /\ revision \in 0 .. MaxRevision
    /\ positionRequest \in 0 .. revision
    /\ positions \subseteq 1 .. positionRequest
    /\ position \in (1 .. positionRequest) \cup {None}

\* A panel, or a chantier posted, has the coordinates of its address or none.
SavingInv ==
    /\ saveAs # None => saveAs.coordinates \in {None, saveAs.address}
    /\ posted # None => posted.coordinates \in {None, posted.address}

OriginInv == EntryTyped /\ SavingInv /\ OriginIsEntered

USE DEF listing, searching, entry, saving, rest, vars, edited, results, choosing

-----------------------------------------------------------------------------
(* Lines *)

\* A cart with a line written is a cart.
LEMMA WrittenIsACart ==
    ASSUME NEW c \in Carts, NEW p \in Products, NEW q \in Quantities
    PROVE  [x \in DOMAIN c \cup {p} |-> IF x = p THEN q ELSE c[x]] \in Carts
<1> DEFINE S == DOMAIN c \cup {p}
           d == [x \in S |-> IF x = p THEN q ELSE c[x]]
<1>1. S \in SUBSET Products /\ c \in [DOMAIN c -> Quantities]
    BY LinesAssumption DEF Quantities
<1>2. d \in [S -> Quantities]
    BY <1>1
<1>3. [S -> Quantities] \subseteq Carts
    BY <1>1, LinesAssumption DEF Quantities
<1> QED
    BY <1>2, <1>3

\* So is one with a line removed.
LEMMA RemovedIsACart ==
    ASSUME NEW c \in Carts, NEW p \in Products
    PROVE  [x \in DOMAIN c \ {p} |-> c[x]] \in Carts
<1> DEFINE S == DOMAIN c \ {p}
<1>1. S \in SUBSET Products /\ c \in [DOMAIN c -> Quantities]
    BY LinesAssumption DEF Quantities
<1>2. [x \in S |-> c[x]] \in [S -> Quantities]
    BY <1>1
<1>3. [S -> Quantities] \subseteq Carts
    BY <1>1, LinesAssumption DEF Quantities
<1> QED
    BY <1>2, <1>3

\* The lines edited stay those of a cart, whose rows are some of them.
LEMMA EditKeepsLines ==
    ASSUME LinesInv, EditMaterials
    PROVE  LinesInv' /\ \E c \in Carts : EditCart(c)
<1> USE DEF LinesInv, LinesTypeOK, ChoicesAreOfTheText, SetLines
<1>1. ASSUME NEW c \in Carts, SetLines(c)
      PROVE  LinesInv' /\ \E d \in Carts : EditCart(d)
    <2>1. cart' = c /\ rows' = DOMAIN c \cap known /\ UNCHANGED searching
        BY <1>1 DEF EditCart, RenderLines
    <2> QED
        BY <1>1, <2>1
<1>2. ASSUME NEW p \in Products, NEW q \in Quantities, AddLine(p, q)
      PROVE  LinesInv' /\ \E c \in Carts : EditCart(c)
    <2> DEFINE sum == IF p \in DOMAIN cart THEN cart[p] + q ELSE q
               c == [x \in DOMAIN cart \cup {p} |-> IF x = p THEN sum ELSE cart[x]]
    <2>1. p \in choices /\ q \in 1 .. Cap /\ sum <= Cap /\ SetLines(c)
        BY <1>2 DEF AddLine, Valid
    <2>2. cart \in [DOMAIN cart -> 0 .. Cap + 1]
        BY LinesAssumption
    <2>3. sum \in Quantities
        BY <2>1, <2>2, LinesAssumption DEF Quantities
    <2>4. c \in Carts
        BY <2>3, WrittenIsACart
    <2> HIDE DEF c, sum
    <2> QED
        BY <2>1, <2>4, <1>1
<1>3. ASSUME NEW p \in Products, NEW q \in Quantities, SetQuantity(p, q)
      PROVE  LinesInv' /\ \E c \in Carts : EditCart(c)
    <2> DEFINE c == [x \in DOMAIN cart \cup {p} |-> IF x = p THEN q ELSE cart[x]]
    <2>1. p \in DOMAIN cart /\ EditCart([cart EXCEPT ![p] = q]) /\ UNCHANGED listing
        BY <1>3 DEF SetQuantity
    <2>2. cart \in [DOMAIN cart -> Quantities]
        BY LinesAssumption DEF Quantities
    <2>3. [cart EXCEPT ![p] = q] = c
        BY <2>1, <2>2
    <2>4. c \in Carts
        BY WrittenIsACart
    <2>5. cart' = c /\ DOMAIN c = DOMAIN cart
        BY <2>1, <2>3 DEF EditCart
    <2> HIDE DEF c
    <2> QED
        BY <2>1, <2>3, <2>4, <2>5
<1>4. ASSUME NEW p \in Products, RemoveLine(p)
      PROVE  LinesInv' /\ \E c \in Carts : EditCart(c)
    <2> DEFINE c == [x \in DOMAIN cart \ {p} |-> cart[x]]
    <2>1. SetLines(c)
        BY <1>4 DEF RemoveLine
    <2>2. c \in Carts
        BY RemovedIsACart
    <2> HIDE DEF c
    <2> QED
        BY <2>1, <2>2, <1>1
<1>5. CASE ShowExample
    <2>1. Example \in Carts
        BY LinesAssumption
    <2>2. SetLines(Example)
        BY <1>5 DEF ShowExample
    <2> QED
        BY <2>1, <2>2, <1>1
<1> HIDE DEF LinesInv, SetLines
<1> QED
    BY <1>2, <1>3, <1>4, <1>5, Zenon DEF EditMaterials

\* What is offered stays what the text asks for, whatever comes late.
LEMMA SearchKeepsLines ==
    ASSUME LinesInv, Search
    PROVE  LinesInv' /\ UNCHANGED vars
<1> USE DEF LinesInv, LinesTypeOK, ChoicesAreOfTheText
<1>1. ASSUME NEW t \in Texts, Type(t)
      PROVE  LinesInv' /\ UNCHANGED vars
    BY <1>1, LinesAssumption DEF Type, Render, Filtered
<1>2. CASE SearchOnServer
    BY <1>2, LinesAssumption DEF SearchOnServer
<1>3. ASSUME NEW s \in searches, SearchAnswers(s)
      PROVE  LinesInv' /\ UNCHANGED vars
    <2>1. s.text \in Texts /\ Found[s.text] \subseteq Products
        BY LinesAssumption
    <2> QED
        BY <1>3, <2>1 DEF SearchAnswers, Expected, Remembered
<1>4. ASSUME NEW s \in searches, SearchFails(s)
      PROVE  LinesInv' /\ UNCHANGED vars
    BY <1>4 DEF SearchFails
<1> HIDE DEF LinesInv
<1> QED
    BY <1>1, <1>2, <1>3, <1>4, Zenon DEF Search

\* The first page replaces the products, and what is offered with them.
LEMMA FirstPageKeepsLines ==
    ASSUME LinesInv
    PROVE  /\ FirstPageComes => LinesInv' /\ UNCHANGED vars
           /\ FirstPageFails => LinesInv' /\ UNCHANGED vars
<1> USE DEF LinesInv, LinesTypeOK, ChoicesAreOfTheText
<1>1. CASE FirstPageComes
    BY <1>1, LinesAssumption DEF FirstPageComes, FirstPageFails, Render, RenderLines, Filtered
<1>2. CASE FirstPageFails
    BY <1>2 DEF FirstPageComes, FirstPageFails
<1> QED
    BY <1>1, <1>2

\* Through every step of the page.
LEMMA LinesStep == LinesInv /\ [PageNext]_pageVars => LinesInv'
<1> SUFFICES ASSUME LinesInv, [PageNext]_pageVars
             PROVE  LinesInv'
    OBVIOUS
<1>0. ASSUME UNCHANGED <<cart, listing>>
      PROVE  LinesInv'
    BY <1>0 DEF LinesInv, LinesTypeOK, ChoicesAreOfTheText
<1>1. CASE EditMaterials
    BY <1>1, EditKeepsLines
<1>2. CASE Search
    BY <1>2, SearchKeepsLines
<1>3. CASE EnterOrigin
    <2>1. UNCHANGED <<cart, listing>>
        BY <1>3 DEF EnterOrigin, ChangeType, Relocate, Locate, Unlocated, TypeAddress,
                    Entered, EditOrigin
    <2> QED
        BY <1>0, <2>1
<1>4. ASSUME NEW c \in Chantiers, LoadFound(c)
      PROVE  LinesInv'
    <2>1. cart' = c.lines /\ c.lines \in Carts /\ DOMAIN c.lines \subseteq Products
        BY <1>4, PageAssumption, LinesAssumption DEF LoadFound, EditBoth
    <2>2. known' = known \cup DOMAIN c.lines /\ Render(typed, known')
          /\ rows' = DOMAIN c.lines \cap known'
          /\ UNCHANGED <<catalogue, typed, searches>>
        BY <1>4 DEF LoadFound, MergedWith, RenderLines
    <2> QED
        BY <2>1, <2>2, LinesAssumption
        DEF LinesInv, LinesTypeOK, ChoicesAreOfTheText, Render, Filtered
<1>5. CASE LoadMissing
    <2>1. cart' = Empty /\ Empty \in Carts /\ DOMAIN Empty = {} /\ rows' = {}
          /\ UNCHANGED searching
        BY <1>5, LinesAssumption, ConstantsAssumption DEF LoadMissing, EditBoth
    <2> QED
        BY <2>1 DEF LinesInv, LinesTypeOK, ChoicesAreOfTheText
<1>6. CASE LoadFails
    BY <1>0, <1>6 DEF LoadFails
<1>7. CASE SaveAs
    <2>1. UNCHANGED <<cart, listing>>
        BY <1>7 DEF SaveAs, OpenSaveAs, CancelSaveAs, TypeSaveAs, SubmitSaveAs, SaveAsFails
    <2> QED
        BY <1>0, <2>1
<1>8. CASE PageCompare
    BY <1>0, <1>8 DEF PageCompare, Compare
<1>9. CASE PageChoose
    <2>1. UNCHANGED <<cart, listing>>
        BY <1>9 DEF PageChoose, Choose, OpenConfirm, Cancel, Submit, Refuse
    <2> QED
        BY <1>0, <2>1
<1>10. ASSUME NEW b \in Bases, PageToggle(b)
       PROVE  LinesInv'
    BY <1>0, <1>10 DEF PageToggle, Toggle
<1>11. ASSUME NEW r \in inflight, PageAnswer(r)
       PROVE  LinesInv'
    BY <1>0, <1>11 DEF PageAnswer, Answer, AnswerFails
<1>12. CASE UNCHANGED pageVars
    BY <1>0, <1>12 DEF pageVars
<1>13. CASE Opened \/ NotOpened
    BY <1>13, FirstPageKeepsLines, Zenon DEF Opened, NotOpened
<1> QED
    BY <1>1, <1>2, <1>3, <1>4, <1>5, <1>6, <1>7, <1>8, <1>9, <1>10, <1>11, <1>12,
       <1>13
    DEF PageNext, Load

-----------------------------------------------------------------------------
(* Origin *)

\* Whatever is entered, selectedOrigin reads an origin in it.
LEMMA SelectedIsAnOrigin ==
    ASSUME EntryTyped'
    PROVE  Selected' \in Origins
<1> USE DEF EntryTyped
<1>1. CASE type' = "company"
    <2>1. Selected' = <<"company", Company>>
        BY <1>1 DEF Selected, Typed
    <2> QED
        BY <2>1, PageAssumption
<1>2. CASE type' = "current_location"
    <2>1. Selected' = IF position' = None THEN NoOrigin ELSE <<"current_location", position'>>
        BY <1>2 DEF Selected, Typed
    <2>2. position' # None => position' \in 1 .. MaxRevision
        BY ConstantsAssumption
    <2> QED
        BY <2>1, <2>2, PageAssumption, ConstantsAssumption
<1>3. CASE type' \in Typed
    <2>1. Selected' \in {NoOrigin, <<"coordinates", siteCoordinates'>>, <<type', address'>>}
        BY <1>3 DEF Selected, Typed
    <2>2. siteCoordinates' # None => <<"coordinates", siteCoordinates'>> \in Origins
        BY PageAssumption
    <2>3. <<type', address'>> \in Origins
        BY <1>3, PageAssumption DEF Typed
    <2>4. CASE siteCoordinates' = None
        <3>1. Selected' \in {NoOrigin, <<type', address'>>}
            BY <1>3, <2>4 DEF Selected, Typed
        <3> QED
            BY <3>1, <2>3, ConstantsAssumption
    <2> QED
        BY <2>1, <2>2, <2>3, <2>4, ConstantsAssumption
<1> QED
    BY <1>1, <1>2, <1>3 DEF OriginTypes

\* What was entered is followed by an edit of the origin.
LEMMA EnterKeepsOrigin ==
    ASSUME OriginInv, EnterOrigin
    PROVE  OriginInv' /\ (UNCHANGED vars \/ \E o \in Origins : EditOrigin(o))
<1> USE DEF OriginInv
<1>0. ASSUME EntryTyped', Entered,
             siteCoordinates' # None =>
               siteCoordinates' = (IF type' = "site" THEN address' ELSE saved'["site"]),
             position' # None => position' = positionRequest' /\ type' = "current_location"
      PROVE  OriginInv' /\ (UNCHANGED vars \/ \E o \in Origins : EditOrigin(o))
    <2>1. origin' = Selected' /\ UNCHANGED saving /\ EditOrigin(Selected')
        BY <1>0 DEF Entered, EditOrigin
    <2>2. SavingInv' /\ (posted' # None => posted'.coordinates \in {None, posted'.address})
        BY <2>1 DEF SavingInv
    <2>3. Selected' \in Origins
        BY <1>0, SelectedIsAnOrigin
    <2>4. OriginInv'
        BY <1>0, <2>1, <2>2 DEF OriginIsEntered
    <2> QED
        BY <2>1, <2>3, <2>4
<1>1. ASSUME Entered
      PROVE  revision' = revision + 1 /\ revision' \in 0 .. MaxRevision
    BY <1>1, ConstantsAssumption DEF Entered, EditOrigin, Invalidate, EntryTyped
<1>2. ASSUME NEW t \in OriginTypes, ChangeType(t)
      PROVE  OriginInv' /\ (UNCHANGED vars \/ \E o \in Origins : EditOrigin(o))
    <2>1. Entered /\ type' = t /\ t # type /\ UNCHANGED <<siteCoordinates, unconfirmed>>
          /\ positionRequest' = positionRequest + 1 /\ position' = None
        BY <1>2 DEF ChangeType, Request
    <2>2. positions' \subseteq 1 .. positionRequest'
        <3>1. positions' \subseteq positions \cup {positionRequest + 1}
            BY <1>2 DEF ChangeType, Request
        <3>2. positionRequest \in Nat /\ positions \subseteq 1 .. positionRequest
            BY ConstantsAssumption DEF EntryTyped
        <3> QED
            BY <2>1, <3>1, <3>2
    <2>3. saved' = (IF type \in Typed THEN [saved EXCEPT ![type] = address] ELSE saved)
          /\ address' = (IF t \in Typed THEN saved'[t] ELSE address)
        BY <1>2 DEF ChangeType
    <2>4. saved' \in [Typed -> Addresses] /\ address' \in Addresses
        BY <2>3 DEF EntryTyped
    <2>5. EntryTyped'
        BY <1>1, <2>1, <2>2, <2>4 DEF EntryTyped
    <2>6. siteCoordinates' # None =>
            siteCoordinates' = (IF type' = "site" THEN address' ELSE saved'["site"])
        BY <2>1, <2>3 DEF EntryTyped, OriginIsEntered, Typed
    <2> QED
        BY <1>0, <2>1, <2>5, <2>6
<1>3. CASE Relocate
    <2>1. /\ Entered /\ UNCHANGED <<type, address, saved, siteCoordinates, unconfirmed>>
          /\ positionRequest' = positionRequest + 1 /\ position' = None
          /\ positions' = positions \cup {positionRequest + 1}
        BY <1>3 DEF Relocate, Request
    <2>2. EntryTyped'
        BY <1>1, <2>1 DEF EntryTyped
    <2> QED
        BY <1>0, <2>1, <2>2 DEF OriginIsEntered
<1>4. ASSUME NEW n \in positions, Locate(n)
      PROVE  OriginInv' /\ (UNCHANGED vars \/ \E o \in Origins : EditOrigin(o))
    <2>1. /\ UNCHANGED <<type, address, saved, siteCoordinates, unconfirmed, positionRequest>>
          /\ positions' = positions \ {n}
        BY <1>4 DEF Locate
    <2>2. CASE Awaited(n) /\ position' = n /\ Entered
        <3>1. EntryTyped'
            BY <1>1, <2>1, <2>2 DEF EntryTyped
        <3> QED
            BY <1>0, <2>1, <2>2, <3>1 DEF OriginIsEntered, Awaited
    <2>3. CASE UNCHANGED <<position, vars, listing, saving>>
        <3>1. EntryTyped' /\ SavingInv' /\ Selected' = Selected
            BY <2>1, <2>3 DEF EntryTyped, SavingInv, Selected
        <3> QED
            BY <2>1, <2>3, <3>1 DEF OriginIsEntered
    <2> QED
        BY <1>4, <2>2, <2>3 DEF Locate
<1>5. ASSUME NEW n \in positions, Unlocated(n)
      PROVE  OriginInv' /\ (UNCHANGED vars \/ \E o \in Origins : EditOrigin(o))
    <2>1. EntryTyped' /\ SavingInv' /\ Selected' = Selected
        BY <1>5 DEF Unlocated, EntryTyped, SavingInv, Selected
    <2> QED
        BY <1>5, <2>1 DEF OriginIsEntered, Unlocated
<1>6. ASSUME NEW a \in Addresses, TypeAddress(a)
      PROVE  OriginInv' /\ (UNCHANGED vars \/ \E o \in Origins : EditOrigin(o))
    <2>1. /\ Entered /\ siteCoordinates' = None /\ address' = a
          /\ UNCHANGED <<type, saved, position, positionRequest, positions>>
        BY <1>6 DEF TypeAddress
    <2>2. EntryTyped'
        BY <1>1, <2>1 DEF EntryTyped
    <2> QED
        BY <1>0, <2>1, <2>2 DEF OriginIsEntered
<1> HIDE DEF OriginInv
<1> QED
    BY <1>2, <1>3, <1>4, <1>5, <1>6, Zenon DEF EnterOrigin

\* The loading replaces cart and origin at once.
LEMMA LoadKeepsOrigin ==
    ASSUME OriginInv, Load
    PROVE  OriginInv' /\ (UNCHANGED vars \/ \E c \in Carts, o \in Origins : EditBoth(c, o))
<1> USE DEF OriginInv
<1>1. ASSUME NEW c \in Carts, NEW o, EditBoth(c, o)
      PROVE  revision' = revision + 1 /\ revision' \in 0 .. MaxRevision /\ origin' = o
    BY <1>1, ConstantsAssumption DEF EditBoth, Invalidate, EntryTyped
<1>2. ASSUME NEW c \in Chantiers, LoadFound(c)
      PROVE  OriginInv' /\ (UNCHANGED vars \/ \E d \in Carts, o \in Origins : EditBoth(d, o))
    <2>1. /\ c.address \in Addresses /\ c.lines \in Carts
          /\ type' = "site" /\ address' = c.address
          /\ siteCoordinates' = IF c.located THEN c.address ELSE None
          /\ EditBoth(c.lines, Selected')
          /\ saveAs' = None /\ UNCHANGED <<positions, posted>>
        BY <1>2, PageAssumption DEF LoadFound
    <2>2. saved' \in [Typed -> Addresses]
        BY <1>2, <2>1 DEF LoadFound, EntryTyped, Typed
    <2>3. position' = None
        BY <1>2 DEF LoadFound, OriginIsEntered
    <2>4. positionRequest' \in {positionRequest, positionRequest + 1}
        BY <1>2 DEF LoadFound
    <2>5. revision' = revision + 1 /\ revision' \in 0 .. MaxRevision /\ origin' = Selected'
        BY <1>1, <2>1
    <2>6. positionRequest' \in 0 .. revision' /\ positions' \subseteq 1 .. positionRequest'
        BY <2>1, <2>4, <2>5, ConstantsAssumption DEF EntryTyped
    <2>7. EntryTyped'
        BY <2>1, <2>2, <2>3, <2>5, <2>6 DEF EntryTyped, OriginTypes, Typed
    <2>8. SavingInv' /\ OriginIsEntered'
        BY <2>1, <2>3, <2>5 DEF SavingInv, OriginIsEntered
    <2>9. Selected' \in Origins
        BY <2>7, SelectedIsAnOrigin
    <2> QED
        BY <2>1, <2>7, <2>8, <2>9
<1>3. CASE LoadMissing
    <2>1. /\ siteCoordinates' = None
          /\ UNCHANGED <<type, address, saved, position, positionRequest, positions>>
          /\ EditBoth(Empty, Selected')
          /\ saveAs' = None /\ UNCHANGED posted
        BY <1>3 DEF LoadMissing
    <2>2. revision' = revision + 1 /\ revision' \in 0 .. MaxRevision /\ origin' = Selected'
        BY <1>1, <2>1, ConstantsAssumption
    <2>3. EntryTyped'
        BY <2>1, <2>2, ConstantsAssumption DEF EntryTyped
    <2>4. SavingInv' /\ OriginIsEntered'
        BY <2>1, <2>2 DEF SavingInv, OriginIsEntered
    <2>5. Selected' \in Origins
        BY <2>3, SelectedIsAnOrigin
    <2> QED
        BY <2>1, <2>3, <2>4, <2>5, ConstantsAssumption
<1>4. CASE LoadFails
    <2>1. UNCHANGED <<vars, entry, posted>> /\ saveAs' = None
        BY <1>4 DEF LoadFails
    <2>2. EntryTyped' /\ SavingInv' /\ Selected' = Selected
        BY <2>1 DEF EntryTyped, SavingInv, Selected
    <2> QED
        BY <2>1, <2>2 DEF OriginIsEntered
<1>5. CASE Opened \/ NotOpened
    <2>1. UNCHANGED <<vars, entry, posted>> /\ saveAs' \in {saveAs, None}
        BY <1>5 DEF Opened, NotOpened, FirstPageComes, FirstPageFails
    <2>2. EntryTyped' /\ SavingInv' /\ Selected' = Selected
        BY <2>1 DEF EntryTyped, SavingInv, Selected
    <2> QED
        BY <2>1, <2>2 DEF OriginIsEntered
<1> HIDE DEF OriginInv
<1> QED
    BY <1>2, <1>3, <1>4, <1>5, Zenon DEF Load

\* A new chantier is posted with what the panel holds.
LEMMA SaveAsKeepsOrigin ==
    ASSUME OriginInv, SaveAs
    PROVE  OriginInv' /\ UNCHANGED vars
<1>1. UNCHANGED <<vars, entry>>
    BY DEF SaveAs, OpenSaveAs, CancelSaveAs, TypeSaveAs, SubmitSaveAs, SaveAsFails
<1>2. EntryTyped' /\ Selected' = Selected
    BY <1>1 DEF OriginInv, EntryTyped, Selected
<1>3. Defaults.coordinates \in {None, Defaults.address}
    BY DEF OriginInv, EntryTyped, OriginIsEntered, Defaults, OriginTypes, Typed
<1>4. SavingInv'
    <2> USE DEF OriginInv, SavingInv
    <2>1. CASE OpenSaveAs
        BY <1>3, <2>1 DEF OpenSaveAs, MaySave
    <2>2. CASE CancelSaveAs
        BY <2>2 DEF CancelSaveAs
    <2>3. ASSUME NEW a \in Addresses, TypeSaveAs(a)
          PROVE  SavingInv'
        BY <2>3 DEF TypeSaveAs
    <2>4. CASE SubmitSaveAs
        BY <2>4 DEF SubmitSaveAs, Payload
    <2>5. CASE SaveAsFails
        BY <2>5 DEF SaveAsFails
    <2> QED
        BY <2>1, <2>2, <2>3, <2>4, <2>5 DEF SaveAs
<1> QED
    BY <1>1, <1>2, <1>4 DEF OriginInv, OriginIsEntered, SavingInv

-----------------------------------------------------------------------------
(* The page *)

\* Every step of the page is a step of Comparator, or none, and keeps OriginInv.
LEMMA PageStep ==
    LinesInv /\ OriginInv /\ [PageNext]_pageVars => OriginInv' /\ [Next]_vars
<1> SUFFICES ASSUME LinesInv, OriginInv, [PageNext]_pageVars
             PROVE  OriginInv' /\ [Next]_vars
    OBVIOUS
<1>0. ASSUME UNCHANGED <<origin, entry, saving>>, revision' \in {revision, revision + 1},
             revision' \in 0 .. MaxRevision
      PROVE  OriginInv'
    <2>1. EntryTyped' /\ SavingInv' /\ Selected' = Selected
        BY <1>0, ConstantsAssumption DEF OriginInv, EntryTyped, SavingInv, Selected
    <2> QED
        BY <1>0, <2>1 DEF OriginInv, OriginIsEntered
<1>r. revision \in 0 .. MaxRevision
    BY DEF OriginInv, EntryTyped
<1>1. CASE EditMaterials /\ UNCHANGED <<entry, saving>>
    <2>1. PICK c \in Carts : EditCart(c)
        BY <1>1, EditKeepsLines
    <2>2. UNCHANGED origin /\ revision' = revision + 1 /\ revision' \in 0 .. MaxRevision
        BY <1>r, <2>1, ConstantsAssumption DEF EditCart, Invalidate
    <2>3. Next
        BY <2>1, Zenon DEF Next
    <2> QED
        BY <1>0, <1>1, <2>2, <2>3
<1>2. CASE Search /\ UNCHANGED <<entry, saving>>
    <2>1. UNCHANGED vars
        BY <1>2, SearchKeepsLines
    <2> QED
        BY <1>0, <1>2, <1>r, <2>1
<1>3. CASE EnterOrigin
    BY <1>3, EnterKeepsOrigin, Zenon DEF Next
<1>4. CASE Load
    BY <1>4, LoadKeepsOrigin, Zenon DEF Next
<1>5. CASE SaveAs
    BY <1>5, SaveAsKeepsOrigin
<1>6. CASE PageCompare
    <2>1. Compare /\ UNCHANGED <<origin, revision, entry, saving>>
        BY <1>6 DEF PageCompare, Compare
    <2> QED
        BY <1>0, <1>r, <2>1, Zenon DEF Next
<1>7. CASE PageChoose
    <2>1. UNCHANGED <<origin, revision, entry, saving>>
        BY <1>7 DEF PageChoose, Choose, OpenConfirm, Cancel, Submit, Refuse
    <2>2. Next
        BY <1>7, Zenon DEF PageChoose, Next
    <2> QED
        BY <1>0, <1>r, <2>1, <2>2
<1>8. ASSUME NEW b \in Bases, PageToggle(b)
      PROVE  OriginInv' /\ [Next]_vars
    <2>1. Toggle(b) /\ UNCHANGED <<origin, revision, entry, saving>>
        BY <1>8 DEF PageToggle, Toggle
    <2> QED
        BY <1>0, <1>r, <2>1, Zenon DEF Next
<1>9. ASSUME NEW r \in inflight, PageAnswer(r)
      PROVE  OriginInv' /\ [Next]_vars
    <2>1. UNCHANGED <<origin, revision, entry, saving>>
        BY <1>9 DEF PageAnswer, Answer, AnswerFails
    <2>2. Next
        BY <1>9, Zenon DEF PageAnswer, Next
    <2> QED
        BY <1>0, <1>r, <2>1, <2>2
<1>10. CASE UNCHANGED pageVars
    BY <1>0, <1>10, <1>r DEF pageVars
<1> QED
    BY <1>1, <1>2, <1>3, <1>4, <1>5, <1>6, <1>7, <1>8, <1>9, <1>10 DEF PageNext

\* What the page starts with.
LEMMA PageStart == PageInit => Init /\ LinesInv /\ OriginInv
<1> SUFFICES ASSUME PageInit
             PROVE  Init /\ LinesInv /\ OriginInv
    OBVIOUS
<1>1. LinesInv
    <2>1. cart \in Carts /\ DOMAIN cart = {}
        BY LinesAssumption, ConstantsAssumption DEF PageInit
    <2> QED
        BY <2>1, LinesAssumption
        DEF PageInit, LinesInit, LinesInv, LinesTypeOK, ChoicesAreOfTheText
<1>2. EntryTyped
    BY PageAssumption, ConstantsAssumption DEF PageInit, Init, EntryTyped, OriginTypes, Typed
<1>3. SavingInv /\ OriginIsEntered
    BY DEF PageInit, SavingInv, OriginIsEntered
<1> QED
    BY <1>1, <1>2, <1>3 DEF PageInit, OriginInv

\* The inductive invariant of the page, which is also one of Comparator.
LEMMA PageRefines == PageSpec => Spec /\ [](LinesInv /\ OriginInv)
<1>1. LinesInv /\ OriginInv /\ [PageNext]_pageVars
        => LinesInv' /\ OriginInv' /\ [Next]_vars
    BY LinesStep, PageStep
<1> QED
    BY PageStart, <1>1, PTL DEF PageSpec, Spec

-----------------------------------------------------------------------------
(* Theorems *)

\* The page, its searches, its geolocation and the loading of its chantier, is a
\* Comparator: nothing changes the cart or the origin but an edit that Comparator
\* counts.
THEOREM PageImplementsComparator == PageSpec => Spec
BY PageRefines, PTL

\* The origin compared is the one on the screen, and coordinates and positions are
\* never those of something entered before.
THEOREM OriginEntered == PageSpec => []OriginIsEntered
<1>1. OriginInv => OriginIsEntered
    BY DEF OriginInv
<1> QED
    BY <1>1, PageRefines, PTL

\* What is offered answers the text in the field and is known to the page, whenever
\* the first page of the catalogue and the answers of the searches come.
THEOREM ChoicesOfTheText == PageSpec => []ChoicesAreOfTheText
<1>1. LinesInv => ChoicesAreOfTheText
    BY DEF LinesInv
<1> QED
    BY <1>1, PageRefines, PTL

\* On the whole page too, the results shown are of what is on the screen.
THEOREM PageResultsAreCurrent == PageSpec => []ShownIsCurrent
BY PageImplementsComparator, ResultsAreCurrent, PTL

\* And the solution sent goes with the needs and the origin it was computed for.
THEOREM PageSendsForItsNeeds == PageSpec => []SentForItsNeeds
BY PageImplementsComparator, SolutionSentForItsNeeds, PTL
===============================================================================
