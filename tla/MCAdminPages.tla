---------------------------- MODULE MCAdminPages ----------------------------
EXTENDS AdminPages, TLC

CONSTANTS r1, r2, p1, p2, f1, c1

\* Two references of one catalogue, one of them in the file.
MCOrder == <<r1, r2>>
MCContent == f1 :> {r2}
MCCode == f1 :> [r \in {r1, r2} |-> None]
MCMember == c1 :> {r1, r2}
MCMatches == "q" :> {r2}
MCElsewhere == {<<r1, p1>>}
MCMapped == (r1 :> None) @@ (r2 :> None)
MCUnitOf == [p \in {p1, p2} |-> "piece"]
=============================================================================
