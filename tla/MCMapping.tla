------------------------------ MODULE MCMapping ------------------------------
EXTENDS MappingCampaign, TLC

CONSTANTS b1, b2, g1

MCKeys == {"type", "size", "flag"}
\* A panel (type and size, flags), a bar (its kind is completed, its profile is
\* a flag, its length is renamed, its seed looks at identities) and a family of
\* the catalogue (a hierarchy of keys).
Panel == [identity |-> <<"size", "type">>, dims |-> {"size"}, compat |-> {"flag"},
          typeKey |-> "type", allowHigh |-> TRUE, hierarchy |-> FALSE, head |-> <<>>,
          secondary |-> {"flag"}]
Catalogue == [identity |-> <<"type", "size">>, dims |-> {}, compat |-> {},
              typeKey |-> NoKey, allowHigh |-> FALSE, hierarchy |-> TRUE,
              head |-> <<"type">>, secondary |-> {}]
Bar == [Catalogue EXCEPT !.identity = <<"type", "flag", "size">>,
                         !.head = <<"type", "flag">>]
MCRule == [panel |-> Panel, bar |-> Bar, cat |-> Catalogue]
MCStyle == [panel |-> "code", bar |-> "identity", cat |-> "code"]
MCCategory == [panel |-> "panels", bar |-> "bars", cat |-> "catalogue"]
MCRenamed == [panel |-> {}, bar |-> {"size"}, cat |-> {}]
MCEnrich(f, attrs) ==
  IF f = "bar" /\ attrs["type"] = Unknown THEN [attrs EXCEPT !["type"] = 1] ELSE attrs
MCLeftOut == [panel |-> {{}}, bar |-> {{}, {"type"}}, cat |-> {{}}]

Attr(t, s, g) == [type |-> t, size |-> s, flag |-> g]
Reading(p, s, c) == [panel |-> p, bar |-> s, cat |-> c]
\* Two panels apart by a flag, one of them with a reading of the catalogue;
\* one panel without a type; two bars of one code, and a longer one.
Plain == Reading(Attr(1, 1, Unknown), Other, Other)
Flagged == Reading(Attr(1, 1, 2), Other, Attr(1, 2, Unknown))
Untyped == Reading(Attr(Unknown, 1, 1), Other, Attr(1, 1, Unknown))
Short == Reading(Other, Attr(1, 1, 1), Other)
Longer == Reading(Other, Attr(1, 2, 1), Other)
Long == Reading(Other, Attr(1, 1, 2), Attr(1, Unknown, Unknown))
MCReadings == {<<Plain, Plain, Plain>>, <<Plain, Flagged, Plain>>, <<Flagged, Plain, Flagged>>,
             <<Flagged, Untyped, Flagged>>, <<Untyped, Flagged, Plain>>,
             <<Untyped, Untyped, Untyped>>, <<Short, Long, Short>>, <<Long, Short, Long>>,
             <<Short, Longer, Short>>, <<Flagged, Long, Long>>}
MCExtractions ==
  {[f \in Families |-> (b1 :> of[1][f]) @@ (b2 :> of[2][f]) @@ (g1 :> of[3][f])]
     : of \in MCReadings}

\* Two spellings of a profile have one code.
MCCodeOf(f, id) == IF f = "bar" THEN <<f, id.size>> ELSE <<f, id.type, id.size>>
MCText == (b1 :> "x") @@ (b2 :> "y") @@ (g1 :> "x")
MCEan == (b1 :> "e") @@ (b2 :> "e") @@ (g1 :> "e")
MCSpecificCode(t) == <<"SPEC">>
MCLongCode(t) == <<"SPEC", t>>
MCOtherCodes == {<<"hand">>}
MCContradiction == {<<"panel", g1>>}
MCRounded == {<<"bar", b2>>}
MCCampaigns == [profiles |-> [families |-> <<"bar", "panel">>, strict |-> FALSE, bare |-> TRUE],
                catalog |-> [families |-> <<"panel", "cat">>, strict |-> TRUE, bare |-> FALSE]]
=============================================================================
