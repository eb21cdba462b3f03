---------------------------- MODULE MCDiscovery -----------------------------
EXTENDS Discovery, TLC

MCRules == <<"LAME">>
MCWords == <<"blanc", "bois", "inox", "lame", "vis">>
MCTexts == <<<<"vis", "bois">>, <<"vis", "bois", "blanc">>, <<"lame", "bois", "blanc">>,
             <<"bois">>, <<"lame", "inox">>, <<"vis", "inox">>,
             <<"lame", "vis">>>>
MCDesignations == ToSet(MCTexts)
MCRenamed == {<<"bois">>}
MCFeatures ==
  [t \in MCDesignations |->
     CASE t = <<"lame", "inox">> -> {"volume", "paint"}
       [] t = <<"bois">> -> {}
       [] OTHER -> {"pair", "diameter", "screw", "fastener"}]
MCClassified == "LAME" :> {<<"lame", "vis">>}

\* Five references, in an order that does not matter.
MCTables ==
  {[i \in 1..5 |-> [text |-> MCTexts[n[i]], product |-> None]] :
     n \in {m \in [1..5 -> DOMAIN MCTexts] : \A i \in 1..4 : m[i] <= m[i + 1]}}

\* log((n + 1) / (df + 1)) + 1, by ten thousand.
MCIdf(df, n) ==
  <<<<10000>>,
    <<14055, 10000>>,
    <<16931, 12877, 10000>>,
    <<19163, 15108, 12231, 10000>>,
    <<20986, 16931, 14055, 11823, 10000>>,
    <<22528, 18473, 15596, 13365, 11542, 10000>>,
    <<23863, 19808, 16931, 14700, 12877, 11335, 10000>>>>[n][df]
=============================================================================
