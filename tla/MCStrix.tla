------------------------------- MODULE MCStrix -------------------------------
(* Strix for TLC: four callers, with letters, numbers, lines of a configuration,  *)
(* and a letter of Latin-1.                                                 *)
EXTENDS NeoConfig

Letters == {<<>>, <<"a">>, <<"b">>, <<" ">>, <<"a", "a">>, <<"a", "b">>,
            <<"a", "b", "a">>, <<"a", "a", "b">>, <<"a", "b", "a", "b">>}
Numbers == {<<"7">>, <<"8">>, <<"-">>, <<"+">>, <<".">>}
Settings == {<<"k">>, <<" ">>, <<"=">>, <<";">>}
Accents == {<<"e">>, <<"e acute">>}
MCWordSets == {Letters, Numbers, Settings, Accents}

MCWhite == {" "}
MCNotAscii == {"e acute"}
=============================================================================
