----------------------------- MODULE MCKeywords -----------------------------
(* Two keywords of the set and two of the game, over the letters a and b:   *)
(* one of the game's is refused by match_condition wherever it is found.    *)
EXTENDS Keywords
MCMatchStrings == {<<"a", " ", PARAM>>, <<"b", " ", "a">>, <<"a", " ", UNKNOWN>>}
MCGameMatch == [g |-> <<"b">>, h |-> <<"1">>]
MCGameKeywords == <<"h", "g">>
MCInitialTexts == {<<"b", " ", "a", " ", "1">>, <<"b", "a", " ", "b">>}
=============================================================================
