----------------------------- MODULE MCTokenizer ----------------------------
(***************************************************************************)
(* next_token() for model checking.                                        *)
(***************************************************************************)
EXTENDS TokenizerText, MCTokenizers

MCWordCharacters == {"a", "b"}
MCNoValue == <<>>

MCTokenizers ==
  << Includes(<<"a">>), Includes(<<>>), PushesOnly, Keywords(TRUE), Keywords(FALSE), Quoted, EndsEverywhere, Careless >>

MCNul == "NUL"
MCTexts == {<<>>, <<"a", "b">>, <<"b", "a", "b">>, <<"a", " ", "a", "b">>, <<" ", "a">>, <<"a", "a", MCNul, "a">>}

MCSymbol == {"a", "b", "key", "name", "open", "close"}

TieTokenizers == << Elsewhere >>

=============================================================================
