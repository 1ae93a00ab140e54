--------------------------- MODULE MCParserStreams --------------------------
(***************************************************************************)
(* Parsers with tokenizers for model checking.                             *)
(***************************************************************************)
EXTENDS ParserStreams, MCAutomata, MCTokenizers

MCWordCharacters == {"a", "b"}
MCNul == "NUL"
MCNoValue == <<>>

\* The value of a symbol is the text it has been read from.
MCPerform(t, r, args) == FlattenSeq(args)

List == Declaration("S", Tokens(<<"a">>), << Plain("S", << <<"S", "a">>, <<"a">> >>) >>)

Names == Declaration("S", Tokens(<<"key", "name">>),
  << Plain("S", << <<"key", "name", "S">>, <<"name">>, <<"key">> >>) >>)

Quotes == Declaration("S", Tokens(<<"name", "open", "close">>),
  << Plain("S", << <<"name", "S">>, <<"open", "close", "S">>, <<>> >>) >>)

\* The grammar and the tokenizer of each parser.
Declarations == << List, List, Names, Names, Quotes >>

MCTokenizers == << Includes(<<"a">>), Includes(<<>>), Keywords(TRUE), Keywords(FALSE), Quoted >>

MCTables == ParsersOf([k \in DOMAIN Declarations |-> <<Declarations[k], "Move", "Move">>])

\* Every second rule.
MCThrowing == [k \in DOMAIN Declarations |-> {r \in 1 .. 4 : r % 2 = 0}]

MCTexts == {<<>>, <<"a", "b">>, <<"b", "a">>, <<"a", " ", "b">>, <<"a", "a", " ", "a", "b">>, <<"a", "b", " ", "a", "a", " ">>}

MCSymbol == UNION {ToSet(GrammarOf(d).symbols) : d \in ToSet(Declarations)}

=============================================================================
