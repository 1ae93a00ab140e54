-------------------------- MODULE MCGrammarQueries --------------------------
(***************************************************************************)
(* Grammars of two nonterminals in which symbols that can be empty meet.   *)
(***************************************************************************)
EXTENDS GrammarQueries, MCGrammars

\* A symbol whose own answer is no and which is passed over behind another one.
AnswerTakenAway == Declaration("A", Tokens(<<"a">>),
  << Plain("A", << <<"a", "D", "S">> >>),
     Plain("S", << <<"D", "C", "a">>, <<"C">> >>),
     Plain("C", << <<>> >>),
     Plain("D", << <<>> >>) >>)

MCGrammarSet ==
  SmallGrammars({<<>>, <<"B", "a">>, <<"A", "B">>, <<"B", "B">>},
                {<<>>, <<"b">>, <<"A">>, <<"A", "a">>})
  \cup GrammarsOf({AnswerTakenAway})

MCSymbol == {StartSymbol, EndSymbol, "A", "B", "C", "D", "S", "a", "b"}

\* As of every grammar the builders leave.
ASSUME MCTerminalsUndefined == \A gr \in MCGrammarSet : DefinesNoTerminal(gr)

=============================================================================
