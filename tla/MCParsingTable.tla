--------------------------- MODULE MCParsingTable ---------------------------
(***************************************************************************)
(* Automata with LALR(1) lookaheads for the table, made from grammars      *)
(* without the generator's own phases, which other runs check.             *)
(***************************************************************************)
EXTENDS ParsingTable, MCAutomata

SomePrecedences == {NoPrecedence, Left(1), Right(1), Left(2)}

\* One operator, and a rule that may have a precedence of its own.
Operators == {GrammarOf(Declaration("E", << TokenWith("+", p), Token("x") >>,
                << Rules("E", << Production(<<"E", "+", "E">>), Prefer(<<"+", "E">>, q), Production(<<"x">>) >>) >>)) :
                p, q \in SomePrecedences}

\* Two or three rules for one word, under an operator.
Ambiguous == {GrammarOf(Declaration("S", << TokenWith("+", p), Token("x") >>,
                << Plain("S", << <<"A", "+">>, <<"B", "+">>, <<"x", "+">> >>),
                   Rules("A", << Prefer(<<"x">>, q) >>), Rules("B", << Prefer(<<"x">>, r) >>) >>)) :
                p, q, r \in SomePrecedences}

\* A sequence whose elements may be empty.
EmptyElement == Declaration("S", << TokenWith("a", Left(1)) >>,
  << Plain("S", << <<"S", "A">>, <<"a">> >>), Rules("A", << Prefer(<<>>, Left(2)) >>) >>)

\* Two rules for one word that the next symbol tells apart.
OneWord == Declaration("S", Tokens(<<"a", "b", "x">>),
  << Plain("S", << <<"A", "a">>, <<"B", "b">> >>), Plain("A", << <<"x">> >>), Plain("B", << <<"x">> >>) >>)

MCGrammarSet ==
  Operators \cup Ambiguous \cup
  GrammarsOf({EmptyElement, OneWord, Precedences, TwoOperators, LalrButNotLrNorNqlalr, Conflicts1, Conflicts2, Conflicts3,
   EndOrLater, MidruleActions, NullableTwice, MiddleOfRule})

MCSymbol == UNION {ToSet(gr.symbols) : gr \in MCGrammarSet}

MCAutomata == {AutomatonOf(gr) : gr \in MCGrammarSet}
=============================================================================
