------------------------------ MODULE MCParser ------------------------------
(***************************************************************************)
(* Parsers for model checking: every input up to a length, for grammars    *)
(* with and without conflicts and with midrule actions of every style.     *)
(***************************************************************************)
EXTENDS ParserLanguage, MCAutomata

MCNoMatch == "<no match>"
MCNoValue == <<>>
MCMaxLength == 4

\* Token k has value <<k>>.
MCInputs(gr) ==
  {[k \in DOMAIN word |-> [symbol |-> word[k], value |-> <<k>>]] :
     word \in BoundedSeq(gr.terminals \cup {MCNoMatch}, MCMaxLength)}

\* What an action makes of its arguments; a midrule action that leaves them
\* where they are has nothing of its own.
MCPerform(t, r, args) ==
  IF t.grammar.rules[r].midrule # NoMidrule /\ t.style[r] = "Read" THEN <<>> ELSE FlattenSeq(args)

-----------------------------------------------------------------------------

\* Two midrule actions in one rule, one of them in front.
FrontMidrules == Declaration("S", Tokens(<<"a", "b">>),
  << Rules("S", << Midrules(<< <<>>, <<"a", "T">>, <<"b">> >>) >>),
     Rules("T", << Midrules(<< <<"b">>, <<"T">> >>), Production(<<"a">>) >>) >>)

\* Empty rules that one symbol tells apart.
Optional == Declaration("S", Tokens(<<"a", "b">>),
  << Plain("S", << <<"A", "B", "a">>, <<"b", "S">> >>), Plain("A", << <<"b", "a">>, <<>> >>), Plain("B", << <<"a", "b">>, <<>> >>) >>)

\* One state for a word in two places, each with a symbol of its own behind it.
Merged == Declaration("S", Tokens(<<"a", "b", "x">>),
  << Plain("S", << <<"a", "X", "a">>, <<"b", "X", "b">> >>), Plain("X", << <<"x">>, <<"x", "x">> >>) >>)

Moving(declarations) == [k \in DOMAIN declarations |-> <<declarations[k], "Move", "Move">>]

Declared ==
  Moving(<< RepeatingAs, SameNumberOfAsAndBs, LalrButNotLrNorNqlalr, Precedences, Conflicts1, Conflicts2, Conflicts3,
            IndirectLeftRecursion, EndOrLater, NullableTwice, MiddleOfRule, Merged, Optional, MidruleActions, FrontMidrules >>) \o
  << <<MidruleActions, "Move", "Read">>, <<MidruleActions, "Move", "ByValue">>, <<MidruleActions, "None", "None">>,
     <<FrontMidrules, "Move", "Read">>, <<FrontMidrules, "Move", "ByValue">> >>

MCTables == ParsersOf(Declared)

MCSymbol == UNION {ToSet(GrammarOf(d[1]).symbols) : d \in ToSet(Declared)} \cup {MCNoMatch}

=============================================================================
