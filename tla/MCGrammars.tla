----------------------------- MODULE MCGrammars -----------------------------
(***************************************************************************)
(* The grammars the model-checking runs use, as declarations a user of pog *)
(* writes.  Those named after a test are the grammar of that test.         *)
(***************************************************************************)
EXTENDS GrammarBuilder

MCNoSymbol == "<none>"
MCMidruleName(lhs, n, i) == "_" \o lhs \o "#" \o ToString(n) \o "." \o ToString(i)

Left(level)  == [level |-> level, assoc |-> "Left"]
Right(level) == [level |-> level, assoc |-> "Right"]

Token(s)              == [symbol |-> s, precedence |-> NoPrecedence]
TokenWith(s, prec)    == [symbol |-> s, precedence |-> prec]
Production(rhs)       == [parts |-> <<rhs>>, precedence |-> NoPrecedence]
Prefer(rhs, prec)     == [parts |-> <<rhs>>, precedence |-> prec]
Midrules(parts)       == [parts |-> parts, precedence |-> NoPrecedence]
Rules(lhs, prods)     == [lhs |-> lhs, productions |-> prods]
Plain(lhs, rhss)      == Rules(lhs, [n \in DOMAIN rhss |-> Production(rhss[n])])
Tokens(names)         == [n \in DOMAIN names |-> Token(names[n])]
Declaration(start, tokens, rules) ==
  [start |-> start, tokens |-> tokens, rules |-> rules]

GrammarsOf(declarations) == {GrammarOf(d) : d \in declarations}

-----------------------------------------------------------------------------
\* tests/test_parser.cpp

RepeatingAs == Declaration("A", Tokens(<<"a">>),
  << Plain("A", << <<"A", "a">>, <<"a">> >>) >>)

SameNumberOfAsAndBs == Declaration("S", Tokens(<<"a", "b">>),
  << Plain("S", << <<"a", "S", "b">>, <<"a", "b">> >>) >>)

LalrButNotLrNorNqlalr == Declaration("S", Tokens(<<"a", "b", "c", "d", "g">>),
  << Plain("S", << <<"a", "g", "d">>, <<"a", "A", "c">>, <<"b", "A", "d">>, <<"b", "g", "c">> >>),
     Plain("A", << <<"B">> >>),
     Plain("B", << <<"g">> >>) >>)

Precedences == Declaration("E",
  << TokenWith("+", Left(1)), TokenWith("-", Left(1)), TokenWith("*", Left(2)), Token("int") >>,
  << Rules("E", << Production(<<"E", "+", "E">>), Production(<<"E", "-", "E">>),
                  Production(<<"E", "*", "E">>), Prefer(<<"-", "E">>, Right(3)),
                  Production(<<"int">>) >>) >>)

Conflicts1 == Declaration("sequence", Tokens(<<"a">>),
  << Plain("sequence", << <<"sequence", "a">>, <<"maybea">>, <<>> >>),
     Plain("maybea", << <<"a">>, <<>> >>) >>)

Conflicts2 == Declaration("Y", Tokens(<<"c", "b">>),
  << Plain("Y", << <<"c", "c", "Z", "b">> >>),
     Plain("Z", << <<"c", "Z", "b">>, <<"c", "Z">>, <<>> >>) >>)

Conflicts3 == Declaration("E", Tokens(<<"(", ")", "a">>),
  << Plain("E", << <<"(", "E", ")">>, <<"PE">> >>),
     Plain("PE", << <<"(", "PE", ")">>, <<"a">> >>) >>)

IndirectLeftRecursion == Declaration("A", Tokens(<<"a">>),
  << Plain("A", << <<"B">> >>),
     Plain("B", << <<"A", "a">>, <<"a">> >>) >>)

EndOrLater == Declaration("S", Tokens(<<"a", "b">>),
  << Plain("S", << <<"A">> >>),
     Plain("A", << <<"B", "b">>, <<"B">> >>),
     Plain("B", << <<"a">> >>) >>)

MidruleActions == Declaration("S", Tokens(<<"a", "func", "id">>),
  << Rules("S", << Midrules(<< <<"func", "id">>, <<"A">> >>) >>),
     Plain("A", << <<"A", "a">>, <<"a">> >>) >>)

-----------------------------------------------------------------------------
\* Others

\* A kernel that is a part of the kernel of an earlier state.
PartOfKernel == Declaration("S", Tokens(<<"a", "b", "c">>),
  << Plain("S", << <<"a", "c">>, <<"A">>, <<"b", "A">> >>),
     Plain("A", << <<"a">> >>) >>)

TwoOperators == Declaration("E",
  << TokenWith("+", Left(1)), TokenWith("^", Right(2)), Token("int") >>,
  << Plain("E", << <<"E", "+", "E">>, <<"E", "^", "E">>, <<"int">> >>) >>)

\* An optional symbol twice in a row.
NullableTwice == Declaration("S", Tokens(<<"b", "c">>),
  << Plain("S", << <<"B", "C", "C">> >>),
     Plain("B", << <<"b">> >>),
     Plain("C", << <<"c">>, <<>> >>) >>)

\* A rule that begins again after its first symbol.
LoopingPrefix == Declaration("X", Tokens(<<"a", "b", "x">>),
  << Plain("X", << <<"a", "X", "x">>, <<"a", "a", "B">> >>),
     Plain("B", << <<"b">> >>) >>)

\* A state in the middle of a rule that has a transition over its left-hand side.
MiddleOfRule == Declaration("S", Tokens(<<"a", "d", "x">>),
  << Plain("S", << <<"A">>, <<"D">> >>),
     Plain("A", << <<"x", "A">>, <<"a">> >>),
     Plain("D", << <<"x", "A", "d">> >>) >>)

\* Includes has loops of several nodes that others lead to.
LoopOfIncludes == Declaration("S", Tokens(<<"a", "b">>),
  << Plain("S", << <<"a">>, <<"b", "A">> >>),
     Plain("A", << <<"a", "A">>, <<"B">> >>),
     Plain("B", << <<"S">> >>) >>)

-----------------------------------------------------------------------------
\* Every grammar of two nonterminals with one or two alternatives each, taken
\* from two sets of right-hand sides.

Alternatives(rhss) == {<<x>> : x \in rhss} \cup {<<x, y>> : x, y \in rhss}

SmallGrammars(forA, forB) ==
  {GrammarOf(Declaration("A", Tokens(<<"a", "b">>), <<Plain("A", x), Plain("B", y)>>)) :
     x \in Alternatives(forA), y \in Alternatives(forB)}

=============================================================================
