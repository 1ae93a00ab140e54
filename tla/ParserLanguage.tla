--------------------------- MODULE ParserLanguage ---------------------------
(***************************************************************************)
(* parse() against the language of its grammar: what it accepts, where it  *)
(* stops, and what it says was expected.                                   *)
(***************************************************************************)
EXTENDS ParserValues, Languages

CONSTANT MaxLength         \* of an input

\* The languages of the grammars, computed once.
SentencesOf == [k \in DOMAIN Prepared |-> Sentences(Prepared[k].grammar, MaxLength + 1)] @@ <<>>
PrefixesOf  == [k \in DOMAIN Prepared |-> ViablePrefixes(Prepared[k].grammar, MaxLength + 1)] @@ <<>>

\* A word can begin like this.  The start rule has @end behind every sentence.
Viable(word) == word \in PrefixesOf[parser]

-----------------------------------------------------------------------------
(* Properties *)

\* What has been shifted is the beginning of a sentence, and a value is returned
\* for a sentence only, made of all of it.
AcceptsSentences ==
  /\ Viable(Names(Consumed))
  /\ outcome.kind = "Value" => Append(Names(input), EndSymbol) \in SentencesOf[parser]
  /\ ValueIsOfInput

\* A table without conflicts refuses nothing but a token that no sentence has
\* there: the error is raised before that token is consumed.
RefusesNothingElse ==
  outcome.kind = "SyntaxError" /\ table.exact /\ outcome.unexpected # NoMatch =>
    ~Viable(Append(Names(Consumed), outcome.unexpected))

\* When the input matches no token, the error lists every symbol that could have
\* been there.
ViableIsExpected ==
  outcome.kind = "SyntaxError" /\ table.exact /\ outcome.unexpected = NoMatch =>
    \A s \in g.terminals \cup {EndSymbol} : Viable(Append(Names(Consumed), s)) => s \in outcome.expected

=============================================================================
