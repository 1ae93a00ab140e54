---------------------------- MODULE MCTokenizers ----------------------------
(***************************************************************************)
(* Tokenizers for model checking: those of the documentation and the tests *)
(* over an alphabet of two letters, a blank and the character NUL.         *)
(***************************************************************************)
EXTENDS TokenizerBuilder

Pushes(text) == [kind |-> "Push", text |-> text]
Enters(name) == [kind |-> "Enter", state |-> name]
Does(kind)   == [kind |-> kind]

\* Builders
TokenFor(pattern, symbol) ==
  [end |-> FALSE, pattern |-> pattern, fullword |-> FALSE, symbol |-> symbol,
   states |-> <<DefaultName>>, enter |-> <<>>, action |-> Does("Read")]
AtEnd == [TokenFor(EndOfText, <<>>) EXCEPT !.end = TRUE, !.action = Does("None")]

In(builder, states)     == [builder EXCEPT !.states = states]
Entering(builder, name) == [builder EXCEPT !.enter = <<name>>]
With(builder, action)   == [builder EXCEPT !.action = action]
Whole(builder)          == [builder EXCEPT !.fullword = TRUE]

Blank == TokenFor(<<OneOrMore({" "})>>, <<>>)


\* docs/advanced.rst: "b" includes a stream, whose end pops it again.
Includes(text) == TokenizerOf(
  << With(TokenFor(<<Word(<<"b">>)>>, <<>>), Pushes(text)), TokenFor(<<OneOrMore({"a"})>>, <<"a">>),
     With(AtEnd, Does("Pop")) >>, Does("Read"))

\* A blank includes a stream that includes another; no stream is ever popped by an action.
PushesOnly == TokenizerOf(
  << With(TokenFor(<<Word(<<" ">>)>>, <<>>), Pushes(<<"b", "a">>)), With(TokenFor(<<Word(<<"b">>)>>, <<"b">>), Pushes(<<"a">>)),
     TokenFor(<<Word(<<"a">>)>>, <<"a">>) >>, Does("None"))

\* docs/writing_parser.rst: a keyword before names, as a full word or not.
Keywords(full) == TokenizerOf(
  << Blank, IF full THEN Whole(TokenFor(<<Word(<<"a">>), Word(<<"a", "b">>)>>, <<"key">>))
            ELSE TokenFor(<<Word(<<"a">>), Word(<<"a", "b">>)>>, <<"key">>),
     TokenFor(<<OneOrMore({"a", "b"})>>, <<"name">>) >>, Does("None"))

\* A blank opens and closes what is read letter by letter, with an end of its own.
Quoted == TokenizerOf(
  << TokenFor(<<Word(<<"a", "b">>)>>, <<"name">>), Entering(TokenFor(<<Word(<<" ">>)>>, <<"open">>), "quoted"),
     In(Entering(TokenFor(<<Word(<<" ">>)>>, <<"close">>), DefaultName), <<"quoted">>),
     In(TokenFor(<<Word(<<"a">>)>>, <<>>), <<"quoted">>),
     In(With(TokenFor(<<Word(<<"b">>)>>, <<>>), Does("Throw")), <<"quoted">>) >>, Does("None"))

\* An action has the last word on the state; the end of the text leaves it again.
EndsEverywhere == TokenizerOf(
  << With(Entering(TokenFor(<<Word(<<"a">>)>>, <<"a">>), "other"), Enters(DefaultName)),
     In(With(TokenFor(<<Word(<<"b">>)>>, <<"b">>), Enters("other")), <<DefaultName, "other">>),
     In(With(AtEnd, Enters(DefaultName)), <<"other">>) >>, Does("None"))

\* A pattern that matches nothing at all, and a state that nobody is active in.
Careless == TokenizerOf(
  << TokenFor(<<OneOrMore({"a"}), EmptyWord>>, <<"a">>), Entering(TokenFor(<<Word(<<" ">>)>>, <<>>), "nowhere") >>,
  Does("None"))

\* Tokens of a state other than the first.
Elsewhere == TokenizerOf(
  << Entering(Blank, "other"), In(TokenFor(<<Word(<<"a">>), Word(<<"b">>)>>, <<"a">>), <<"other">>),
     In(TokenFor(<<OneOrMore({"a", "b"})>>, <<"name">>), <<"other">>) >>, Does("None"))

=============================================================================
