-------------------------- MODULE TokenizerBuilder --------------------------
(***************************************************************************)
(* How the tokens of a tokenizer come about: Tokenizer::add_token(),       *)
(* TokenBuilder::done() and Tokenizer::prepare().                          *)
(*                                                                         *)
(* A token builder is a record [end, pattern, fullword, symbol, states,    *)
(* enter, action]; end tells the builders that end_token() made.  A token  *)
(* is a record [pattern, symbol, states, enter, action], and its index is  *)
(* its place in the sequence of tokens.  An optional is a sequence of at   *)
(* most one element.                                                       *)
(***************************************************************************)
EXTENDS Patterns, SequencesExt

DefaultName == "@default"

NoAction == [kind |-> "None"]

NewToken(pattern, symbol, states) ==
  [pattern |-> pattern, symbol |-> symbol, states |-> states, enter |-> <<>>, action |-> NoAction]

\* The constructor adds the end token.
NewTokens == <<NewToken(EndOfText, <<>>, <<DefaultName>>)>>

\* TokenBuilder::done().  A builder for the end token adds to its states.
Done(tokens, builder) ==
  LET action == IF builder.action = NoAction THEN tokens[1].action ELSE builder.action
      made   == NewToken(IF builder.fullword THEN Fullword(builder.pattern) ELSE builder.pattern,
                      builder.symbol, builder.states)
  IN  IF builder.end
        THEN [tokens EXCEPT ![1].states = @ \o builder.states, ![1].action = action]
        ELSE Append(tokens, [made EXCEPT !.enter = builder.enter, !.action = builder.action])

TokensOf(builders) == FoldLeft(Done, NewTokens, builders)

\* The tokens, by index, that prepare() adds to the set of a state: as often as
\* they name it.
ActiveIn(tokens, name) ==
  FlattenSeq([k \in DOMAIN tokens |->
                [n \in DOMAIN SelectSeq(tokens[k].states, LAMBDA s : s = name) |-> k]])

StatesOf(tokens) == {DefaultName} \cup UNION {ToSet(tokens[k].states) : k \in DOMAIN tokens}

\* What prepare() leaves in the tokenizer.
TokenizerOf(builders, globalAction) ==
  LET tokens == TokensOf(builders)
  IN  [tokens |-> tokens, active |-> [name \in StatesOf(tokens) |-> ActiveIn(tokens, name)],
       globalAction |-> globalAction]

=============================================================================
