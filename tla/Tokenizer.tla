------------------------------ MODULE Tokenizer ------------------------------
(***************************************************************************)
(* Tokenizer<ValueT>: the stack of input streams, the tokenizer state and  *)
(* next_token(), which matches the patterns that are active in that state  *)
(* at the start of the stream on top.                                      *)
(*                                                                         *)
(* Actions of the user run inside next_token() and may push a stream, pop  *)
(* the one on top, enter a state, or throw:                                *)
(*   [kind |-> "None"], "Read" (looks at the text only), "Pop", "Throw",   *)
(*   [kind |-> "Push", text |-> ...], [kind |-> "Enter", state |-> ...]    *)
(* The user also calls these between two tokens, and parse() begins anew   *)
(* whenever the one before is over.                                        *)
(***************************************************************************)
EXTENDS Grammar, FiniteSets

CONSTANTS
  Tokenizers,             \* prepared tokenizers [tokens, active, globalAction]
  Texts,                  \* contents of the input streams
  DefaultState,
  Nul,                    \* the character that ends a C string
  NoMatch,                \* the symbol of std::nullopt
  Thrown,                 \* the symbol of an exception
  NoValue,                \* ValueT{}
  Matches(_, _),          \* does RE2 match a pattern at the start of a text,
  MatchLength(_, _),      \* and over how many characters
  MaxStreams              \* bound: streams on the stack when the user pushes one

\* What prepare() leaves: the list of a state is in the order of declaration.
TokenizersAssumption ==
  \A k \in DOMAIN Tokenizers :
    LET t == Tokenizers[k]
    IN  /\ DefaultState \in DOMAIN t.active
        /\ \A name \in DOMAIN t.active :
             /\ t.active[name] \in Seq(Nat)
             /\ \A p, q \in DOMAIN t.active[name] : p < q => t.active[name][p] <= t.active[name][q]
             /\ \A p \in DOMAIN t.active[name] : t.active[name][p] \in DOMAIN t.tokens
        /\ \A n \in DOMAIN t.tokens :
             /\ t.tokens[n].symbol # <<>> => t.tokens[n].symbol[1] \in Symbol \ {EndSymbol, NoMatch, Thrown}

ASSUME TokenizersAssumption

VARIABLES
  machine,     \* which of the tokenizers, fixed
  state,       \* the name in _current_state
  streams,     \* _input_stack, records [text, at_end]; text is what is left
  phase,       \* "Idle", "Looping" or "Comparing" in next_token(), "Stopped"
  matched,     \* matched_patterns that are still to be compared
  best,        \* best_match, as a place in the list of the state, 0 for nullptr
  result       \* what next_token() returned, a token [symbol, value], if it has

streamVars == <<state, streams>>
loopVars   == <<phase, matched, best, result>>
vars == <<machine, streamVars, loopVars>>

\* The tokenizers, evaluated once.
Prepared == Tokenizers

tokenizer == Prepared[machine]

\* The tokens of the state: at each place an index of tokens.
Active    == tokenizer.active[state]
TokenAt(p) == tokenizer.tokens[Active[p]]

TopStream == streams[Len(streams)]
Below     == SubSeq(streams, 1, Len(streams) - 1)

LengthAt(p) == MatchLength(TokenAt(p).pattern, TopStream.text)
MatchedPatterns == {p \in DOMAIN Active : Matches(TokenAt(p).pattern, TopStream.text)}

-----------------------------------------------------------------------------
(* Streams and states *)

\* push_input_stream() views the content as a C string.
Visible(text) == SubSeq(text, 1, Cardinality({n \in DOMAIN text : \A k \in 1 .. n : text[k] # Nul}))

StreamOf(text) == [text |-> Visible(text), at_end |-> FALSE]

\* The state and the streams once an action of the user has run.
EffectOn(context, action) ==
  CASE action.kind = "Push"  -> [context EXCEPT !.streams = Append(@, StreamOf(action.text))]
    [] action.kind = "Pop"   -> [context EXCEPT !.streams = SubSeq(@, 1, Len(@) - 1)]
    [] action.kind = "Enter" -> [context EXCEPT !.state = action.state]
    [] OTHER                 -> context

Init ==
  /\ machine \in DOMAIN Prepared
  /\ state = DefaultState /\ streams = <<>>
  /\ phase = "Idle" /\ matched = {} /\ best = 0 /\ result = <<>>

\* Parser::parse() begins.
Parse(text) ==
  /\ phase = "Idle"
  /\ state' = DefaultState
  /\ streams' = <<StreamOf(text)>>
  /\ result' = <<>>
  /\ UNCHANGED <<machine, phase, matched, best>>

PushInputStream(text) ==
  /\ phase = "Idle" /\ Len(streams) < MaxStreams
  /\ streams' = Append(streams, StreamOf(text))
  /\ UNCHANGED <<machine, state, loopVars>>

\* The caller answers for there being a stream.
PopInputStream ==
  /\ phase = "Idle" /\ streams # <<>>
  /\ streams' = Below
  /\ UNCHANGED <<machine, state, loopVars>>

\* So does he for the state.
EnterState(name) ==
  /\ phase = "Idle" /\ name \in DOMAIN tokenizer.active
  /\ state' = name
  /\ UNCHANGED <<machine, streams, loopVars>>

-----------------------------------------------------------------------------
(* next_token() *)

Call ==
  /\ phase = "Idle"
  /\ phase' = "Looping"
  /\ result' = <<>>
  /\ UNCHANGED <<machine, streamVars, matched, best>>

Return(symbol, value) ==
  /\ phase' = "Idle"
  /\ result' = <<[symbol |-> symbol, value |-> value]>>
  /\ matched' = {} /\ best' = 0
  /\ UNCHANGED machine

\* The stack is empty, or nobody popped the stream that came to its end.
ReturnEnd ==
  /\ phase = "Looping"
  /\ streams # <<>> => TopStream.at_end
  /\ Return(EndSymbol, NoValue)
  /\ UNCHANGED streamVars

Reading == phase = "Looping" /\ streams # <<>> /\ ~TopStream.at_end

ReturnNothing ==
  /\ Reading /\ MatchedPatterns = {}
  /\ Return(NoMatch, NoValue)
  /\ UNCHANGED streamVars

Match ==
  /\ Reading /\ MatchedPatterns # {}
  /\ phase' = "Comparing"
  /\ matched' = MatchedPatterns
  /\ best' = 0
  /\ UNCHANGED <<machine, streamVars, result>>

\* Mutant: a longer match does not count.
IsEarlier(p) ==
  \/ best = 0
  \/ LengthAt(best) = LengthAt(p) /\ Active[best] > p

\* The index of a token is compared with a place in the list of the state.
Replaces(p) ==
  \/ best = 0
  \/ LengthAt(best) < LengthAt(p)
  \/ LengthAt(best) = LengthAt(p) /\ Active[best] > p

\* RE2 gives the matched patterns in no particular order.
Compare(p) ==
  /\ phase = "Comparing" /\ p \in matched
  /\ matched' = matched \ {p}
  /\ best' = IF Replaces(p) THEN p ELSE best
  /\ UNCHANGED <<machine, streamVars, phase, result>>

\* Mutant: a stream that has been read to its end is not marked.
NotEnded ==
  [state   |-> IF TokenAt(best).enter # <<>> THEN TokenAt(best).enter[1] ELSE state,
   streams |-> Append(Below, [text |-> SubSeq(TopStream.text, LengthAt(best) + 1, Len(TopStream.text)),
                              at_end |-> FALSE])]

\* Mutant: a stream ends with its last character.
EndedEarly ==
  [state   |-> IF TokenAt(best).enter # <<>> THEN TokenAt(best).enter[1] ELSE state,
   streams |-> Append(Below, [text |-> SubSeq(TopStream.text, LengthAt(best) + 1, Len(TopStream.text)),
                              at_end |-> Len(TopStream.text) <= 2])]

\* The state entered and the text consumed, before any action runs.
Consumed ==
  [state   |-> IF TokenAt(best).enter # <<>> THEN TokenAt(best).enter[1] ELSE state,
   streams |-> Append(Below, [text |-> SubSeq(TopStream.text, LengthAt(best) + 1, Len(TopStream.text)),
                              at_end |-> TopStream.text = <<>>])]

Lexeme == SubSeq(TopStream.text, 1, LengthAt(best))

\* Mutant: the actions run before the state is entered.
ActionsFirst(token) ==
  LET after == EffectOn(EffectOn([state |-> state, streams |-> Consumed.streams], tokenizer.globalAction),
                        token.action)
  IN  IF token.enter # <<>> THEN [after EXCEPT !.state = token.enter[1]] ELSE after

\* What the global action and then that of the token leave.
AfterActions(token) == EffectOn(EffectOn(Consumed, tokenizer.globalAction), token.action)

\* enter_state() asserts that the state is known.
IsKnown(name) == name \in DOMAIN tokenizer.active

\* Mutant: the state is not looked for.
KnowsAnything(token) == TRUE

KnowsStates(token) == IsKnown(Consumed.state) /\ IsKnown(AfterActions(token).state)

Runs(token) ==
  /\ KnowsStates(token)
  /\ state' = AfterActions(token).state
  /\ streams' = AfterActions(token).streams

Chosen == phase = "Comparing" /\ matched = {}

\* Text without a symbol is skipped.
Skip ==
  /\ Chosen /\ TokenAt(best).action.kind # "Throw"
  /\ TokenAt(best).symbol = <<>>
  /\ Runs(TokenAt(best))
  /\ phase' = "Looping" /\ matched' = {} /\ best' = 0
  /\ UNCHANGED <<machine, result>>

ReturnToken ==
  /\ Chosen /\ TokenAt(best).action.kind # "Throw"
  /\ TokenAt(best).symbol # <<>>
  /\ Runs(TokenAt(best))
  /\ Return(TokenAt(best).symbol[1], IF TokenAt(best).action.kind = "None" THEN NoValue ELSE Lexeme)

\* The action throws when the text has been consumed.
Throw ==
  /\ Chosen /\ TokenAt(best).action.kind = "Throw"
  /\ Runs(TokenAt(best))
  /\ Return(Thrown, NoValue)

UnknownState ==
  /\ Chosen
  /\ ~KnowsStates(TokenAt(best))
  /\ phase' = "Stopped" /\ matched' = {} /\ best' = 0
  /\ UNCHANGED <<machine, streamVars, result>>

-----------------------------------------------------------------------------

Loop ==
  \/ ReturnEnd
  \/ ReturnNothing
  \/ Match
  \/ \E p \in matched : Compare(p)
  \/ Skip
  \/ ReturnToken
  \/ Throw
  \/ UnknownState

User ==
  \/ \E text \in Texts : Parse(text) \/ PushInputStream(text)
  \/ PopInputStream
  \/ \E name \in DOMAIN tokenizer.active : EnterState(name)
  \/ Call

Next == User \/ Loop

Spec == Init /\ [][Next]_vars

\* next_token() runs to its end once it has been called.
FairSpec == Spec /\ WF_vars(Loop)

-----------------------------------------------------------------------------
(* Properties *)

ResultOK(token) == token.symbol \in Symbol \cup {EndSymbol, NoMatch, Thrown}

\* The state is one of the tokenizer's, and while patterns are compared there is a
\* stream that has not ended and every place is one that matches there.
TypeOK ==
  /\ machine \in DOMAIN Prepared
  /\ state \in DOMAIN tokenizer.active
  /\ phase \in {"Idle", "Looping", "Comparing", "Stopped"}
  /\ Len(result) \in 0 .. 1 /\ \A k \in DOMAIN result : ResultOK(result[k])
  /\ IF phase = "Comparing"
       THEN /\ streams # <<>> /\ ~TopStream.at_end
            /\ matched \subseteq MatchedPatterns /\ best \in MatchedPatterns \cup {0}
            /\ best = 0 => matched # {}
       ELSE matched = {} /\ best = 0

\* docs/writing_parser.rst: the longest match is taken and, of several that are as
\* long, the token that is declared first; whatever order RE2 lists them in.
LongestThenFirst ==
  Chosen =>
    \A p \in MatchedPatterns :
      \/ LengthAt(p) < LengthAt(best)
      \/ LengthAt(p) = LengthAt(best) /\ Active[best] <= Active[p]

\* docs/advanced.rst: the end symbol is passed down only when there is no stream, or
\* the stream on top has been read to its end and nobody has popped it.
EndMeansDone ==
  [][phase = "Looping" /\ phase' = "Idle" /\ result'[1].symbol = EndSymbol
       => (streams # <<>> => TopStream = [text |-> <<>>, at_end |-> TRUE])]_vars

\* next_token() returns, as long as no token without a symbol matches nothing at all.
NextTokenReturns == phase = "Looping" ~> phase \in {"Idle", "Stopped"}

=============================================================================
