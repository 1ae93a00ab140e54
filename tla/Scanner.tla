------------------------------ MODULE Scanner -------------------------------
(***************************************************************************)
(* What a tokenizer promises, without streams, lists of patterns or places *)
(* in them: there is one text, in which a stream that is pushed is put in  *)
(* front of what is still to be read.  EndMark stands at the end of a      *)
(* stream; once it has been read it becomes a Wall, which is not read over *)
(* until the stream is popped.  A token is the longest match and, of two   *)
(* that are equally long, the one declared first.                          *)
(***************************************************************************)
EXTENDS Grammar, FiniteSetsExt

CONSTANTS
  Scanners,               \* tokenizers as in Tokenizer
  Texts, Visible(_),      \* contents of streams, and what of them is read
  DefaultState, NoMatch, Thrown, NoValue, EndMark, Wall,
  Matches(_, _), MatchLength(_, _)

VARIABLES machine, state, rest, asked, stopped, result

vars == <<machine, state, rest, asked, stopped, result>>

scanner == Scanners[machine]

Marks == {EndMark, Wall}

\* The text up to the first mark, and what is behind that mark.
FirstMark == Min({k \in DOMAIN rest : rest[k] \in Marks})
Segment   == SubSeq(rest, 1, FirstMark - 1)
Behind(text) == SubSeq(text, Min({k \in DOMAIN text : text[k] \in Marks}) + 1, Len(text))

\* The tokens that are active in the state and match.
Candidates == {k \in DOMAIN scanner.tokens : /\ \E p \in DOMAIN scanner.active[state] : scanner.active[state][p] = k
                                             /\ Matches(scanner.tokens[k].pattern, Segment)}

LengthOf(k) == MatchLength(scanner.tokens[k].pattern, Segment)

\* The longest match, the token that is declared first among equals.
IsChosen(k) ==
  /\ k \in Candidates
  /\ \A other \in Candidates : LengthOf(other) < LengthOf(k) \/ (LengthOf(other) = LengthOf(k) /\ k <= other)

Effect(context, action) ==
  CASE action.kind = "Push"  -> [context EXCEPT !.rest = Visible(action.text) \o <<EndMark>> \o @]
    [] action.kind = "Pop"   -> [context EXCEPT !.rest = Behind(@)]
    [] action.kind = "Enter" -> [context EXCEPT !.state = action.state]
    [] OTHER                 -> context

-----------------------------------------------------------------------------

Init ==
  /\ machine \in DOMAIN Scanners
  /\ state = DefaultState /\ rest = <<>>
  /\ asked = FALSE /\ stopped = FALSE /\ result = <<>>

Waiting == ~asked /\ ~stopped

Begin ==
  /\ Waiting
  /\ state' = DefaultState
  /\ \E text \in Texts : rest' = Visible(text) \o <<EndMark>>
  /\ result' = <<>>
  /\ UNCHANGED <<machine, asked, stopped>>

Put ==
  /\ Waiting
  /\ \E text \in Texts : rest' = Visible(text) \o <<EndMark>> \o rest
  /\ UNCHANGED <<machine, state, asked, stopped, result>>

TakeAway ==
  /\ Waiting /\ rest # <<>>
  /\ rest' = Behind(rest)
  /\ UNCHANGED <<machine, state, asked, stopped, result>>

Enter ==
  /\ Waiting
  /\ state' \in DOMAIN scanner.active
  /\ UNCHANGED <<machine, rest, asked, stopped, result>>

Ask ==
  /\ Waiting
  /\ asked' = TRUE /\ result' = <<>>
  /\ UNCHANGED <<machine, state, rest, stopped>>

Answer(symbol, value) ==
  /\ asked' = FALSE
  /\ result' = <<[symbol |-> symbol, value |-> value]>>
  /\ UNCHANGED <<machine, stopped>>

AtEnd == rest # <<>> => rest[1] = Wall

AnswerEnd ==
  /\ asked /\ AtEnd
  /\ Answer(EndSymbol, NoValue)
  /\ UNCHANGED <<state, rest>>

AnswerNothing ==
  /\ asked /\ ~AtEnd /\ Candidates = {}
  /\ Answer(NoMatch, NoValue)
  /\ UNCHANGED <<state, rest>>

\* The text behind a match; a mark that has been reached becomes a wall.
RestAfter(n) == IF rest[1] = EndMark THEN <<Wall>> \o Tail(rest) ELSE SubSeq(rest, n + 1, Len(rest))

Read(k) ==
  LET token    == scanner.tokens[k]
      lexeme   == SubSeq(Segment, 1, LengthOf(k))
      consumed == [state |-> IF token.enter # <<>> THEN token.enter[1] ELSE state, rest |-> RestAfter(LengthOf(k))]
      done     == Effect(Effect(consumed, scanner.globalAction), token.action)
  IN  /\ asked /\ ~AtEnd /\ IsChosen(k)
      /\ \/ /\ {consumed.state, done.state} \subseteq DOMAIN scanner.active
            /\ state' = done.state /\ rest' = done.rest
            /\ IF token.action.kind = "Throw" THEN Answer(Thrown, NoValue)
               ELSE IF token.symbol # <<>>
                 THEN Answer(token.symbol[1], IF token.action.kind = "None" THEN NoValue ELSE lexeme)
               ELSE UNCHANGED <<machine, asked, stopped, result>>
         \/ /\ ~({consumed.state, done.state} \subseteq DOMAIN scanner.active)
            /\ stopped' = TRUE /\ asked' = FALSE
            /\ UNCHANGED <<machine, state, rest, result>>

Next ==
  \/ Begin \/ Put \/ TakeAway \/ Enter \/ Ask
  \/ AnswerEnd \/ AnswerNothing
  \/ \E k \in DOMAIN scanner.tokens : Read(k)

Spec == Init /\ [][Next]_vars

=============================================================================
