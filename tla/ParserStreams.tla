---------------------------- MODULE ParserStreams ---------------------------
(***************************************************************************)
(* A parser with its tokenizer: Parser::parse() asks next_token() for the  *)
(* tokens of an input stream, one at a time, and is called again once it   *)
(* has returned or an exception has left it, be it a syntax error or one   *)
(* that an action of a token or of a rule has thrown.                      *)
(*                                                                         *)
(* The tables and the tokenizer of a parser have the same number.  Actions *)
(* of rules leave the tokenizer alone.                                     *)
(***************************************************************************)
EXTENDS Tokenizer, SequencesExt

CONSTANTS
  Tables, Perform(_, _, _),  \* as in Parser
  Throwing,                  \* rules whose action may throw, by parser
  MaxTokens                  \* bound: tokens in a text, those without a symbol and @end included

VARIABLES
  token, stack, outcome,     \* parse()
  content,                   \* what it was called with
  unread                     \* the tokens of the text that it has not been given,
                             \* which no code keeps

parserVars == <<token, stack, outcome>>
allVars    == <<vars, parserVars, content, unread>>

ASSUME ParsersAssumption == DOMAIN Tables = DOMAIN Tokenizers

\* The tables, evaluated once.
PreparedTables == Tables

-----------------------------------------------------------------------------
(* The tokens of a text *)

EndToken == [symbol |-> EndSymbol, value |-> NoValue]
Failure  == [symbol |-> NoMatch, value |-> NoValue]
Abort    == [symbol |-> Thrown, value |-> NoValue]

TopOf(context) == context.streams[Len(context.streams)]
IsAtEnd(context) == context.streams # <<>> => TopOf(context).at_end

\* The place a tokenizer m goes on with, as a set: the longest match, the earliest
\* among equals.
BestIn(m, context) ==
  LET active  == m.active[context.state]
      size(p) == MatchLength(m.tokens[active[p]].pattern, TopOf(context).text)
      places  == {p \in DOMAIN active : Matches(m.tokens[active[p]].pattern, TopOf(context).text)}
  IN  {p \in places : \A q \in places : size(q) < size(p) \/ (size(q) = size(p) /\ p <= q)}

\* The context once n characters have been read as token t and its action has run.
Behind(m, context, t, n) ==
  LET top == TopOf(context).text
      cut == [text |-> SubSeq(top, n + 1, Len(top)), at_end |-> top = <<>>]
      consumed == [state   |-> IF t.enter # <<>> THEN t.enter[1] ELSE context.state,
                   streams |-> [context.streams EXCEPT ![Len(context.streams)] = cut]]
  IN  EffectOn(EffectOn(consumed, m.globalAction), t.action)

\* One more token from where a tokenizer stands: the context and the tokens so far,
\* of which @end is the last.
ReadOn(m, read) ==
  LET context == read.context
      t       == m.tokens[m.active[context.state][CHOOSE p \in BestIn(m, context) : TRUE]]
      n       == MatchLength(t.pattern, TopOf(context).text)
      value   == IF t.action.kind = "None" THEN NoValue ELSE SubSeq(TopOf(context).text, 1, n)
      with(more) == [read EXCEPT !.tokens = @ \o more]
  IN  IF read.tokens # <<>> /\ Last(read.tokens) = EndToken THEN read
      ELSE IF IsAtEnd(context) THEN with(<<EndToken>>)
      ELSE IF BestIn(m, context) = {} THEN with(<<Failure, EndToken>>)
      ELSE IF t.action.kind = "Throw" THEN with(<<Abort, EndToken>>)
      ELSE [context |-> Behind(m, context, t, n),
            tokens  |-> read.tokens \o (IF t.symbol = <<>> THEN <<>> ELSE <<[symbol |-> t.symbol[1], value |-> value]>>)]

\* What has been read of a text in so many steps.
ReadingOf(m, t) ==
  LET read[n \in 0 .. MaxTokens] ==
        IF n = 0 THEN [context |-> [state |-> DefaultState, streams |-> <<StreamOf(t)>>], tokens |-> <<>>]
        ELSE ReadOn(m, read[n - 1])
  IN  read

AllTokens(m, t) == ReadingOf(m, t)[MaxTokens].tokens

\* The bound leaves no token out.
ASSUME TokensAssumption ==
  MaxTokens \in Nat /\ \A k \in DOMAIN Prepared, t \in Texts :
    AllTokens(Prepared[k], t) # <<>> /\ Last(AllTokens(Prepared[k], t)) = EndToken

\* The tokens of every text but for the @end behind them.
TextTokens == [k \in DOMAIN Prepared |-> [t \in Texts |-> Front(AllTokens(Prepared[k], t))]]

P == INSTANCE Parser WITH
  Tables <- PreparedTables,
  parser <- machine,
  input  <- TextTokens[machine][content],
  Inputs <- LAMBDA gr : {TextTokens[k][t] : k \in DOMAIN Prepared, t \in Texts}

-----------------------------------------------------------------------------

BothInit ==
  /\ machine \in DOMAIN Prepared /\ content \in Texts
  /\ state = DefaultState /\ streams = <<StreamOf(content)>>
  /\ phase = "Idle" /\ matched = {} /\ best = 0 /\ result = <<>>
  /\ token = <<>> /\ stack = <<P!Bottom>> /\ outcome = P!Running
  /\ unread = Append(TextTokens[machine][content], EndToken)

\* Mutant: the streams of the parse before are still there.
BeginOnTop(t) ==
  /\ outcome # P!Running
  /\ state' = DefaultState /\ streams' = Append(streams, StreamOf(t)) /\ result' = <<>>
  /\ content' = t
  /\ token' = <<>> /\ stack' = <<P!Bottom>> /\ outcome' = P!Running
  /\ unread' = Append(TextTokens[machine][t], EndToken)
  /\ UNCHANGED <<machine, phase, matched, best>>

\* parse() is called again.
Begin(t) ==
  /\ outcome # P!Running
  /\ Parse(t)
  /\ content' = t
  /\ token' = <<>> /\ stack' = <<P!Bottom>> /\ outcome' = P!Running
  /\ unread' = Append(TextTokens[machine][t], EndToken)

Ask ==
  /\ outcome = P!Running /\ token = <<>> /\ result = <<>>
  /\ Call
  /\ UNCHANGED <<content, parserVars, unread>>

Tokenize == Loop /\ UNCHANGED <<content, parserVars, unread>>

Exception == [kind |-> "Exception"]

\* next_token() has returned, or an exception has come out of it.
Take ==
  /\ outcome = P!Running /\ phase = "Idle" /\ result # <<>>
  /\ IF result[1].symbol = Thrown THEN outcome' = Exception /\ UNCHANGED <<token, stack, unread>>
     ELSE /\ P!Receive(result[1])
          /\ unread' = IF result[1].symbol = NoMatch THEN unread ELSE Tail(unread)
  /\ result' = <<>>
  /\ UNCHANGED <<content, machine, state, streams, phase, matched, best>>

TakeTurn == P!Turn /\ UNCHANGED <<streamVars, loopVars, content, unread>>

\* The action of a rule throws: nothing is popped or pushed any more.
RuleThrows ==
  /\ P!Does("Reduce")
  /\ P!ActionOf(token[1].symbol).rule \in Throwing[machine]
  /\ outcome' = Exception
  /\ UNCHANGED <<vars, token, stack, content, unread>>

RunOn == Ask \/ Tokenize \/ Take \/ TakeTurn

BothNext ==
  \/ \E t \in Texts : Begin(t)
  \/ RunOn \/ RuleThrows

BothSpec == BothInit /\ [][BothNext]_allVars

\* One thread runs parse() and next_token() to their ends.
FairBoth == BothSpec /\ WF_allVars(RunOn)

-----------------------------------------------------------------------------
(* Properties *)

\* An exception leaves parse() where it is.
Interrupted == outcome' = Exception /\ UNCHANGED <<machine, content, unread, token, stack>>

\* Every call of parse() runs as a parser does that is handed the tokens of its text
\* alone, from the first to the last, whatever the parses before it, which may have
\* returned, failed or thrown, have left in the tokenizer.
ParsesText == P!Init /\ [][P!Next \/ Interrupted \/ P!Init']_(P!vars)

\* A value is returned only when nothing of the text is unread, and the stream that
\* is left, if any, has been read to its end.
ReturnsAtEnd ==
  outcome.kind = "Value" =>
    /\ unread = <<>>
    /\ streams # <<>> => TopStream = [text |-> <<>>, at_end |-> TRUE]

\* Every call of parse() comes to an end.
ParseEnds == outcome = P!Running ~> outcome # P!Running

=============================================================================
