------------------------------- MODULE Parser -------------------------------
(***************************************************************************)
(* Parser::parse(): the stack machine that a prepared parser runs over its *)
(* action and goto tables.                                                 *)
(*                                                                         *)
(* The tokenizer is the sequence of tokens it will hand out, @end last; a  *)
(* token is a record [symbol, value].  An optional is a sequence of at     *)
(* most one element.                                                       *)
(***************************************************************************)
EXTENDS PreparedTable

CONSTANTS
  Tables,              \* prepared parsers, a sequence of tables
  Inputs(_),           \* the inputs, as token sequences, of a grammar
  NoValue,             \* ValueT{}, and what is left of a value moved from
  Perform(_, _, _)     \* what the action of a rule makes of its arguments

\* The parsers, evaluated once.
Prepared == Tables

ASSUME TablesAssumption == \A k \in DOMAIN Prepared : TableOK(Prepared[k])

\* The tokenizer hands out terminals of the grammar, if anything.
ASSUME InputsAssumption ==
  /\ NoMatch # EndSymbol
  /\ \A k \in DOMAIN Prepared : \A tokens \in Inputs(Prepared[k].grammar) :
       /\ Len(tokens) \in Nat /\ tokens = [j \in 1 .. Len(tokens) |-> tokens[j]]
       /\ \A j \in 1 .. Len(tokens) : tokens[j].symbol \in Prepared[k].grammar.terminals \cup {NoMatch}

VARIABLES
  parser,      \* which of the parsers runs, fixed
  input,       \* the tokens of the input stream, fixed
  unread,      \* what the tokenizer has not handed out yet
  token,       \* the token read and not consumed, if any
  stack,       \* entries [state, symbol, value]; no code keeps the symbol
  outcome      \* what parse() has come to

parserVars == <<token, stack, outcome>>
vars == <<parser, input, unread, parserVars>>

table == Prepared[parser]
g     == table.grammar

Running         == [kind |-> "Running"]
Returned(value) == [kind |-> "Value", value |-> value]
Empty           == [kind |-> "Empty"]        \* std::nullopt behind a failed assertion
StackTooSmall   == [kind |-> "StackTooSmall"]
SyntaxError(unexpected, expected) ==
  [kind |-> "SyntaxError", unexpected |-> unexpected, expected |-> expected]

Bottom == [state |-> 1, symbol |-> StartSymbol, value |-> NoValue]
EndToken == [symbol |-> EndSymbol, value |-> NoValue]

\* parse() begins.  Its stack and its token are locals, so a parser that has
\* thrown begins anew.
Init ==
  /\ parser \in DOMAIN Prepared
  /\ input \in Inputs(g)
  /\ unread = Append(input, EndToken)
  /\ token = <<>>
  /\ stack = <<Bottom>>
  /\ outcome = Running

Top == stack[Len(stack)]

\* The entry of the action table, if there is one.
EntryOf(s) == <<Top.state, s>>
HasAction(s) == EntryOf(s) \in DOMAIN table.action
ActionOf(s) == table.action[EntryOf(s)]

\* Mutant: @end is not listed.
ExpectedTerminals == {s \in g.terminals : HasAction(s)}

\* get_expected_symbols_from_state(): nonterminals are skipped, @end is not.
Expected == {s \in g.terminals \cup {EndSymbol} : HasAction(s)}

-----------------------------------------------------------------------------
(* The token *)

\* Mutant: the tokenizer is asked again.
ReceiveAgain(t) ==
  /\ outcome = Running /\ token = <<>>
  /\ token' = IF t.symbol = NoMatch THEN <<>> ELSE <<t>>
  /\ UNCHANGED <<parser, stack, outcome>>

Receive(t) ==
  /\ outcome = Running /\ token = <<>>
  /\ IF t.symbol = NoMatch
       THEN outcome' = SyntaxError(NoMatch, Expected) /\ UNCHANGED token
       ELSE token' = <<t>> /\ UNCHANGED outcome
  /\ UNCHANGED <<parser, stack>>

\* What is not matched is not consumed.
NextToken ==
  /\ unread # <<>>
  /\ Receive(Head(unread))
  /\ unread' = IF Head(unread).symbol = NoMatch THEN unread ELSE Tail(unread)
  /\ UNCHANGED input

Remembers == outcome = Running /\ token # <<>>

Fail ==
  /\ Remembers /\ ~HasAction(token[1].symbol)
  /\ outcome' = SyntaxError(token[1].symbol, Expected)
  /\ UNCHANGED <<parser, token, stack>>

Does(kind) ==
  /\ Remembers /\ HasAction(token[1].symbol)
  /\ ActionOf(token[1].symbol).kind = kind

-----------------------------------------------------------------------------
(* Reduce *)

\* get_number_of_required_arguments_for_action()
Arity(rule) == IF IsMidrule(rule) THEN rule.midrule ELSE Len(rule.rhs)

\* The arguments, from left to right.
Arguments(rule) == [k \in 1 .. Arity(rule) |-> stack[Len(stack) - Arity(rule) + k].value]

\* What is left of the vector of arguments once the action has run.
Remaining(rule, style) ==
  CASE style \in {"None", "Read"} -> Arguments(rule)
    [] style = "Move"             -> [k \in 1 .. Arity(rule) |-> NoValue]
    [] style = "ByValue"          -> <<>>

\* The stack with the arguments moved out of it.
MovedFrom(rule) ==
  [k \in DOMAIN stack |-> IF k > Len(stack) - Arity(rule) THEN [stack[k] EXCEPT !.value = NoValue]
                          ELSE stack[k]]

\* Mutant: a midrule's arguments are not given back.
NothingBack(rule, style) == MovedFrom(rule)

\* A midrule action gives back as many values as its vector still has.
GivenBack(rule, style) ==
  LET from == Len(stack) - Len(Remaining(rule, style))
  IN  [k \in DOMAIN stack |-> IF k > from THEN [stack[k] EXCEPT !.value = Remaining(rule, style)[k - from]]
                              ELSE MovedFrom(rule)[k]]

\* Mutant: one entry too few is popped.
PoppedOneLess(rule, style) ==
  SubSeq(MovedFrom(rule), 1, Len(stack) - Len(Remaining(rule, style)) + (IF Remaining(rule, style) = <<>> THEN 0 ELSE 1))

\* Any other action has as many entries popped.
Popped(rule, style) == SubSeq(MovedFrom(rule), 1, Len(stack) - Len(Remaining(rule, style)))

\* Mutant: the goto is looked up in the state on top.
TopKey(rule) == <<Top.state, rule.lhs>>

\* The state under the right-hand side decides where to go.
GotoKey(rule) == <<stack[Len(stack) - Len(rule.rhs)].state, rule.lhs>>

DeepEnough(rule) == Arity(rule) <= Len(stack) /\ Len(rule.rhs) < Len(stack)

\* The stack after a reduction whose action has made a value and whose goto is a
\* given state.
Reduced(rule, style, target, value) ==
  Append(IF IsMidrule(rule) THEN GivenBack(rule, style) ELSE Popped(rule, style),
         [state |-> target, symbol |-> rule.lhs, value |-> value])

\* What the action of rule r makes of its arguments.
ValueOf(r, rule, style) == IF style = "None" THEN NoValue ELSE Perform(table, r, Arguments(rule))

ReduceRule(r, rule, style) ==
  IF ~DeepEnough(rule) THEN outcome' = StackTooSmall /\ UNCHANGED stack
  ELSE IF GotoKey(rule) \notin DOMAIN table.goto THEN outcome' = Empty /\ UNCHANGED stack
  ELSE /\ stack' = Reduced(rule, style, table.goto[GotoKey(rule)], ValueOf(r, rule, style))
       /\ UNCHANGED outcome

ReduceBy(r) == ReduceRule(r, g.rules[r], table.style[r])

\* Mutant: the token is forgotten after a reduction.
ReduceAndForget ==
  /\ Does("Reduce")
  /\ ReduceBy(ActionOf(token[1].symbol).rule)
  /\ token' = IF unread = <<>> THEN token ELSE <<>>
  /\ UNCHANGED parser

Reduce ==
  /\ Does("Reduce")
  /\ ReduceBy(ActionOf(token[1].symbol).rule)
  /\ UNCHANGED <<parser, token>>

-----------------------------------------------------------------------------
(* Shift and accept *)

Shift ==
  /\ Does("Shift")
  /\ stack' = Append(stack, [state |-> ActionOf(token[1].symbol).state,
                             symbol |-> token[1].symbol, value |-> token[1].value])
  /\ token' = <<>>
  /\ UNCHANGED <<parser, outcome>>

Accept ==
  /\ Does("Accept")
  /\ outcome' = Returned(Top.value)
  /\ UNCHANGED <<parser, token, stack>>

-----------------------------------------------------------------------------

\* One turn of the loop for the token remembered.
Turn == Fail \/ Reduce \/ Shift \/ Accept

Terminated == outcome # Running /\ UNCHANGED vars

Next ==
  \/ NextToken
  \/ Turn /\ UNCHANGED <<input, unread>>
  \/ Terminated

Spec == Init /\ [][Next]_vars

\* parse() is one thread in a loop.
FairSpec == Spec /\ WF_vars(Next)

-----------------------------------------------------------------------------
(* Properties *)

Names(tokens) == [k \in DOMAIN tokens |-> tokens[k].symbol]
Symbols == [k \in 1 .. Len(stack) - 1 |-> stack[k + 1].symbol]

\* Every reduction finds its right-hand side on the stack and its goto in the
\* table: neither assertion of parse() fails, nor does it return an empty result.
AssertionsHold == outcome.kind \notin {"Empty", "StackTooSmall"}

\* The states on the stack are a path of the automaton that spells its symbols,
\* and every item of the state on top, at whatever read position, has its symbols
\* above the state it was begun in.
StackIsPath ==
  /\ \A k \in 2 .. Len(stack) : <<stack[k - 1].state, stack[k].symbol, stack[k].state>> \in table.transitions
  /\ \A item \in table.states[Top.state] :
       /\ item.pos < Len(stack)
       /\ \A q \in 1 .. item.pos : stack[Len(stack) - item.pos + q].symbol = Rhs(g, item)[q]
       /\ [item EXCEPT !.pos = 0] \in table.states[stack[Len(stack) - item.pos].state]

\* parse() builds the rightmost derivation of its input in reverse, and returns a
\* value only when it has come to the start symbol and the end of the input.
Rightmost == INSTANCE Derivation WITH
  Grammars <- {Prepared[k].grammar : k \in DOMAIN Prepared},
  form     <- Symbols \o Names(token) \o Names(unread),
  accepted <- outcome.kind = "Value"

ReverseDerivation == Rightmost!Spec

\* parse() comes to an end: a value, or a syntax error.
Termination == <>(outcome # Running)

=============================================================================
