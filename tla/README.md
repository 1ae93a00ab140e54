# pog in TLA+

pog is a header-only C++ library that generates LALR(1) parsers at run time: the
user declares tokens and rules on a `pog::Parser`, calls `prepare()`, and then
`parse()`s input streams. This directory models the library, checks the models
with TLC and proves theorems about them with TLAPS. All paths below are relative
to the repository; the headers are under `src/include/pog/`.

## The system

`Parser` owns one object of each of the parts below and wires them together by
reference. `prepare()` runs them once, one after the other; each reads what the
ones before it have left:

    token and rule builders -> Grammar, Tokenizer
    Automaton::construct_states()          (reads Grammar)
    Includes, Lookback                     (read Grammar, Automaton)
    Read                                   (reads Grammar, Automaton)
    Follow  = digraph_algo(Includes, Read)
    Lookahead                              (reads Lookback, Follow)
    ParsingTable                           (reads Automaton, Grammar, Lookahead) -> ParserReport
    Tokenizer::prepare()

`parse()` is a loop over a stack of states and values that asks the tokenizer for
tokens and the table for actions, and calls user code (rule actions) on
reductions; the tokenizer calls user code (token actions, the global action),
which may push and pop input streams and change the tokenizer state.

| Part | State | Operations | Hard to get right | Correct when |
|---|---|---|---|---|
| Grammar (`grammar.h`, `rule.h`, `symbol.h`, `item.h`, `precedence.h`) | symbols, rules, caches of empty/first/follow | add symbols and rules, `empty`, `first`, `follow` | recursion over a cyclic grammar with visited sets and caches that outlive a call | the three functions are the least solutions of their equations, whatever was asked before |
| Builders (`rule_builder.h`, `token_builder.h`) | declarations | `done()` | the first declaration of a symbol decides its kind; generated midrule symbols | midrule symbols are unique, every rule names declared symbols |
| Automaton (`automaton.h`, `state.h`) | states with items and transitions, two worklists, the index map | `construct_states`, `closure`, `add_state` | states are looked up by kernel before they are closed | it is the canonical LR(0) collection |
| Digraph (`digraph_algo.h`, `operations/follow.h`) | depths, stack, sets, recursion | `digraph_algo` | loops in the relation, unordered containers | F is the least solution |
| Relations and operations (`relations/`, `operations/`) | maps keyed by state and symbol or rule | `calculate()` of each | backtracking over back transitions, order of the phases | they are the relations of LALR(1) |
| Parsing table (`parsing_table.h`, `parser_report.h`) | action and goto maps, report | `calculate`, `add_*` | fill order, precedence, conflicts | no conflict is lost, precedence decides as `add_reduction()` has it, in no order |
| Tokenizer (`tokenizer.h`, `token.h`) | input stack, current state, token sets | `next_token`, `enter_state`, push/pop | callbacks in the middle of a match, ends of streams | longest match, first declared among equals; a stream that is pushed reads as if it stood in the text |
| Parser (`parser.h`, `errors.h`) | stack, remembered token | `prepare`, `parse` | user actions that move from their arguments, midrule borrowing, reuse after errors | a parse accepts exactly the language, passes every value on once and in order, and does not depend on the parse before it |
| HTML report, utilities | none | formatting | - | not modelled |

The library has no threads, no persistence and no network; what is hard is order:
unordered containers, worklists that grow while they are read, callbacks, phases
that read each other's caches, and calls repeated on one object. `PROJECT.json`
lists each hazard at its line.

## Modules

Grammar and what is made of it, in the order of `prepare()`:

- **Grammar** - the grammar as a record, items, item sets. Operators only. A
  grammar that reaches the generator satisfies `WellFormed`.
- **GrammarBuilder** - what `set_start_symbol()` and the builders' `done()` leave in
  the grammar, as folds over the declarations. **MCGrammars** uses it to declare
  the grammars of the tests, and families of small ones (`SmallGrammars`: every
  choice of right-hand sides for two nonterminals), the way a user of the library
  does.
- **GrammarReference** - the textbook definitions of nullable, first and follow, as
  least solutions. **GrammarSets** - `Grammar::empty()`, `first()` and `follow()` as
  they are written: recursion with a visited set that is passed by reference, and
  tables that outlive the call. The result of a call is a record of what the C++
  function returns and what it leaves in its reference parameters. A loop over rules or
  symbols is a function of how far it has come (`EmptySequence`, `FirstRules`), its body
  an operator of its own (`EmptyNext`, `FirstRule`), and the recursion a function of the
  depth of calls (`EmptyCalls`): a call at depth n makes those of depth n - 1. No call
  is nested deeper than `Depth`, since each one on the way has visited one more
  left-hand side. **GrammarQueries** - a client that asks them in any order; its
  variables are the three tables.
- **Automaton** - `construct_states()`. One action per round of `closure()`
  (`VisitItem`), per state taken from the queue (`TakeState`: the loop that steps
  its items) and per prepared state (`FindState` and `AddState`: the two outcomes
  of `add_state()`). The deque of `closure()` is a set, so every order is checked;
  the deque of states stays a sequence, because it numbers the states. The back
  transitions are the inverse of `transitions`.
- **LR0** - what the automaton promises: the canonical collection, without any
  worklist. `Automaton` implements it: a state belongs to the collection once its
  closure is finished.
- **Relations** (extends Automaton and GrammarSets) - `Includes` and `Lookback`.
  Both visit every item of every state and walk back from it; a walk is the deque
  `to_process` (`queue`) and the set `visited_states` (`visited`). `VisitInclude`
  and `VisitLookback` are the loop bodies up to the walk, `WalkInclude` and
  `WalkLookback` one round of it.
- **Digraph** - `digraph_algo()`; `frames` is the recursion, and the next key or
  related node is any one left, since the containers are unordered. A depth of 0
  stands for "not in `depths`". The initial values are the variable `base`, so that
  another module can instantiate it with values it has computed.
- **LALR** - the LALR(1) lookaheads of an LR(0) automaton by definition, with none of
  the relations: what rounds of growing over the places of the automaton make of
  nothing (`Grown`). **Lookaheads** (extends Relations and LALR, instantiates Digraph) -
  Read, Follow as a `digraph_algo()` on the relation Includes with base Read,
  Lookahead. `first()` of a sequence asks public `empty()` of its symbols, so Read fills
  the table of `empty()` while it goes. `Node` is what `digraph_algo()` may be asked about: the
  states with symbols that the automata of a run can have.
- **Resolution** - precedences, and what the rules of `add_reduction()` come to,
  stated without the order of filling. **ParsingTable** -
  `ParsingTable::calculate()` over any automaton with lookaheads (`Automata`).
  `EnterState` is the head of the loop with `add_accept()`, `AddTransition` is
  `add_state_transition()`, `TakeItem` the loop over final items, `AddReduction` is
  `add_reduction()` with one disjunct per way out of it. The lookaheads of an item
  come in any order; final items come in theirs.

What runs afterwards:

- **PreparedTable** - what `prepare()` leaves for `parse()`, stage by stage: the
  grammar (`GrammarFits`), the automaton (`AutomatonFits`) and the tables (`TableOK`).
- **Parser** - `parse()` over a prepared table: `NextToken`, `Fail` (a syntax
  error), `Reduce`, `Shift`, `Accept`. An entry of `stack` is the state and the value
  of the code's pair, and the symbol, which the code does not keep but the properties
  speak of. A reduction moves values out of the stack, looks the goto up below the
  right-hand side, runs the action and then pops or, for a midrule, gives back as many
  values as the vector still has: `MovedFrom`, `GotoKey`, `GivenBack`, `Popped`. What
  an action does to its vector is the style of its rule: nothing, reading it, moving
  out of its elements, or taking the vector itself. The tokenizer is the sequence
  `unread`.
- **Derivation** - what `parse()` promises: the rightmost derivation in reverse, with
  no stack, state or table. `Parser` implements it (`ReverseDerivation`).
  **Languages** - the words and the prefixes of words of a grammar up to a length, by
  definition. **ParserValues** - the values on the stack and the one returned, as
  sequences of what they were made of; **ParserLanguage** - `parse()` against the
  languages.
- **MCAutomata** - automata, LALR(1) lookaheads and tables of grammars, made by
  definition (LALR, Resolution) and not by the phases of the generator, which have
  runs of their own.
- **Patterns** - the patterns the tokenizers of the models have: sequences of words
  and of runs of letters, `$`, and full words. This is as much of RE2 as the models
  need; RE2 is external. **TokenizerBuilder** - what `TokenBuilder::done()` and
  `Tokenizer::prepare()` leave. **MCTokenizers** - the tokenizers of the documentation
  and the tests over a small alphabet.
- **Tokenizer** - the stack of streams, the tokenizer state and `next_token()`. Its
  phases: `Looping` (the head of the loop: `ReturnEnd`, `ReturnNothing`, `Match`),
  `Comparing` (the loop over the matched patterns, in any order: `Compare`), then
  `Skip`, `ReturnToken`, `Throw` or `UnknownState` (the assertion of
  `enter_state()`), with the entering of a state, the consumption of the text, the
  global action and that of the token in the order of the code. Between two calls the
  user may push and pop streams, enter states and parse anew.
- **Scanner** - what a tokenizer promises: one text, in which what is pushed is put
  in front, cut by the longest match and the order of declaration. **TokenizerText** -
  the streams as that text; `ScansText` is the refinement.
- **ParserStreams** (extends Tokenizer, instantiates Parser) - `parse()` and
  `next_token()` together, called again and again, with actions of tokens and rules
  that throw. `ParsesText` says that it refines the parser that is handed the tokens
  of its text, which are computed by definition (`TextTokens`, from the steps `ReadOn`
  of a reading).
- **AutomatonProofs**, **GrammarQueriesProofs**, **LookaheadsProofs** (of Relations
  too), **DigraphProofs**, **ParsingTableProofs**, **ParserProofs**, **TokenizerProofs** - theorems;
  **FlattenProofs** - laws of sequences for some of them, those of flattening above all.

Each remaining **MC** module has the instances for one run of TLC. Automaton,
Relations and Lookaheads are one state machine from the grammar to the lookaheads.
ParsingTable, Parser and Tokenizer stand alone, so that their theorems hold for every
automaton, table and tokenizer, those with wrong lookaheads too.

## Runs

| Run | Distinct states | Instances |
|---|---|---|
| `automaton` | 679 | eleven grammars |
| `digraph` | 248,040 | 1,610 relations of three and four nodes |
| `grammar_queries` | 25,104 | 401 grammars |
| `lookaheads` | 103,666 | 141 grammars |
| `parsing_table` | 3,702 | 92 grammars |
| `parser` | 22,093 | twenty parsers of fifteen grammars, every input of up to four tokens |
| `tokenizer` | 6,833 | eight tokenizers, six texts |
| `parser_streams` | 518 | five parsers with tokenizers, six texts |

Four more runs end with the violation that a finding below describes.

- `automaton` - ten grammars of the parser tests, with precedences, conflicts, left
  recursion, empty rules and midrule actions, and one in which a kernel is a part of
  an earlier one; every order of every closure. States are identified by kernel
  alone, closures are least, no transition is missing or wrong, the refinement of
  `LR0` holds, and the construction stops. Between them, in these grammars a state is
  found again from several predecessors, found while another state's transitions are
  being added, and closed over mutual recursion.
- `digraph` - all 729 partial relations over three nodes; all relations over four
  nodes with at most one node related to each; all over four nodes with a loop of two
  from which others go on or into which they lead. Each node has a value of its own,
  and everything goes in every order. `Sound`: nothing is in F that does not belong
  there. `LooplessExact`: F is complete where no loop has two nodes or more, as soon
  as a call has returned. `PairsExact`: F is complete on a loop of two that leads to
  no other loop, which rests on visited keys being traversed again. More does not
  hold; see the findings.
- `grammar_queries` - grammars of two nonterminals whose right-hand sides are empty,
  nullable in the middle, recursive, or use a symbol twice; every order of questions.
  No answer claims too much (`Sound`); answers are exact if no nullable symbol is used
  twice (`ExactWhenApart`), the condition the visited set of `grammar.h:177` imposes;
  a stored answer stays (`AnswersStand`). More is not true: for A -> a D S, S -> D C a |
  C with C and D empty, `empty(D S)` is true until `first()` of that sequence has stored
  that S is not empty. One grammar of the run has this shape.
- `lookaheads` - the grammars of the parser tests, three awkward ones and 128 small
  ones with loops, shared prefixes and empty ends, through all phases, in every order
  that the unordered containers may give `digraph_algo()`. A walk never leaves its
  item, so the assertions of the walks hold; Includes is sound; both relations are
  exact where no walk meets a state at two positions (`Straight`), no left-hand side
  is read in the middle of its rule and no nullable symbol is used twice; Read is
  exact; there the lookaheads are those of LALR(1).
- `parsing_table` - an operator with every pair of precedences for the token and the
  rule; two or three rules for one word under an operator, with every choice of
  precedences; empty rules; the conflicts of the tests. Every order of lookaheads.
  The table is the one the rules of `add_reduction()` come to (`TableAsResolved`),
  nothing is lost without a report except where a lookahead has a precedence or the
  state accepts, and no report is unfounded.
- `parser` - grammars with and without conflicts, with precedences, empty rules, and
  one or several midrule actions, with every style of action that the theorems allow;
  inputs of known and unknown tokens. No assertion of `parse()` fails; the stack is a
  path of the automaton; values go on once and in order whatever a midrule borrowed,
  kept or gave back; what has been shifted can be continued to a sentence, and a value
  is returned for sentences only; without conflicts nothing else is refused, and the
  symbols expected after an unknown token include every one that could follow
  (`ViableIsExpected`; they may include others). `ReverseDerivation` is the refinement
  of `Derivation`, `Termination` that `parse()` returns.
- `tokenizer` - includes that are popped by the end token or by nobody, keywords as
  full words or not, states with their own end, actions that push, pop, enter a state
  or throw, a pattern that matches nothing at all; any calls of the user between two
  tokens. The longest match wins and then the first declared; the end symbol means
  that the stream on top has been read to its end; `next_token()` returns; and all of
  it reads one text (`ScansText`).
- `parser_streams` - lists, keywords, includes and quoted text, parsed again and again
  after values, syntax errors, and exceptions from actions of tokens and rules.
  Whatever the parse before has left in the tokenizer - a pushed stream, a state that
  was entered - the next one parses its own text alone, to the end, and returns.

### Bounds

The bounds are the sets of grammars, relations, tokenizers, inputs and texts;
`MaxStreams` (streams on the stack when the user pushes one more, 2),
`MaxLength` (tokens of an input, 4) and `MaxTokens` (tokens of a text, 9, more than any
text has) are the only numbers. No counter is capped: every computation ends. Two
nonterminals, right-hand sides of up to three symbols and up to sixteen states are
enough for each way the phases differ from the definitions: a shared visited set needs
a symbol twice, a walk needs a state at two positions, a component needs two nodes and
an order that fails needs four. Four tokens reach every rule of the grammars,
including a reduction under a wrong token and a midrule in front of one. Two streams
are enough for a stream under a stream that ends.

### Fairness and deadlock

Everything runs in one thread that takes its next step whenever it has one: weak
fairness of `Next` in `automaton`, `digraph` and `parser`, of `Loop` in `tokenizer`
and of `RunOn` in `parser_streams`. The last two leave it to the user whether he calls
again, and to the actions of rules whether they throw. The other runs check safety
only and assume nothing. Deadlock is checked wherever a computation must not get
stuck; a finished one stutters explicitly. `CHECK_DEADLOCK FALSE` stands in the runs of
the tokenizer only, where an unknown state stops the program at an assertion.

## Theorems

All of them hold for every value of the constants that satisfies the named assumptions,
which TLC evaluates for the instances of the runs.

**AutomatonProofs**, for every set of well-formed grammars (`GrammarsAssumption`) and
every order of closure: type correctness and all safety properties of the run, and
that every step of `Automaton` is a step of `LR0` or a stutter (`ImplementsLR0`). The
inductive invariant `IInv` adds to the properties that the newest state alone may be
unfinished (`NewestIsClosing`), that a set that contains the kernel and is closed up to
the items still to visit contains the state (`StatesAreLeast`; minimality cannot be
read off a state otherwise), and that the kernel of state 1 is the start item.

**DigraphProofs**, for every relation, base and order: F never gets a value it
should not have, the recursion nests, and F is exact where no loop has two nodes or
more; a node may be related to itself. The invariant `Inv` ties the explicit stack to
the recursion (`StackIsCalls`: every node is popped alone, so components are never
merged), says what a call waits for (`CallsWait`) and what it has merged so far
(`CallsHaveMerged`); without loops no call below the top can be reached from the top
(`TopReachesNoCall`).

`PairsAreExact` is what the algorithm keeps of its promise with loops: where a loop has
two nodes and leads to no other, both have all of F in the end, on every finite
relation and in every order. Its invariant `PairsInv` rests on `Own`, what a node has
without its loop: a call that returns has left that (`ReturnedHaveOwn`), because what
is off the loop cannot be in progress (`OuterHasReturned`, from `CallsReach`); and the
key at the bottom of the recursion has merged it from its partner too
(`RootHasPartners`), since nothing but the key itself is in progress then. A key that
was traversed as a root is never entered again (`RootsVisited`), so it stays
(`RootsHavePartners`).

**GrammarQueriesProofs**, for every set of well-formed grammars, every order of questions
and whatever the tables hold by then: no answer claims what the textbook definitions do
not say (`AnswersAreSound`), all are exact if no nullable symbol is used twice and no
rule defines a terminal (`AnswersAreExact`), and a stored answer is never taken back or
contradicted (`StoredAnswersStand`). The invariant is `RightAnswers`: each of the three
tables is right of the grammar, and complete under the conditions of `AnswersAreExact`
(the argument `all` of its parts). What makes it inductive is about single calls:

- Soundness is an induction over the depth of calls (`EmptyCallsTruth`,
  `FirstCallsFinds`, `FollowCallsFinds`).
- `empty()` gives up at a visited symbol, so that a call says yes of what can be empty is
  shown for what can be empty without the symbols visited so far (`Avoiding`). A call
  visits only what it can reach from its symbol, through rules (`Trace`), and if nothing
  nullable is used twice, what has been visited on the way to a symbol cannot be needed
  behind it: the only place of it lies in what was visited (`Bypass`, `OnePlace`).
- `first()` and `follow()` search the grammar and return at visited symbols without
  losing anything, though the answer of the inner call is not complete. `Searched` and
  `SearchedAfter` say of the symbols visited so far that whatever each needs has been
  visited or is in the answer; when the outermost call returns, the symbols visited are
  closed, and a least set is within (`SearchComplete`, `SearchAfterComplete`).
- The depth suffices, since a call that calls has visited one nonterminal more (`Left`).

**LookaheadsProofs** begins with Relations, for every set of well-formed grammars:
`Includes` relates nothing that its definition does not (`IncludesIsSound`), and where the
grammars are `GrammarFits` misses nothing if no nullable symbol is used twice and no walk
meets a state at two read positions (`IncludesIsComplete`). `Lookback` has all of its
definition under the same condition on the walk, and nothing else unless a state on the
way has a transition over the left-hand side (`LookbackIsExact`). That `empty()` and
`first()` answer right, whatever the table holds, is taken from GrammarQueriesProofs,
which the module instantiates (`Queries`; its operators are shown to be the same,
`SameEmpty`, `SameFirst`, and the facts restated as `EmptyOfTail` and
`FirstOfTailIsRight`). The walks' assertions never fail (`AssertionsOfWalks`, of
`WayGoesOn`): that the state in hand has a back transition over the symbol to the left
rests on the states being reachable and on every kernel item having been stepped to over
any edge that leads there.

Two facts carry the proof. `Walks` is the invariant of one walk: everything in the queue
is on the way back (`Origins`), what is visited is on it at some read position, and, if
the way is `Straight`, what has been visited is still in the queue or has been dealt
with: related at position 0, its predecessors visited elsewhere. So when the queue is
empty all of the way has been related, by induction from the read position down to 0
(`DownwardInduction`). `RelInv` is the invariant of the program:
every pair has an item that justifies it (`IncludesJustified`, `LookbackJustified`), and
every item that was visited and is not walked back from at the moment has all of its
pairs if its way is straight (`IncludesFull`, `LookbackFull`). It needs no assumption,
and the conditions of the theorems enter only when pairs are compared with definitions:
an item is in every state on its way at the read position it has there
(`ItemsOnTheWay`), so a rule that looks back to a state was begun there (`RuleBegan`),
and where it was begun its left-hand side has a transition.

For every set of grammars that are `GrammarFits`, LookaheadsProofs carries this
through the operations. `ReadIsExact`: Read claims nothing that cannot be read next,
and misses nothing where no nullable symbol is used twice. `LookaheadsAreExact`: in
every order of `digraph_algo()`, no LALR(1) lookahead is missing where no nullable
symbol is used twice, no walk meets a state at two positions and Includes has no loop
of two nodes or more, and none is too many where no rule has its left-hand side within.
The side on which a parser would refuse sentences and the side on which it would report
conflicts that are none thus have conditions of their own. `EveryNode`, a hypothesis
of `LookaheadsAreExact`, only says that the constant `Node` leaves no state out.

`ReadInv` says of every key of Read what has been collected for it (`Reading`):
from all items of the state that read the symbol but those that are still to be
visited; that the table of `empty()` stays right (`TableRight`) is a part of it.
`FollowInv` adds that `digraph_algo()` runs: each of its steps here is a step of Digraph (`DigraphStepIsNext`),
so the invariants of DigraphProofs hold of it and Follow is `Sound` and `LooplessExact`.
What is left is that the definition of Follow by reachability in Includes and the
definition of the lookaheads by growth over the items agree. One way, the nodes
whose rules the growth has reached contain what Read gives and what Includes adds
(`FollowSpreads`), so all of Follow is among them, and from where a rule begins the growth
goes on along the transitions to its end (`EndFollowed`). The other way, the final item that a
terminal follows was begun in a state it looks back to, and the terminal is in the Follow
of that state and left-hand side (`FollowedIsBegun`): the set of the places for which
this holds is closed under the growth, and the growth is the least such set, which is
proved for functions defined on rounds (`FollowedByIsLeast`). `NoLoops`
connects `Loopless`, that the keys can be taken in an order, with the condition that
DigraphProofs has.

**ParsingTableProofs**, for every automaton with functional transitions, none over
@end, all sets of terminals as lookaheads and all precedences but one on @end
(`AutomataAssumption`): all safety properties of the run. `Inv` adds the order of the
loops to the types (`FillingOrder`): the items of a state wait until its transitions
are added, and the lookaheads in hand belong to an item that has been taken. That is
why nothing is ever in the way of a transition (`EntriesNeverCollide`). `Tried` says
which reductions `add_reduction()` has been called for; it grows by exactly the one a
step adds (`TriedGrows`, `TriedStays`), and an entry that a reduction without a
comparable precedence has met no longer changes (`TriedEntryStays`), so that the report
stays complete (`ReportIsComplete`) and sound (`ReportIsSound`). `TableIsResolution`
says what the table is: `AsSettled` gives each entry from the transitions and from the
items tried so far, and since final items are tried in their order (`TakenInOrder`)
the next one comes after all of them; when all have been tried that is `Resolution`,
which knows no order of filling.

**ParserProofs**, for every table that `prepare()` can leave, whatever its conflicts
were settled for, and all inputs: the stack is a path of the automaton
(`StackAlwaysIsPath`), no assertion of `parse()` fails (`AssertionsAlwaysHold`), and
`parse()` implements `Derivation` (`ImplementsDerivation`), so that what it accepts
has a derivation even when lookaheads are wrong. `TablesAssumption` says what a
table is (`TableOK`): transitions step items, a reduction needs its final item, a
state that begins a rule has a goto for it, a midrule is empty and borrows what is in
front of it. Nothing of that is left to trust: see *From stage to stage*.
`InputsAssumption`: the tokenizer hands out terminals. `ArgumentsStay`, the
one hypothesis about the user: no action of a rule that is not a midrule takes the
vector of its arguments by value. The invariant is `PathOn`: every item of every state
on the stack, at whatever position, has its symbols right below, above the state it
was begun in (`Placed`). It must speak of all entries, since a pop uncovers any of
them, and it gives both the right-hand side of a reduction and the goto of the state
under it; a midrule has its arguments because an item of the same state has read them.
`TokensInv` (what is unread is input, and nothing comes after @end) adds what the
refinement needs.

ParserProofs also shows, for the same tables, values that are sequences over any set
(`TokensValued`) and actions that make their value of all of their arguments, or of
none if they are a midrule and leave them (`ActionsCollect`): the values on the stack
are those of the tokens shifted (`ValuesAlwaysInOrder`), so `parse()` returns the
values of the whole input (`ReturnedValueIsOfInput`). `KeptValues` is the heart of it:
whatever the style of the action, what the stack is left with and what the action has
made are together what was there. `LinedUp` says which token of the input the
remembered one is, and that the end of the input is reached when @end is accepted.

**TokenizerProofs**, for every tokenizer, all texts (`TextsOver`) and every order of the
matched patterns: the tokenizer is in one of its states and compares patterns that
match (`TypeCorrect`), the end symbol means what it should (`EndCorrect`), and the
longest match wins and then the token declared first (`ChoiceCorrect`) where
`TiesInOrder`: of two tokens of a state that can match equally long texts, the index
of the one is not above the place of the other. In the default state that holds if
every token up to there is active in it; `tokenizer_tie` is what happens otherwise.
RE2 is assumed to give matches a size (`SizesOK`).

Under these conditions `next_token()`, the pushes and the pops
implement `Scanner` (`TokenizerScansText`): what is pushed reads as if it stood in the
text of the stream below. `MatchesFit`: a match is not longer than the text.
`MarksApart`: the ends of streams are no characters. `PopsAreStreams`: a global action
and that of the token do not pop the same last stream, which `std::vector` leaves
undefined. The mapping flattens the stack of streams, so the proof rests on
**FlattenProofs**: `FlattenSeq` of the community modules is a recursive function, whose
laws (the type, appending, joining, empty parts) are proved by induction from the
well-foundedness of the numbers (`SetInduction`), without an induction theorem that
takes an operator.

Of `parse()` over `next_token()`, for the same tokenizers and every table that is
`TableOK`: a value is returned only at the end of the text (`ReturnsAtEndOfText`), and
every call runs as a parser does that is handed the tokens of its own text
(`ParsesTextOnly`), whatever streams and state the call before has left, be it that it
returned, failed or was thrown out of. `TokensAssumption` asks that texts have an end:
`MaxTokens` steps read any of them, skipped matches counted too. The inductive
invariant is `BothInv`. Its heart is `Tracks`: the tokenizer stands at a step of the
reading of the text (`ReadingOf`) behind which come just the tokens parse() has not
been given (`Ahead`), or one more once `next_token()` has returned and before parse()
has taken it. `TokenIsNext` needs `BestSoFar` for it: only if the choice does not
depend on the order of RE2 do the tokens of a text depend on the text alone. That
nothing is left when a value is returned is due to the table, which accepts with @end
and shifts anything else (`WhatTokensDo`).

### From stage to stage

Each stage has theorems under an assumption about what it is given, and the stage
before proves it. `LeavesAutomaton`: if the grammar is as the builders leave it
(`GrammarFits`), `construct_states()` leaves an automaton that is `AutomatonFits`. Its
lemmas go back from an item of a state to why it is there: predicted by an item of the
same state (`PredictedByItem`, from the minimality of closures), or stepped to over any
transition that leads there (`SteppedOver`). `LeavesLookaheads`: when the operations
are done the automaton is still that one, and all lookaheads are terminals, the wrong
ones too. `LeavesTable`: of such an automaton with such lookaheads `calculate()` leaves a
table that is `TableOK`, whatever the precedences and whichever terminals the lookaheads
are; `FillInv` adds the goto table, of which no entry is
missing once a state is passed. And `TableOK` is all that the theorems about `parse()`
ask of a table. `GrammarFits` itself, that names with @ are the start rule's alone, that
no rule defines a token and that a midrule symbol stands in one place, is a condition on
the declarations; TLC evaluates it for those of the runs `parser` and `lookaheads`.

### Only model-checked

Liveness, and the properties that compare `parse()` with the language up to a length,
whose languages are recursive operators (`AcceptsSentences`, `RefusesNothingElse`,
`ViableIsExpected`).

## Findings

| Run | Code | Against |
|---|---|---|
| `lookaheads_loop` | `digraph_algo.h:28`: the depth that is lowered is that of the related node, so components are never merged, and in some orders a lookahead is lost and a sentence refused | its comment on components, `digraph_algo.h:60` |
| `includes_nullable_twice` | `grammar.h:177`: a sequence with a nullable symbol twice is taken not to be empty; S -> B C C | the definition in `relations/includes.h:14` |
| `lookaheads_middle_of_rule` | `relations/lookback.h:75`: a state in the middle of a rule counts as one it began in; an LALR(1) grammar gets a conflict | "LALR(1) parsers", `src/README.md:8` |
| `tokenizer_tie` | `tokenizer.h:181`: an index among all tokens is compared with a place in the list of the state, and the later token wins | `tokenizer.h:178`, `docs/writing_parser.rst:55` |

### Known limits

Facts that the models state by a condition of a property or leave outside an
assumption, without a run of their own:

- `grammar.h:166`: the rules of a symbol share the visited set, too, so S -> D C a | C
  with C and D empty is taken not to be empty itself. The condition is `UsedOnce`.
- `relations/includes.h:106`: `visited_states` does not distinguish read positions,
  so for X -> a X x | a a B the walk back from `a a <*> B` misses origins. The
  condition is `Straight`.
- `digraph_algo.h:28`: from four nodes on, values may be missing in some orders if a
  loop has three nodes or more or is entered from outside (for example on a loop of
  three that a fourth leads to). The condition is that of `PairsExact`.
- `parsing_table.h:103`: with a precedence on a rule and on the lookahead, the
  comparison with the lookahead decides between two rules for one word and nothing is
  reported. The condition is in `NothingLostInSilence`.
- `parsing_table.h:119`: a reduction that meets the accept entry is neither placed nor
  reported. Accept stays, and `NothingLostInSilence` exempts those states.
- `automaton.h:104`: the index of a state is its position; the models have positions only.
- `parser.h:221`: the number of entries to pop is the size of the argument vector
  after the action. An action that takes a `std::vector` by value has moved it away, so
  nothing is popped. The condition is `ArgumentsStay`.
- `parser.h:146`: where a conflict is settled for an empty rule against a shift that
  leads out of a loop of empty reductions, `parse()` reduces for ever. No grammar of
  the run has that, so `Termination` says nothing about it.
- `parser.h:170`: after reductions under a token that turns out to be wrong, the symbols
  listed as expected are those of the state reached. `ViableIsExpected` is stated for
  tokens that match nothing, before which nothing is reduced.
- `rule_builder.h:63`: midrule symbols are numbered within a builder. Two builders for
  one left-hand side make one symbol with two empty rules; `prepare()` reports the
  conflict, but `parse()` may then run the action of the wrong one, with as many
  arguments as the other has. The condition is `MidruleInPlace`.
- `grammar.h:99`: a symbol keeps the kind it was first added with, so a name that is
  both the start symbol and a token is a nonterminal, and a rule for the name of a
  token defines a terminal. GrammarBuilder has it so; no grammar of the runs does that
  (`GrammarFits`).
- `parser.h:73`: `prepare()` called twice adds every token and rule again.
- `token_builder.h`: what is said about entering a state or a symbol to the builder of
  `end_token()` is ignored; TokenizerBuilder has it so.
- `tokenizer.h:123`: a stream is read up to its first NUL. `Visible` is part of the
  tokenizer and of the reader of one text alike, so `ScansText` is about what is read.
- `tokenizer.h:203`: a global action that pops a stream leaves the action of the token
  a dangling view. The models leave popping to the actions of tokens.

## Not modelled

The HTML report, `to_string()`, `generate_graph()` and the names of symbols as text
(formatting; they change no state). `utils.h` and `filter_view.h` (stateless helpers).
RE2 (third-party; `Matches` and `MatchLength` are constants of Tokenizer, and Patterns
gives them for the runs), fmt, googletest, the examples and the build files. The
descriptions of symbols, which only the messages of syntax errors use. Actions of rules
that touch the tokenizer. Copies and moves of a `Parser`.

## Plan

The order in which the parts are modelled; 7 and 10 are open.

1. *(done)* Grammar, builders, automaton, LR0, Digraph, and their proofs.
2. *(done)* `empty`, `first`, `follow`; Relations, Lookaheads, LALR.
3. *(done)* ParsingTable and its proofs.
4. *(done)* Parser, Derivation, the languages, and the proof of the refinement.
5. *(done)* Tokenizer, Scanner, the proofs of the choice and of the end; ParserStreams
   and its proofs.
6. *(done)* What each stage of `prepare()` leaves as what the next one assumes, proved.
7. The builders as a state machine: the order of declarations, names of midrule symbols
   over several builders, repeated `prepare()`.
8. *(done)* Proofs of `PairsExact`, `TableAsResolved`, `ValuesInOrder`, `ScansText`, of
   the relations, of Read and of the lookaheads.
9. *(done)* `empty()`, `first()` and `follow()` as functions of the depth of calls, and
   the proofs about them, so that nothing is assumed of them any more.
10. The language properties of `parse()` from `ImplementsDerivation` and
   `LookaheadsAreExact`.
