---------------------------- MODULE ParsingTable ----------------------------
(***************************************************************************)
(* ParsingTable::calculate(): the action and goto tables of a parser and   *)
(* the report of the conflicts met while they are filled.  States are      *)
(* filled in order; for each one the accept entry, the transitions, then   *)
(* the reductions of its final items under their lookaheads.  The          *)
(* lookaheads of an item are an unordered set.                             *)
(*                                                                         *)
(* A key <<i, s>> is StateAndSymbol; a table maps its keys to actions or   *)
(* states.  Transitions have distinct keys, so their order is left open.   *)
(***************************************************************************)
EXTENDS Grammar

CONSTANT Automata          \* automata with lookaheads that tables are made of

\* What the phases before leave: transitions are functional and never over
\* @end, which no token gives a precedence, and lookaheads are terminals or @end.
AutomataAssumption ==
  \A a \in Automata :
    /\ WellFormed(a.grammar)
    /\ EndSymbol \notin a.grammar.terminals \cup DOMAIN a.grammar.precedence
    /\ \A s \in DOMAIN a.grammar.precedence : a.grammar.precedence[s] \in Precedence \ {NoPrecedence}
    /\ a.states \in Seq(SUBSET Item(a.grammar))
    /\ a.transitions \subseteq (DOMAIN a.states) \X (Symbol \ {EndSymbol}) \X (DOMAIN a.states)
    /\ \A d, e \in a.transitions : d[1] = e[1] /\ d[2] = e[2] => d = e
    /\ a.grammar.terminals \cup {EndSymbol} \subseteq Symbol
    /\ a.lookahead \in [DOMAIN a.lookahead -> SUBSET (a.grammar.terminals \cup {EndSymbol})]

ASSUME AutomataAssumption

VARIABLES
  g, states, transitions, lookahead,   \* the automaton, fixed
  current,     \* the state being filled, 0 before the first
  edges,       \* its transitions still to add
  items,       \* its final items still to add
  rule,        \* the rule of the item being added, 0 before the first
  symbols,     \* lookaheads of that item still to add
  action,      \* _action_table
  goto,        \* _goto_table
  report       \* _issues of the ParserReport

automatonVars == <<g, states, transitions, lookahead>>
tableVars     == <<action, goto, report>>
vars == <<automatonVars, current, edges, items, rule, symbols, tableVars>>

INSTANCE Resolution

ShiftReduceConflict(i, s, r)   == [kind |-> "ShiftReduce", state |-> i, symbol |-> s, rule |-> r]
ReduceReduceConflict(i, r, r2) == [kind |-> "ReduceReduce", state |-> i, rule1 |-> r, rule2 |-> r2]

EmptyTable == [key \in {} |-> Accept]

\* A table with the entry of a key set.
With(table, key, value) ==
  [k \in DOMAIN table \cup {key} |-> IF k = key THEN value ELSE table[k]]

\* emplace(): an entry that is there stays.
Emplaced(table, key, value) == IF key \in DOMAIN table THEN table ELSE With(table, key, value)

IsKind(key, kind) == key \in DOMAIN action /\ action[key].kind = kind

Init ==
  /\ \E a \in Automata : /\ g = a.grammar /\ states = a.states
                         /\ transitions = a.transitions /\ lookahead = a.lookahead
  /\ current = 0
  /\ edges = {} /\ items = {}
  /\ rule = 0 /\ symbols = {}
  /\ action = EmptyTable /\ goto = EmptyTable
  /\ report = <<>>

-----------------------------------------------------------------------------
(* Filling *)

\* Mutant: the transitions into the state.
EnterStateBack ==
  /\ current < Len(states)
  /\ edges = {} /\ items = {} /\ symbols = {}
  /\ current' = current + 1
  /\ edges' = {e \in transitions : e[3] = current + 1}
  /\ items' = {item \in states[current + 1] : IsFinal(g, item)}
  /\ UNCHANGED <<automatonVars, rule, symbols, tableVars>>

\* The loop takes the next state, after the last reduction of the one before.
EnterState ==
  /\ current < Len(states)
  /\ edges = {} /\ items = {} /\ symbols = {}
  /\ current' = current + 1
  /\ edges' = {e \in transitions : e[1] = current + 1}
  /\ items' = {item \in states[current + 1] : IsFinal(g, item)}
  /\ action' = IF \E item \in states[current + 1] : IsAccepting(g, item)
                 THEN Emplaced(action, <<current + 1, EndSymbol>>, Accept)
                 ELSE action
  /\ UNCHANGED <<automatonVars, rule, symbols, goto, report>>

\* add_state_transition().
AddTransition(e) ==
  /\ e \in edges
  /\ edges' = edges \ {e}
  /\ LET key == <<e[1], e[2]>>
     IN  IF IsTerminal(g, e[2])
           THEN /\ action' = Emplaced(action, key, Shift(e[3]))
                /\ report' = IF IsKind(key, "Reduce")
                               THEN Append(report, ShiftReduceConflict(e[1], e[2], action[key].rule))
                               ELSE report
                /\ UNCHANGED goto
           ELSE goto' = Emplaced(goto, key, e[3]) /\ UNCHANGED <<action, report>>
  /\ UNCHANGED <<automatonVars, current, items, rule, symbols>>

IsNext(item) == item \in items /\ \A other \in items : ~ItemLess(other, item)

\* Mutant: the lookaheads of every rule of the state.
TakeItemOfState(item) ==
  /\ edges = {} /\ symbols = {}
  /\ IsNext(item)
  /\ items' = items \ {item}
  /\ rule' = item.rule
  /\ symbols' = UNION {SymbolsOf(current, r) : r \in RuleIndex(g)}
  /\ UNCHANGED <<automatonVars, current, edges, tableVars>>

\* The loop over get_production_items() takes the next item.
TakeItem(item) ==
  /\ edges = {} /\ symbols = {}
  /\ IsNext(item)
  /\ items' = items \ {item}
  /\ rule' = item.rule
  /\ symbols' = SymbolsOf(current, item.rule)
  /\ UNCHANGED <<automatonVars, current, edges, tableVars>>

-----------------------------------------------------------------------------
(* add_reduction(), for the current state, rule and one of its lookaheads *)

PlaceReduction(key) ==
  /\ key \notin DOMAIN action
  /\ action' = With(action, key, Reduce(rule))
  /\ UNCHANGED report

\* The entry stays, without a report.
KeepEntry(key) ==
  /\ key \in DOMAIN action
  /\ Comparable(rule, key[2]) /\ Less(StackPrecedence(rule), SymbolPrecedence(key[2]))
  /\ UNCHANGED <<action, report>>

\* Mutant: only a shift is replaced.
ReplaceShift(key) ==
  /\ key \in DOMAIN action
  /\ Comparable(rule, key[2]) /\ Greater(StackPrecedence(rule), SymbolPrecedence(key[2]))
  /\ action' = IF IsKind(key, "Shift") THEN With(action, key, Reduce(rule)) ELSE action
  /\ UNCHANGED report

\* The entry is replaced, whatever it is, without a report.
ReplaceEntry(key) ==
  /\ key \in DOMAIN action
  /\ Comparable(rule, key[2]) /\ Greater(StackPrecedence(rule), SymbolPrecedence(key[2]))
  /\ action' = With(action, key, Reduce(rule))
  /\ UNCHANGED report

\* Mutant: conflicts of two rules are not reported.
WithShiftConflict(key) ==
  IF IsKind(key, "Shift") THEN Append(report, ShiftReduceConflict(key[1], key[2], rule)) ELSE report

\* The report with the conflict of the rule and an entry in its way; one with
\* the accept entry is not reported.
WithConflict(key) ==
  IF IsKind(key, "Reduce") THEN Append(report, ReduceReduceConflict(key[1], action[key].rule, rule))
  ELSE IF IsKind(key, "Shift") THEN Append(report, ShiftReduceConflict(key[1], key[2], rule))
  ELSE report

\* Mutant: the later rule wins.
ReportAndReplace(key) ==
  /\ key \in DOMAIN action
  /\ ~Comparable(rule, key[2])
  /\ report' = WithConflict(key)
  /\ action' = With(action, key, Reduce(rule))

\* Mutant: precedence is not asked for between two rules.
ReportAnyConflict(key) ==
  /\ key \in DOMAIN action
  /\ ~Comparable(rule, key[2]) \/ IsKind(key, "Reduce")
  /\ report' = WithConflict(key)
  /\ UNCHANGED action

\* The entry stays.  (Of two precedences either Less or Greater holds.)
ReportConflict(key) ==
  /\ key \in DOMAIN action
  /\ ~Comparable(rule, key[2])
  /\ report' = WithConflict(key)
  /\ UNCHANGED action

AddReduction(s) ==
  /\ s \in symbols
  /\ symbols' = symbols \ {s}
  /\ \/ PlaceReduction(<<current, s>>)
     \/ KeepEntry(<<current, s>>)
     \/ ReplaceEntry(<<current, s>>)
     \/ ReportConflict(<<current, s>>)
  /\ UNCHANGED <<automatonVars, current, edges, items, rule, goto>>

-----------------------------------------------------------------------------

Done == current = Len(states) /\ edges = {} /\ items = {} /\ symbols = {}

Terminated == Done /\ UNCHANGED vars

Next ==
  \/ EnterState
  \/ \E e \in edges : AddTransition(e)
  \/ \E item \in items : TakeItem(item)
  \/ \E s \in symbols : AddReduction(s)
  \/ Terminated

Spec == Init /\ [][Next]_vars

-----------------------------------------------------------------------------
(* Properties *)

\* What add_reduction() has been called for so far.
Tried(i, r, s) ==
  /\ i \in 1 .. current
  /\ \E item \in states[i] : item.rule = r /\ IsFinal(g, item)
  /\ s \in SymbolsOf(i, r)
  /\ i = current => /\ edges = {}
                    /\ \A item \in items : item.rule # r
                    /\ rule = r => s \notin symbols

Issue ==
  [kind : {"ShiftReduce"}, state : DOMAIN states, symbol : Symbol, rule : RuleIndex(g)] \cup
  [kind : {"ReduceReduce"}, state : DOMAIN states, rule1 : RuleIndex(g), rule2 : RuleIndex(g)]

Issues == {report[n] : n \in DOMAIN report}

\* Every variable keeps its type.
TypeOK ==
  /\ current \in 0 .. Len(states)
  /\ edges \subseteq transitions
  /\ items \subseteq Item(g)
  /\ rule \in 0 .. Len(g.rules)
  /\ symbols \subseteq Symbol
  /\ DOMAIN action \subseteq (DOMAIN states) \X Symbol
  /\ \A key \in DOMAIN action :
       action[key] \in {Accept} \cup {Shift(k) : k \in DOMAIN states} \cup {Reduce(r) : r \in RuleIndex(g)}
  /\ goto \in [DOMAIN goto -> DOMAIN states]
  /\ \A key \in DOMAIN goto : key[1] \in DOMAIN states /\ IsNonterminal(g, key[2])
  /\ report \in Seq(Issue)

\* No entry is in the way of a transition or of the accept entry: neither
\* "this shouldn't happen" of the code can.
NothingInTheWay ==
  /\ \A e \in edges : <<e[1], e[2]>> \notin DOMAIN action \cup DOMAIN goto
  /\ \A key \in DOMAIN action : key[1] <= current

\* An action comes from the automaton: a shift from a transition, a reduction from
\* a final item with that lookahead, accept from an item that reads @end.
EntriesJustified ==
  \A key \in DOMAIN action :
    \/ IsKind(key, "Shift") /\ <<key[1], key[2], action[key].state>> \in transitions
    \/ IsKind(key, "Reduce") /\ Tried(key[1], action[key].rule, key[2])
    \/ /\ IsKind(key, "Accept") /\ key[2] = EndSymbol
       /\ \E item \in states[key[1]] : IsAccepting(g, item)

\* A shift that is not in the table any more lost to a reduction of a greater
\* precedence, and the accept entry is never lost.
ShiftsKept ==
  /\ \A e \in transitions \ edges : e[1] <= current /\ IsTerminal(g, e[2]) =>
       LET key == <<e[1], e[2]>>
       IN  \/ key \in DOMAIN action /\ action[key] = Shift(e[3])
           \/ /\ IsKind(key, "Reduce")
              /\ Comparable(action[key].rule, e[2])
              /\ Greater(StackPrecedence(action[key].rule), SymbolPrecedence(e[2]))
  /\ \A i \in 1 .. current : (\E item \in states[i] : IsAccepting(g, item)) => IsKind(<<i, EndSymbol>>, "Accept")

\* No reduction is lost in silence: it is in the table, or reported against the
\* action that is, unless the lookahead has a precedence or is @end in an
\* accepting state.
NothingLostInSilence ==
  \A i \in 1 .. current : \A r \in RuleIndex(g) : \A s \in SymbolsOf(i, r) : Tried(i, r, s) =>
    \/ SymbolPrecedence(s) # NoPrecedence
    \/ IsKind(<<i, s>>, "Accept")
    \/ IsKind(<<i, s>>, "Shift") /\ ShiftReduceConflict(i, s, r) \in Issues
    \/ /\ IsKind(<<i, s>>, "Reduce")
       /\ \/ action[<<i, s>>].rule = r
          \/ ReduceReduceConflict(i, action[<<i, s>>].rule, r) \in Issues

\* What is reported is a conflict of the automaton, and one that no precedence
\* of its lookahead and its later rule decides.
ReportedConflictsExist ==
  \A issue \in Issues :
    IF issue.kind = "ShiftReduce"
      THEN /\ Tried(issue.state, issue.rule, issue.symbol)
           /\ \E e \in transitions : e[1] = issue.state /\ e[2] = issue.symbol
           /\ ~Comparable(issue.rule, issue.symbol)
      ELSE \E s \in SymbolsOf(issue.state, issue.rule1) :
             /\ Tried(issue.state, issue.rule1, s) /\ Tried(issue.state, issue.rule2, s)
             /\ ~Comparable(issue.rule2, s)

\* The table is a function of the automaton and the lookaheads: the order the
\* lookaheads of an item come in decides nothing.
TableAsResolved ==
  Done => \A i \in DOMAIN states : \A s \in g.terminals \cup {EndSymbol} :
            LET key == <<i, s>>
            IN  Resolved(i, s) = IF key \in DOMAIN action THEN {action[key]} ELSE {}

=============================================================================
